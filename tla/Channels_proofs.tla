---------------------------- MODULE Channels_proofs ----------------------------
(***************************************************************************)
(* Theorems about the channels of the sensors: a pulse channel with rain   *)
(* gauges (RainGauge) and a MODBUS channel (ModbusMaster).                 *)
(*                                                                         *)
(* For any number of pulse channels and any width of the count, each pulse *)
(* is reported once as long as no tick has come during a pin interrupt,    *)
(* and a tick that does costs a bounded error.                             *)
(*                                                                         *)
(* For every number of modules, size of the ring and length of an answer,  *)
(* a module interprets the answers of its own device only.                 *)
(***************************************************************************)
EXTENDS RainGauge, ModbusMaster, WellFoundedInduction, TLAPS

-----------------------------------------------------------------------------
(* The pulse channels. *)

Owes(c)  == isr # Idle /\ isr.chan = c
Base(c)  == reported[c] - pulses[c]

\* Where the pulse the interrupt handles is counted in pulses and not in num.
Early  == {"lock", "locked", "count", "dirty", "dirtied", "one", "more", "add"}
Loaded == DOMAIN AfterStore

\* The interrupt's own reading of the flags and of the clock is up to date.
Fresh ==
  isr # Idle =>
    /\ isr.pc \in Loaded => isr.sync = dirt
    /\ isr.pc = "epoch" => isr.at = now % Second
    /\ isr.pc \in {"lock", "locked", "count"} => isr.at = now /\ before[isr.chan] = now
    /\ isr.pc \in {"dirty", "dirtied"} => isr.chan \notin dirt
    /\ isr.pc \in {"one", "more", "add"} => isr.chan \in dirt
    /\ isr.pc = "add" => isr.count = num[isr.chan]

\* The last pulse the channel knows is the last one, but for the one it handles.
Known(c) ==
  /\ last[c] <= now /\ before[c] <= now
  /\ \/ last[c] = before[c]
     \/ /\ Owes(c) /\ isr.pc \in {"epoch", "lock", "locked", "count"}
        /\ before[c] = now /\ now - last[c] >= Bounce
  /\ Owes(c) /\ isr.pc = "epoch" /\ last[c] = before[c] => now - last[c] < Bounce

Delayed(c) ==
  \/ Owes(c) /\ isr.pc \in Early
  \/ Owes(c) /\ isr.pc = "epoch" /\ last[c] # before[c]

Balance(c) ==
  Base(c) + (IF c \in dirt /\ ~(Owes(c) /\ isr.pc = "one") THEN num[c] ELSE 0)
    = (IF Delayed(c) THEN -1 ELSE 0)

Inv ==
  /\ TypeOK
  /\ struck = 0 => Fresh /\ \A c \in Chans : Known(c) /\ (c \in wrapped \/ Balance(c))

Record == [pc : Places, chan : Chans, sync : SUBSET Chans, at : Int, count : 0 .. Width - 1]

-----------------------------------------------------------------------------
\* The places of a pin interrupt, one by one.
LEMMA PlacesAre ==
  Places = {"flag", "flagged", "lock", "locked", "dirty", "dirtied", "unlock", "unlocked",
            "leave", "left", "clock", "epoch", "count", "one", "more", "add"}
BY DEF Places, AfterLoad, AfterStore

LEMMA LoadedAre == Loaded = {"flagged", "locked", "dirtied", "unlocked", "left"}
BY DEF Loaded, AfterStore

LEMMA BusyIsNotIdle == ASSUME NEW r \in Record PROVE r # Idle /\ r.pc # "idle"
BY PlacesAre DEF Record, Idle

\* sync is loaded at five places, and stored at five.
LEMMA LoadIs ==
  ASSUME Load
  PROVE  /\ isr # Idle
         /\ UNCHANGED <<now, dirt, num, last, reported, ghosts>>
         /\ \/ isr.pc = "flag"   /\ isr' = [isr EXCEPT !.pc = "flagged", !.sync = dirt]
            \/ isr.pc = "lock"   /\ isr' = [isr EXCEPT !.pc = "locked", !.sync = dirt]
            \/ isr.pc = "dirty"  /\ isr' = [isr EXCEPT !.pc = "dirtied", !.sync = dirt]
            \/ isr.pc = "unlock" /\ isr' = [isr EXCEPT !.pc = "unlocked", !.sync = dirt]
            \/ isr.pc = "leave"  /\ isr' = [isr EXCEPT !.pc = "left", !.sync = dirt]
<1>1. isr.pc \in {"flag", "lock", "dirty", "unlock", "leave"}
  BY DEF Load, AfterLoad
<1>2. isr # Idle /\ isr' = [isr EXCEPT !.pc = AfterLoad[isr.pc], !.sync = dirt]
  BY DEF Load
<1>4. AfterLoad[isr.pc] = CASE isr.pc = "flag" -> "flagged" [] isr.pc = "lock" -> "locked"
                            [] isr.pc = "dirty" -> "dirtied" [] isr.pc = "unlock" -> "unlocked"
                            [] isr.pc = "leave" -> "left"
  BY <1>1 DEF AfterLoad
<1>3. UNCHANGED <<now, dirt, num, last, reported, ghosts>>
  BY DEF Load
<1> QED BY <1>1, <1>2, <1>3, <1>4

LEMMA StoreIs ==
  ASSUME Store
  PROVE  /\ isr # Idle
         /\ UNCHANGED <<now, num, last, reported, ghosts>>
         /\ \/ isr.pc = "flagged"  /\ isr' = [isr EXCEPT !.pc = "clock"] /\ dirt' = isr.sync
            \/ isr.pc = "locked"   /\ isr' = [isr EXCEPT !.pc = "count"] /\ dirt' = isr.sync
            \/ isr.pc = "dirtied"  /\ isr' = [isr EXCEPT !.pc = "one"]
                                  /\ dirt' = isr.sync \cup {isr.chan}
            \/ isr.pc = "unlocked" /\ isr' = [isr EXCEPT !.pc = "leave"] /\ dirt' = isr.sync
            \/ isr.pc = "left"     /\ isr' = Idle /\ dirt' = isr.sync
<1>1. isr.pc \in {"flagged", "locked", "dirtied", "unlocked", "left"}
  BY DEF Store, AfterStore
<1>2. isr.pc # "left" => isr' = [isr EXCEPT !.pc = AfterStore[isr.pc]]
  BY DEF Store, Goes
<1>3. isr.pc = "left" => isr' = Idle
  BY DEF Store
<1>4. dirt' = IF isr.pc = "dirtied" THEN isr.sync \cup {isr.chan} ELSE isr.sync
  BY DEF Store, Stored
<1>5. isr # Idle /\ UNCHANGED <<now, num, last, reported, ghosts>>
  BY DEF Store
<1> QED BY <1>1, <1>2, <1>3, <1>4, <1>5 DEF AfterStore

-----------------------------------------------------------------------------
LEMMA InitType == Init => TypeOK
BY WidthAssumption, TimesAssumption DEF Init, TypeOK, Idle

LEMMA NextType == TypeOK /\ [Next]_vars => TypeOK'
<1> SUFFICES ASSUME TypeOK, [Next]_vars PROVE TypeOK'
  OBVIOUS
<1> USE WidthAssumption, TimesAssumption
<1>0. isr # Idle => isr \in Record
  BY DEF TypeOK, Record
<1>1. ASSUME NEW c \in Chans, Raise(c) PROVE TypeOK'
  <2>1. isr' \in Record
    BY <1>1, PlacesAre DEF Raise, Record
  <2> QED BY <1>1, <2>1 DEF Raise, TypeOK, Record, ghosts
<1>2. CASE Load
  <2>1. isr' \in Record
    BY <1>0, LoadIs, <1>2, PlacesAre, ZenonT(60) DEF Record, TypeOK
  <2> QED BY <1>2, <2>1, LoadIs DEF TypeOK, Record, ghosts
<1>3. CASE Store
  <2>1. isr \in Record /\ isr.sync \subseteq Chans /\ isr.chan \in Chans
    BY <1>0, <1>3, StoreIs DEF Record
  <2>2. dirt' \subseteq Chans
    BY <1>3, <2>1, StoreIs
  <2>3. isr' = Idle \/ isr' \in Record
    BY <1>3, <2>1, StoreIs, PlacesAre DEF Record
  <2> QED BY <1>3, <2>2, <2>3, StoreIs DEF TypeOK, Record, ghosts
<1>4. CASE Millis
  <2>1. isr' \in Record
    <3>1. isr \in Record /\ now \in Nat
      BY <1>0, <1>4 DEF TypeOK, Millis, At
    <3>2. now % Second \in Int
      BY <3>1
    <3>3. isr' = [isr EXCEPT !.pc = "epoch", !.at = now % Second]
      BY <1>4 DEF Millis
    <3> QED BY <3>1, <3>2, <3>3, PlacesAre DEF Record
  <2>2. pulses' \in [Chans -> Nat] /\ before' \in [Chans -> Int]
    BY <1>4 DEF Millis, TypeOK
  <2> QED BY <1>4, <2>1, <2>2 DEF TypeOK, Record, Millis
<1>5. CASE Epoch
  <2>1. isr' \in Record
    <3> DEFINE t == (now - (now % Second)) + isr.at
    <3>1. isr \in Record /\ isr.at \in Int /\ now \in Nat
      BY <1>0, <1>5 DEF TypeOK, Epoch, At, Record
    <3>2. t \in Int
      <4>1. now % Second \in Int
        BY <3>1
      <4> QED BY <3>1, <4>1
    <3> HIDE DEF t
    <3>3. \/ isr' = [isr EXCEPT !.at = t, !.pc = "leave"]
          \/ isr' = [isr EXCEPT !.at = t, !.pc = "lock"]
      BY <1>5 DEF Epoch, t
    <3> QED BY <3>1, <3>2, <3>3, PlacesAre DEF Record
  <2> QED BY <1>5, <2>1 DEF TypeOK, Record, Epoch, ghosts
<1>6. CASE Count
  <2>1. isr' \in Record
    <3>1. isr \in Record /\ isr.chan \in Chans
      BY <1>0, <1>6 DEF Count, At, Record
    <3>2. isr' = [isr EXCEPT !.pc = "more"] \/ isr' = [isr EXCEPT !.pc = "dirty"]
      BY <1>6 DEF Count, Goes
    <3> QED BY <3>1, <3>2, PlacesAre DEF Record
  <2>2. last' \in [Chans -> Int]
    BY <1>0, <1>6 DEF Count, At, TypeOK, Record
  <2> QED BY <1>6, <2>1, <2>2 DEF TypeOK, Record, Count, ghosts
<1>7. CASE One
  <2>1. isr' \in Record
    BY <1>0, <1>7, PlacesAre DEF Record, One, At, Goes
  <2>2. num' \in [Chans -> 0 .. Width - 1]
    <3>1. 1 \in 0 .. Width - 1
      OBVIOUS
    <3>2. num \in [Chans -> 0 .. Width - 1] /\ num' = [num EXCEPT ![isr.chan] = 1]
      BY <1>7 DEF One, TypeOK
    <3> QED BY <3>1, <3>2
  <2> QED BY <1>7, <2>1, <2>2 DEF TypeOK, Record, One, ghosts
<1>8. CASE More
  <2>1. isr' \in Record
    BY <1>0, <1>8, PlacesAre DEF Record, More, At, TypeOK
  <2> QED BY <1>8, <2>1 DEF TypeOK, Record, More, ghosts
<1>9. CASE Add
  <2>1. isr' \in Record /\ isr.chan \in Chans
    BY <1>0, <1>9, PlacesAre DEF Record, Add, At, Goes
  <2>2. num' \in [Chans -> 0 .. Width - 1]
    <3>1. isr.count \in Nat
      BY <1>0, <1>9 DEF Record, Add, At
    <3>2. (isr.count + 1) % Width \in 0 .. Width - 1
      BY <3>1
    <3> QED BY <3>2, <1>9 DEF Add, TypeOK
  <2>3. wrapped' \subseteq Chans
    BY <1>9, <2>1 DEF Add, TypeOK
  <2> QED BY <1>9, <2>1, <2>2, <2>3 DEF TypeOK, Record, Add
<1>10. ASSUME NEW snapshot \in BOOLEAN, Elapse(snapshot) PROVE TypeOK'
  <2>1. reported' \in [Chans -> Nat] /\ dirt' \subseteq Chans
    BY <1>10 DEF Elapse, Take, TypeOK
  <2>2. again' \in [Chans -> Nat] /\ struck' \in Nat
    BY <1>10 DEF Elapse, TypeOK
  <2>3. now' \in 0 .. MaxNow
    BY <1>10 DEF Elapse, TypeOK
  <2>4. UNCHANGED <<num, last, isr, pulses, before, wrapped>>
    BY <1>10 DEF Elapse
  <2> QED BY <2>1, <2>2, <2>3, <2>4 DEF TypeOK
<1>11. CASE UNCHANGED vars
  BY <1>11 DEF vars, ghosts, TypeOK
<1> QED BY <1>1, <1>2, <1>3, <1>4, <1>5, <1>6, <1>7, <1>8, <1>9, <1>10, <1>11
        DEF Next, Interrupt
-----------------------------------------------------------------------------
Consistent == Fresh /\ \A c \in Chans : Known(c) /\ (c \in wrapped \/ Balance(c))

LEMMA InitInv == Init => Inv
<1> SUFFICES ASSUME Init PROVE Consistent
  BY InitType DEF Inv, Consistent
<1> USE DEF Init, Idle
<1>1. Fresh
  BY DEF Fresh
<1>2. ASSUME NEW c \in Chans PROVE Known(c) /\ Balance(c)
  BY TimesAssumption DEF Known, Balance, Base, Delayed, Owes
<1> QED BY <1>1, <1>2 DEF Consistent

LEMMA NextInv == Inv /\ [Next]_vars => Inv'
<1> SUFFICES ASSUME Inv, [Next]_vars, struck' = 0, TypeOK' PROVE Consistent'
  BY NextType DEF Inv, Consistent
<1> USE WidthAssumption, TimesAssumption
<1>0. TypeOK /\ (isr # Idle => isr \in Record)
  BY DEF Inv, TypeOK, Record
<1>z. CASE struck # 0
  <2>1. struck' # 0
    BY <1>0, <1>z DEF TypeOK, Next, Interrupt, Raise, Load, Store, Millis, Epoch, Count, One,
       More, Add, Elapse, vars, ghosts
  <2> QED BY <2>1
<1> SUFFICES ASSUME Consistent PROVE Consistent'
  BY <1>z DEF Inv, Consistent
<1>c. ASSUME NEW c \in Chans
      PROVE  /\ Known(c) /\ (c \in wrapped \/ Balance(c))
             /\ last[c] \in Int /\ before[c] \in Int /\ num[c] \in Nat
             /\ reported[c] \in Nat /\ pulses[c] \in Nat /\ now \in Nat
  BY <1>0 DEF Consistent, TypeOK
<1>1. ASSUME NEW d \in Chans, Raise(d) PROVE Consistent'
  <2>1. isr = Idle /\ isr' # Idle /\ isr'.pc = "flag" /\ isr'.chan = d
    BY <1>1 DEF Raise, Idle
  <2>2. UNCHANGED <<now, dirt, num, last, reported, ghosts>>
    BY <1>1 DEF Raise
  <2>3. Fresh'
    BY <2>1, LoadedAre DEF Fresh
  <2>4. ASSUME NEW c \in Chans PROVE Known(c)' /\ (c \in wrapped \/ Balance(c))'
    BY <1>c, <2>1, <2>2 DEF Known, Balance, Base, Delayed, Early, Owes, ghosts
  <2> QED BY <2>3, <2>4 DEF Consistent
<1>2. CASE Load
  <2>1. isr \in Record /\ isr' # Idle /\ isr'.chan = isr.chan /\ isr'.sync = dirt
        /\ isr'.at = isr.at /\ isr'.count = isr.count /\ isr.pc # "epoch" /\ isr'.pc # "epoch"
        /\ (isr'.pc = "one" <=> isr.pc = "one") /\ isr'.pc \notin {"one", "more", "add"}
        /\ (isr'.pc \in {"lock", "locked", "count"} <=> isr.pc \in {"lock", "locked", "count"})
        /\ (isr'.pc \in {"dirty", "dirtied"} <=> isr.pc \in {"dirty", "dirtied"})
        /\ (isr'.pc \in Early <=> isr.pc \in Early)
    BY <1>0, <1>2, LoadIs DEF Record, Idle, Early
  <2>2. UNCHANGED <<now, dirt, num, last, reported, ghosts>>
    BY <1>2, LoadIs
  <2>3. Fresh'
    BY <1>0, <1>2, <2>1, <2>2, LoadIs, LoadedAre DEF Consistent, Fresh, ghosts
  <2>4. ASSUME NEW c \in Chans PROVE Known(c)' /\ (c \in wrapped \/ Balance(c))'
    <3>1. (Owes(c) <=> Owes(c)') /\ (Delayed(c) <=> Delayed(c)')
      BY <1>2, <2>1, <2>2, LoadIs DEF Owes, Delayed
    <3> QED BY <1>c, <2>1, <2>2, <3>1 DEF Known, Balance, Base, Owes, ghosts
  <2> QED BY <2>3, <2>4 DEF Consistent
<1>3. CASE Store
  <2>1. isr \in Record /\ isr.chan \in Chans /\ isr.sync = dirt
    BY <1>0, <1>3, StoreIs, LoadedAre DEF Record, Consistent, Fresh
  <2>2. UNCHANGED <<now, num, last, reported, ghosts>>
    BY <1>3, StoreIs
  <2>a. ASSUME isr.pc = "left" PROVE Consistent'
    <3>1. isr' = Idle /\ dirt' = dirt
      BY <1>3, <2>1, <2>a, StoreIs
    <3>2. Fresh'
      BY <3>1 DEF Fresh
    <3>3. ASSUME NEW c \in Chans PROVE Known(c)' /\ (c \in wrapped \/ Balance(c))'
      BY <1>c, <2>a, <2>2, <3>1 DEF Known, Balance, Base, Delayed, Early, Owes, ghosts
    <3> QED BY <3>2, <3>3 DEF Consistent
  <2>b. ASSUME isr.pc = "dirtied" PROVE Consistent'
    <3>1. dirt' = dirt \cup {isr.chan} /\ isr' = [isr EXCEPT !.pc = "one"]
      BY <1>3, <2>1, <2>b, StoreIs
    <3>2. isr' # Idle /\ isr'.pc = "one" /\ isr'.chan = isr.chan
      BY <2>1, <3>1 DEF Record, Idle
    <3>3. Fresh'
      BY <3>1, <3>2, LoadedAre DEF Fresh
    <3>4. isr.chan \notin dirt /\ isr # Idle
      BY <1>3, <2>b, StoreIs DEF Consistent, Fresh
    <3>5. ASSUME NEW c \in Chans PROVE Known(c)' /\ (c \in wrapped \/ Balance(c))'
      <4>1. Known(c)'
        BY <1>c, <2>b, <2>2, <3>2, <3>4 DEF Known, Owes, ghosts
      <4>2. (c \in wrapped \/ Balance(c))'
        BY <1>c, <2>b, <2>2, <3>1, <3>2, <3>4 DEF Balance, Base, Delayed, Early, Owes, ghosts
      <4> QED BY <4>1, <4>2
    <3> QED BY <3>3, <3>5 DEF Consistent
  <2>c. ASSUME isr.pc \notin {"left", "dirtied"} PROVE Consistent'
    <3>1. dirt' = dirt /\ isr # Idle
      BY <1>3, <2>1, <2>c, StoreIs
    <3>2. isr' # Idle /\ isr'.chan = isr.chan /\ isr'.at = isr.at
          /\ isr.pc \notin {"epoch", "one"} /\ isr'.pc \notin Loaded \cup {"epoch", "lock", "locked"}
          /\ isr'.pc \notin {"dirty", "dirtied", "one", "more", "add"}
          /\ (isr'.pc = "count" <=> isr.pc \in {"lock", "locked", "count"})
          /\ (isr'.pc \in Early <=> isr.pc \in Early)
      BY <1>3, <2>1, <2>c, StoreIs, LoadedAre DEF Record, Idle, Early
    <3>3. Fresh'
      BY <2>2, <3>1, <3>2 DEF Consistent, Fresh, ghosts
    <3>4. ASSUME NEW c \in Chans PROVE Known(c)' /\ (c \in wrapped \/ Balance(c))'
      <4>1. (Owes(c) <=> Owes(c)') /\ (Delayed(c) <=> Delayed(c)')
        BY <3>1, <3>2 DEF Owes, Delayed
      <4> QED BY <1>c, <2>2, <3>1, <3>2, <4>1 DEF Known, Balance, Base, Owes, ghosts
    <3> QED BY <3>3, <3>4 DEF Consistent
  <2> QED BY <2>a, <2>b, <2>c
<1>4. CASE Millis
  <2>1. isr \in Record /\ isr # Idle /\ isr.pc = "clock" /\ isr.chan \in Chans
    BY <1>0, <1>4 DEF Millis, At, Record
  <2>2. isr' # Idle /\ isr'.pc = "epoch" /\ isr'.chan = isr.chan /\ isr'.at = now % Second
    BY <1>4, <2>1 DEF Millis, Record, Idle
  <2>3. UNCHANGED <<now, dirt, num, last, reported, wrapped>>
    BY <1>4 DEF Millis
  <2>4. Fresh'
    BY <2>2, <2>3, LoadedAre DEF Fresh
  <2>5. ASSUME NEW c \in Chans PROVE Known(c)' /\ (c \in wrapped \/ Balance(c))'
    <3>0. last[c] = before[c]
      BY <1>c, <2>1 DEF Known
    <3>1. CASE c # isr.chan
      <4>1. pulses'[c] = pulses[c] /\ before'[c] = before[c]
        BY <1>0, <1>4, <3>1 DEF Millis, TypeOK
      <4> QED BY <1>c, <2>1, <2>2, <2>3, <3>0, <3>1, <4>1
              DEF Known, Balance, Base, Delayed, Early, Owes
    <3>2. CASE c = isr.chan /\ now - before[c] >= Bounce
      <4>1. pulses'[c] = pulses[c] + 1 /\ before'[c] = now
        BY <1>0, <1>4, <3>2 DEF Millis, TypeOK
      <4>2. last'[c] # before'[c] /\ before'[c] = now'
        BY <1>c, <2>3, <3>0, <3>2, <4>1
      <4>3. Known(c)'
        BY <1>c, <2>1, <2>2, <2>3, <3>0, <3>2, <4>1, <4>2 DEF Known, Owes
      <4>4. (c \in wrapped \/ Balance(c))'
        <5>1. ~Delayed(c) /\ Delayed(c)' /\ ~(isr.pc = "one") /\ ~(isr'.pc = "one")
          BY <2>1, <2>2, <3>2, <4>2 DEF Delayed, Early, Owes
        <5>2. Base(c)' = Base(c) - 1
          BY <1>c, <2>3, <4>1 DEF Base
        <5>3. Base(c) \in Int
          BY <1>c DEF Base
        <5> QED BY <1>c, <2>3, <5>1, <5>2, <5>3 DEF Balance
      <4> QED BY <4>3, <4>4
    <3>3. CASE c = isr.chan /\ ~(now - before[c] >= Bounce)
      <4>1. pulses'[c] = pulses[c] /\ before'[c] = before[c]
        BY <1>4, <3>3 DEF Millis
      <4> QED BY <1>c, <2>1, <2>2, <2>3, <3>0, <3>3, <4>1
              DEF Known, Balance, Base, Delayed, Early, Owes
    <3> QED BY <3>1, <3>2, <3>3
  <2> QED BY <2>4, <2>5 DEF Consistent
<1>5. CASE Epoch
  <2>1. isr \in Record /\ isr # Idle /\ isr.pc = "epoch" /\ isr.chan \in Chans
    BY <1>0, <1>5 DEF Epoch, At, Record
  <2>2. UNCHANGED <<now, dirt, num, last, reported, ghosts>>
    BY <1>5 DEF Epoch
  <2> DEFINE t == (now - (now % Second)) + isr.at
  <2>3. t = now
    <3>1. isr.at = now % Second /\ now \in Nat
      BY <1>0, <2>1 DEF Consistent, Fresh, TypeOK
    <3>2. now % Second \in Int
      BY <3>1
    <3> QED BY <3>1, <3>2
  <2>4. isr' = [isr EXCEPT !.at = now, !.pc = IF IsBounce(now) THEN "leave" ELSE "lock"]
    BY <1>5, <2>3 DEF Epoch
  <2>5. isr' # Idle /\ isr'.chan = isr.chan /\ isr'.at = now
        /\ isr'.pc = IF IsBounce(now) THEN "leave" ELSE "lock"
    BY <2>1, <2>4 DEF Record, Idle
  <2>6. IsBounce(now) <=> last[isr.chan] = before[isr.chan]
    BY <1>c, <2>1 DEF Known, Owes, IsBounce
  <2>7. ~IsBounce(now) => before[isr.chan] = now
    BY <1>c, <2>1, <2>6 DEF Known, Owes
  <2>8. Fresh'
    BY <2>2, <2>5, <2>7, LoadedAre DEF Fresh, ghosts
  <2>9. ASSUME NEW c \in Chans PROVE Known(c)' /\ (c \in wrapped \/ Balance(c))'
    BY <1>c, <2>1, <2>2, <2>5, <2>6, <2>7 DEF Known, Balance, Base, Delayed, Early, Owes, ghosts
  <2> QED BY <2>8, <2>9 DEF Consistent
<1>6. CASE Count
  <2>1. isr \in Record /\ isr # Idle /\ isr.pc = "count" /\ isr.chan \in Chans
    BY <1>0, <1>6 DEF Count, At, Record
  <2>2. UNCHANGED <<now, dirt, num, reported, ghosts>>
    BY <1>6 DEF Count
  <2>3. isr' # Idle /\ isr'.chan = isr.chan
        /\ isr'.pc = IF isr.chan \in dirt THEN "more" ELSE "dirty"
    BY <1>6, <2>1 DEF Count, Goes, Record, Idle
  <2>4. last' = [last EXCEPT ![isr.chan] = now] /\ before[isr.chan] = now
    BY <1>6, <2>1 DEF Count, Consistent, Fresh
  <2>5. Fresh'
    BY <2>2, <2>3, LoadedAre DEF Fresh, ghosts
  <2>6. ASSUME NEW c \in Chans PROVE Known(c)' /\ (c \in wrapped \/ Balance(c))'
    <3>1. last'[c] = IF c = isr.chan THEN now ELSE last[c]
      BY <1>0, <2>4 DEF TypeOK
    <3> QED BY <1>c, <2>1, <2>2, <2>3, <2>4, <3>1
            DEF Known, Balance, Base, Delayed, Early, Owes, ghosts
  <2> QED BY <2>5, <2>6 DEF Consistent
<1>7. CASE One
  <2>1. isr \in Record /\ isr # Idle /\ isr.pc = "one" /\ isr.chan \in Chans /\ isr.chan \in dirt
    BY <1>0, <1>7 DEF One, At, Record, Consistent, Fresh
  <2>2. UNCHANGED <<now, dirt, last, reported, ghosts>>
    BY <1>7 DEF One
  <2>3. isr' # Idle /\ isr'.chan = isr.chan /\ isr'.pc = "unlock"
    BY <1>7, <2>1 DEF One, Goes, Record, Idle
  <2>4. Fresh'
    BY <2>3, LoadedAre DEF Fresh
  <2>5. ASSUME NEW c \in Chans PROVE Known(c)' /\ (c \in wrapped \/ Balance(c))'
    <3>1. num'[c] = IF c = isr.chan THEN 1 ELSE num[c]
      BY <1>0, <1>7 DEF One, TypeOK
    <3> QED BY <1>c, <2>1, <2>2, <2>3, <3>1 DEF Known, Balance, Base, Delayed, Early, Owes, ghosts
  <2> QED BY <2>4, <2>5 DEF Consistent
<1>8. CASE More
  <2>1. isr \in Record /\ isr # Idle /\ isr.pc = "more" /\ isr.chan \in Chans /\ isr.chan \in dirt
    BY <1>0, <1>8 DEF More, At, Record, Consistent, Fresh
  <2>2. UNCHANGED <<now, dirt, num, last, reported, ghosts>>
    BY <1>8 DEF More
  <2>3. isr' # Idle /\ isr'.chan = isr.chan /\ isr'.pc = "add" /\ isr'.count = num[isr.chan]
    BY <1>8, <2>1 DEF More, Record, Idle
  <2>4. Fresh'
    BY <2>1, <2>2, <2>3, LoadedAre DEF Fresh
  <2>5. ASSUME NEW c \in Chans PROVE Known(c)' /\ (c \in wrapped \/ Balance(c))'
    BY <1>c, <2>1, <2>2, <2>3 DEF Known, Balance, Base, Delayed, Early, Owes, ghosts
  <2> QED BY <2>4, <2>5 DEF Consistent
<1>9. CASE Add
  <2>1. isr \in Record /\ isr # Idle /\ isr.pc = "add" /\ isr.chan \in Chans /\ isr.chan \in dirt
        /\ isr.count = num[isr.chan]
    BY <1>0, <1>9 DEF Add, At, Record, Consistent, Fresh
  <2>2. UNCHANGED <<now, dirt, last, reported, pulses, before>>
    BY <1>9 DEF Add
  <2>3. isr' # Idle /\ isr'.chan = isr.chan /\ isr'.pc = "unlock"
    BY <1>9, <2>1 DEF Add, Goes, Record, Idle
  <2>4. Fresh'
    BY <2>3, LoadedAre DEF Fresh
  <2>5. ASSUME NEW c \in Chans PROVE Known(c)' /\ (c \in wrapped \/ Balance(c))'
    <3>1. Known(c)'
      BY <1>c, <2>1, <2>2, <2>3 DEF Known, Owes
    <3>2. CASE c # isr.chan
      <4>1. num'[c] = num[c] /\ (c \in wrapped => c \in wrapped')
        BY <1>0, <1>9, <3>2 DEF Add, TypeOK
      <4> QED BY <1>c, <2>1, <2>2, <2>3, <3>1, <3>2, <4>1 DEF Balance, Base, Delayed, Early, Owes
    <3>3. CASE c = isr.chan /\ (num[c] + 1 = Width \/ c \in wrapped)
      BY <1>9, <2>1, <3>1, <3>3 DEF Add
    <3>4. CASE c = isr.chan /\ num[c] + 1 # Width /\ c \notin wrapped
      <4>1. num[c] \in 0 .. Width - 1
        BY <1>0 DEF TypeOK
      <4>2. (num[c] + 1) % Width = num[c] + 1
        BY <3>4, <4>1
      <4>3. num'[c] = num[c] + 1
        BY <1>0, <1>9, <2>1, <3>4, <4>2 DEF Add, TypeOK
      <4> QED BY <1>c, <2>1, <2>2, <2>3, <3>1, <3>4, <4>3 DEF Balance, Base, Delayed, Early, Owes
    <3> QED BY <3>2, <3>3, <3>4
  <2> QED BY <2>4, <2>5 DEF Consistent
<1>10. ASSUME NEW snapshot \in BOOLEAN, Elapse(snapshot) PROVE Consistent'
  <2>1. now' = now + 1 /\ UNCHANGED <<num, last, isr, pulses, before, wrapped>>
    BY <1>10 DEF Elapse
  <2>2. isr = Idle
    BY <1>0, <1>10 DEF Elapse, TypeOK
  <2>3. Fresh'
    BY <2>1, <2>2 DEF Fresh
  <2>4. ASSUME NEW c \in Chans PROVE Known(c)' /\ (c \in wrapped \/ Balance(c))'
    <3>1. last[c] = before[c] /\ ~Owes(c) /\ ~Owes(c)'
      BY <1>c, <2>1, <2>2 DEF Known, Owes
    <3>2. \/ reported'[c] = reported[c] /\ (c \in dirt' <=> c \in dirt)
          \/ /\ reported'[c] = IF c \in dirt THEN reported[c] + num[c] ELSE reported[c]
             /\ c \notin dirt'
      BY <1>10 DEF Elapse, Take
    <3> QED BY <1>c, <2>1, <3>1, <3>2 DEF Known, Balance, Base, Delayed
  <2> QED BY <2>3, <2>4 DEF Consistent
<1>11. CASE UNCHANGED vars
  BY <1>11 DEF vars, ghosts, Consistent, Fresh, Known, Balance, Base, Delayed, Owes
<1> QED BY <1>1, <1>2, <1>3, <1>4, <1>5, <1>6, <1>7, <1>8, <1>9, <1>10, <1>11
        DEF Next, Interrupt

-----------------------------------------------------------------------------
(* What a tick in a pin interrupt may do. *)

\* The flags, as they will be once the interrupt has stored what it has loaded.
Flags == IF isr # Idle /\ isr.pc \in Loaded THEN isr.sync ELSE dirt

\* The interrupt will count a pulse yet.
Owed(c) ==
  /\ Owes(c)
  /\ \/ isr.pc \in {"lock", "locked", "count", "dirty", "dirtied"}
     \/ isr.pc \in {"one", "more", "add"} /\ c \in dirt

\* The error of c, and the time of its last pulse, once it has.
Value(c)  == Base(c) + (IF c \in Flags /\ ~(Owes(c) /\ isr.pc = "one") THEN num[c] ELSE 0)
                     + (IF Owed(c) THEN 1 ELSE 0)
Newest(c) == IF Owes(c) /\ isr.pc \in {"lock", "locked", "count"} THEN isr.at ELSE last[c]

(***************************************************************************)
(* The channel and the gauge see the pulses from the one they counted last *)
(* on, and count the next that is far enough: whichever counted earlier is *)
(* the next to count.  An error at the end of its range is so on one side  *)
(* only, and d ticks have left their part of the range unused.             *)
(***************************************************************************)
Within(c, x, z, d) ==
  LET l == d - struck
      h == 2 * struck + again[c] - 2 * d
  IN /\ l <= x /\ x <= h
     /\ z < before[c] => x < h
     /\ z > before[c] => l < x
     /\ z > now => x < h

\* Between the readings of the clock: a pulse at m, no bounce, that may not be counted.
Real(c, m, d) ==
  /\ before[c] = m
  /\ d - struck <= Value(c) + 1 /\ Value(c) + 1 <= 2 * struck + again[c] - 2 * d
  /\ m - last[c] < Bounce => d - struck <= Value(c)

\* A tick that comes there is not followed by another.
Reading(c) ==
  \/ /\ isr.at = now % Second
     /\ Real(c, now, 0) \/ (now - before[c] < Bounce /\ Within(c, Value(c), last[c], 0))
  \/ /\ now % Second = 0 /\ isr.at = Second - 1
     /\ Real(c, now - 1, 1) \/ Within(c, Value(c), last[c], 1)

Bounded(c) ==
  /\ before[c] <= now
  /\ c \notin wrapped =>
       /\ Owes(c) /\ isr.pc = "epoch" => Reading(c)
       /\ ~(Owes(c) /\ isr.pc = "epoch") => Within(c, Value(c), Newest(c), 0)

Placed ==
  isr # Idle =>
    /\ isr.pc \in {"dirty", "dirtied"} => isr.chan \notin Flags
    /\ isr.pc = "add" => isr.count = num[isr.chan]

DamageInv == TypeOK /\ Placed /\ \A c \in Chans : Bounded(c)

LEMMA Types ==
  ASSUME TypeOK, NEW c \in Chans
  PROVE  /\ last[c] \in Int /\ before[c] \in Int /\ num[c] \in Nat
         /\ reported[c] \in Nat /\ pulses[c] \in Nat /\ again[c] \in Nat
         /\ now \in Nat /\ struck \in Nat
         /\ Base(c) \in Int /\ Value(c) \in Int /\ Newest(c) \in Int
         /\ isr # Idle => isr \in Record /\ isr.chan \in Chans /\ isr.at \in Int
<1> USE WidthAssumption
<1>1. /\ last[c] \in Int /\ before[c] \in Int /\ num[c] \in Nat
      /\ reported[c] \in Nat /\ pulses[c] \in Nat /\ again[c] \in Nat
      /\ now \in Nat /\ struck \in Nat
  BY DEF TypeOK
<1>2. isr # Idle => isr \in Record /\ isr.chan \in Chans /\ isr.at \in Int
  BY DEF TypeOK, Record
<1>3. Base(c) \in Int
  BY <1>1 DEF Base
<1>4. Value(c) \in Int
  BY <1>1, <1>3 DEF Value
<1>5. Newest(c) \in Int
  BY <1>1, <1>2 DEF Newest, Owes
<1> QED BY <1>1, <1>2, <1>3, <1>4, <1>5

LEMMA AllTypes ==
  TypeOK => \A c \in Chans : Value(c) \in Int /\ Newest(c) \in Int /\ Base(c) \in Int
BY Types

LEMMA TypesNext ==
  (TypeOK => \A c \in Chans : Value(c) \in Int /\ Newest(c) \in Int /\ Base(c) \in Int)'
BY AllTypes, PTL

\* Most steps leave the error and the last pulse as they are.
LEMMA Steady ==
  ASSUME NEW c \in Chans, Bounded(c), now' = now, before'[c] = before[c],
         UNCHANGED <<struck, again, wrapped>>,
         ~(Owes(c) /\ isr.pc = "epoch"), ~(Owes(c) /\ isr.pc = "epoch")',
         Value(c)' = Value(c), Newest(c)' = Newest(c)
  PROVE  Bounded(c)'
<1>1. before'[c] <= now' /\ (c \notin wrapped' => Within(c, Value(c), Newest(c), 0))
  BY DEF Bounded
<1>2. c \notin wrapped' => Within(c, Value(c), Newest(c), 0)'
  BY <1>1 DEF Within
<1> QED BY <1>1, <1>2 DEF Bounded

\* Two ticks are at least two milliseconds apart.
LEMMA NextSecond ==
  ASSUME NEW n \in Nat, (n + 1) % Second = 0
  PROVE  n % Second = Second - 1
<1> DEFINE q == n \div Second
           r == n % Second
           p == (n + 1) \div Second
<1>1. Second \in Nat /\ Second > 1
  BY TimesAssumption
<1>2. q \in Int /\ r \in 0 .. Second - 1 /\ n = Second * q + r
  BY <1>1
<1>3. p \in Int /\ n + 1 = Second * p
  BY <1>1
<1> HIDE DEF q, r, p
<1>4. Second * (p - q) = r + 1
  BY <1>1, <1>2, <1>3
<1>5. p - q >= 1
  BY <1>1, <1>2, <1>3, <1>4
<1>6. Second * (p - q) >= Second
  BY <1>1, <1>2, <1>3, <1>5
<1> QED BY <1>1, <1>2, <1>4, <1>6 DEF r

LEMMA DamageInit == Init => DamageInv
<1> SUFFICES ASSUME Init PROVE Placed /\ \A c \in Chans : Bounded(c)
  BY InitType DEF DamageInv
<1> USE DEF Init, Idle
<1>1. Placed
  BY DEF Placed
<1>2. ASSUME NEW c \in Chans PROVE Bounded(c)
  <2>1. Value(c) = 0 /\ Newest(c) = last[c]
    BY DEF Value, Base, Newest, Owed, Owes, Flags
  <2> QED BY <2>1, TimesAssumption DEF Bounded, Within, Owes
<1> QED BY <1>1, <1>2

LEMMA DamageNext == DamageInv /\ [Next]_vars => DamageInv'
<1> SUFFICES ASSUME DamageInv, [Next]_vars, TypeOK' PROVE Placed' /\ \A c \in Chans : Bounded(c)'
  BY NextType DEF DamageInv
<1>0. TypeOK /\ Placed /\ (isr # Idle => isr \in Record /\ isr.chan \in Chans)
  BY DEF DamageInv, TypeOK, Record
<1>c. ASSUME NEW c \in Chans
      PROVE  /\ Bounded(c)
             /\ last[c] \in Int /\ before[c] \in Int /\ num[c] \in Nat
             /\ reported[c] \in Nat /\ pulses[c] \in Nat /\ again[c] \in Nat
             /\ now \in Nat /\ struck \in Nat
             /\ Base(c) \in Int /\ Value(c) \in Int /\ Newest(c) \in Int
  BY <1>0, Types DEF DamageInv
<1>n. ASSUME NEW c \in Chans PROVE Value(c)' \in Int /\ Newest(c)' \in Int /\ Base(c)' \in Int
  BY TypesNext
<1>1. ASSUME NEW d \in Chans, Raise(d) PROVE Placed' /\ \A c \in Chans : Bounded(c)'
  <2>1. isr = Idle /\ isr' # Idle /\ isr'.pc = "flag" /\ isr'.chan = d
    BY <1>1 DEF Raise, Idle
  <2>2. UNCHANGED <<now, dirt, num, last, reported, ghosts>>
    BY <1>1 DEF Raise
  <2>3. Placed'
    BY <2>1 DEF Placed
  <2>4. ASSUME NEW c \in Chans PROVE Bounded(c)'
    <3>1. Value(c)' = Value(c) /\ Newest(c)' = Newest(c)
      BY <2>1, <2>2, LoadedAre DEF Value, Base, Newest, Owed, Owes, Flags, ghosts
    <3>2. ~(Owes(c) /\ isr.pc = "epoch") /\ ~(Owes(c) /\ isr.pc = "epoch")'
      BY <2>1 DEF Owes
    <3> QED BY <1>c, <2>2, <3>1, <3>2, Steady DEF ghosts
  <2> QED BY <2>3, <2>4
<1>2. CASE Load
  <2>1. isr \in Record /\ isr # Idle /\ isr' # Idle /\ isr'.chan = isr.chan /\ isr'.sync = dirt
        /\ isr'.at = isr.at /\ isr'.count = isr.count /\ isr.pc # "epoch" /\ isr'.pc # "epoch"
        /\ isr.pc \notin Loaded \cup {"one", "more", "add"} /\ isr'.pc \in Loaded
        /\ isr'.pc \notin {"one", "more", "add"}
        /\ (isr'.pc \in {"lock", "locked", "count"} <=> isr.pc \in {"lock", "locked", "count"})
        /\ (isr'.pc \in {"dirty", "dirtied"} <=> isr.pc \in {"dirty", "dirtied"})
    BY <1>0, <1>2, LoadIs, LoadedAre DEF Record, Idle
  <2>2. UNCHANGED <<now, dirt, num, last, reported, ghosts>>
    BY <1>2, LoadIs
  <2>3. Flags' = Flags
    BY <2>1, <2>2 DEF Flags
  <2>4. Placed'
    BY <1>0, <2>1, <2>2, <2>3 DEF Placed
  <2>5. ASSUME NEW c \in Chans PROVE Bounded(c)'
    <3>1. (Owes(c)' <=> Owes(c)) /\ (Owed(c)' <=> Owed(c))
      BY <2>1, <2>2 DEF Owes, Owed
    <3>2. Value(c)' = Value(c)
      BY <2>1, <2>2, <2>3, <3>1 DEF Value, Base, ghosts
    <3>3. Newest(c)' = Newest(c)
      BY <2>1, <2>2, <3>1 DEF Newest
    <3> QED BY <1>c, <2>1, <2>2, <3>2, <3>3, Steady DEF ghosts
  <2> QED BY <2>4, <2>5
<1>3. CASE Store
  <2>1. isr \in Record /\ isr # Idle /\ isr.chan \in Chans /\ isr.pc \in Loaded
    BY <1>0, <1>3, StoreIs, LoadedAre
  <2>2. UNCHANGED <<now, num, last, reported, ghosts>>
    BY <1>3, StoreIs
  <2>3. Flags = isr.sync
    BY <2>1 DEF Flags
  <2>a. ASSUME isr.pc = "left" PROVE Placed' /\ \A c \in Chans : Bounded(c)'
    <3>1. isr' = Idle /\ dirt' = isr.sync
      BY <1>3, <2>a, StoreIs
    <3>2. Placed' /\ Flags' = Flags
      BY <2>3, <3>1 DEF Placed, Flags
    <3>3. ASSUME NEW c \in Chans PROVE Bounded(c)'
      <4>1. Value(c)' = Value(c) /\ Newest(c)' = Newest(c)
        BY <2>a, <2>2, <3>1, <3>2 DEF Value, Base, Newest, Owed, Owes, ghosts
      <4>2. ~(Owes(c) /\ isr.pc = "epoch") /\ ~(Owes(c) /\ isr.pc = "epoch")'
        BY <2>a, <3>1 DEF Owes
      <4> QED BY <1>c, <2>2, <4>1, <4>2, Steady DEF ghosts
    <3> QED BY <3>2, <3>3
  <2>b. ASSUME isr.pc = "dirtied" PROVE Placed' /\ \A c \in Chans : Bounded(c)'
    <3>1. dirt' = isr.sync \cup {isr.chan} /\ isr' = [isr EXCEPT !.pc = "one"]
      BY <1>3, <2>b, StoreIs
    <3>2. isr' # Idle /\ isr'.pc = "one" /\ isr'.chan = isr.chan
      BY <2>1, <3>1 DEF Record, Idle
    <3>3. Placed'
      BY <3>2 DEF Placed
    <3>4. isr.chan \notin Flags /\ Flags' = Flags \cup {isr.chan}
      BY <1>0, <2>1, <2>b, <2>3, <3>1, <3>2, LoadedAre DEF Placed, Flags
    <3>5. ASSUME NEW c \in Chans PROVE Bounded(c)'
      <4>1. Owes(c) <=> c = isr.chan
        BY <2>1 DEF Owes
      <4>2. (Owes(c)' <=> Owes(c)) /\ (Owed(c)' <=> Owes(c)) /\ (Owed(c) <=> Owes(c))
        BY <2>1, <2>b, <3>1, <3>2 DEF Owes, Owed
      <4>3. Value(c)' = Value(c)
        BY <2>b, <2>2, <3>2, <3>4, <4>1, <4>2 DEF Value, Base, ghosts
      <4>4. Newest(c)' = Newest(c)
        BY <2>b, <2>2, <3>2 DEF Newest
      <4> QED BY <1>c, <2>b, <2>2, <3>2, <4>3, <4>4, Steady DEF ghosts
    <3> QED BY <3>3, <3>5
  <2>c. ASSUME isr.pc \notin {"left", "dirtied"} PROVE Placed' /\ \A c \in Chans : Bounded(c)'
    <3>1. dirt' = isr.sync
      BY <1>3, <2>c, StoreIs
    <3>2. isr' # Idle /\ isr'.chan = isr.chan /\ isr'.at = isr.at
          /\ isr.pc \notin {"epoch", "one", "more", "add", "dirty", "dirtied"}
          /\ isr'.pc \notin Loaded \cup {"epoch", "dirty", "dirtied", "one", "more", "add"}
          /\ (isr'.pc \in {"lock", "locked", "count"} <=> isr.pc \in {"lock", "locked", "count"})
      BY <1>3, <2>1, <2>c, StoreIs, LoadedAre DEF Record, Idle
    <3>3. Placed' /\ Flags' = Flags
      BY <2>3, <3>1, <3>2 DEF Placed, Flags
    <3>4. ASSUME NEW c \in Chans PROVE Bounded(c)'
      <4>1. (Owes(c)' <=> Owes(c)) /\ (Owed(c)' <=> Owed(c))
        BY <2>1, <3>2 DEF Owes, Owed
      <4>2. Value(c)' = Value(c)
        BY <2>2, <3>2, <3>3, <4>1 DEF Value, Base, ghosts
      <4>3. Newest(c)' = Newest(c)
        BY <2>2, <3>2, <4>1 DEF Newest
      <4> QED BY <1>c, <2>2, <3>2, <4>2, <4>3, Steady DEF ghosts
    <3> QED BY <3>3, <3>4
  <2> QED BY <2>a, <2>b, <2>c
<1>4. CASE Millis
  <2>1. isr \in Record /\ isr # Idle /\ isr.pc = "clock" /\ isr.chan \in Chans
    BY <1>0, <1>4 DEF Millis, At
  <2>2. isr' # Idle /\ isr'.pc = "epoch" /\ isr'.chan = isr.chan /\ isr'.at = now % Second
    BY <1>4, <2>1 DEF Millis, Record, Idle
  <2>3. UNCHANGED <<now, dirt, num, last, reported, wrapped, struck, again>>
    BY <1>4 DEF Millis
  <2>4. Placed' /\ Flags' = Flags
    BY <2>1, <2>2, <2>3, LoadedAre DEF Placed, Flags
  <2>5. ASSUME NEW c \in Chans PROVE Bounded(c)'
    <3>1. (Owes(c) <=> c = isr.chan) /\ (Owes(c)' <=> Owes(c)) /\ ~Owed(c) /\ ~Owed(c)'
      BY <2>1, <2>2 DEF Owes, Owed
    <3>2. Newest(c) = last[c] /\ Newest(c)' = last[c]
      BY <2>1, <2>2, <2>3 DEF Newest
    <3>3. CASE c # isr.chan
      <4>1. pulses'[c] = pulses[c] /\ before'[c] = before[c]
        BY <1>0, <1>4, <3>3 DEF Millis, TypeOK
      <4>2. Value(c)' = Value(c)
        BY <2>1, <2>2, <2>3, <2>4, <3>1, <4>1 DEF Value, Base
      <4> QED BY <1>c, <2>3, <3>1, <3>2, <3>3, <4>1, <4>2, Steady
    <3>4. CASE c = isr.chan /\ now - before[c] >= Bounce
      <4>1. pulses'[c] = pulses[c] + 1 /\ before'[c] = now
        BY <1>0, <1>4, <3>4 DEF Millis, TypeOK
      <4>2. Base(c)' = Base(c) - 1
        BY <1>c, <2>3, <4>1 DEF Base
      <4>3. Value(c)' = Value(c) - 1
        BY <1>c, <2>1, <2>2, <2>3, <2>4, <3>1, <4>2 DEF Value
      <4>4. c \notin wrapped => Within(c, Value(c), last[c], 0)
        BY <1>c, <2>1, <3>2 DEF Bounded
      <4>5. c \notin wrapped => Real(c, now, 0)'
        <5> SUFFICES ASSUME c \notin wrapped PROVE Real(c, now, 0)'
          OBVIOUS
        <5>1. /\ -struck <= Value(c) /\ Value(c) <= 2 * struck + again[c]
              /\ last[c] > before[c] => -struck < Value(c)
          BY <1>c, <4>4 DEF Within
        <5>2. now - last[c] < Bounce => -struck < Value(c)
          BY <1>c, <3>4, <5>1, TimesAssumption
        <5> HIDE DEF Value
        <5> QED BY <1>c, <2>3, <4>1, <4>3, <5>1, <5>2 DEF Real
      <4> QED BY <1>c, <2>2, <2>3, <3>1, <3>4, <4>1, <4>5 DEF Bounded, Reading
    <3>5. CASE c = isr.chan /\ ~(now - before[c] >= Bounce)
      <4>1. pulses'[c] = pulses[c] /\ before'[c] = before[c]
        BY <1>4, <3>5 DEF Millis
      <4>2. Value(c)' = Value(c)
        BY <2>1, <2>2, <2>3, <2>4, <3>1, <4>1 DEF Value, Base
      <4>3. c \notin wrapped => Within(c, Value(c), last[c], 0)
        BY <1>c, <2>1, <3>2 DEF Bounded
      <4>4. c \notin wrapped => Within(c, Value(c), last[c], 0)'
        BY <2>3, <4>1, <4>2, <4>3 DEF Within
      <4>5. now' - before'[c] < Bounce /\ before'[c] <= now'
        BY <1>c, <2>3, <3>5, <4>1, TimesAssumption DEF Bounded
      <4> QED BY <2>2, <2>3, <3>1, <3>5, <4>4, <4>5 DEF Bounded, Reading
    <3> QED BY <3>3, <3>4, <3>5
  <2> QED BY <2>4, <2>5
<1>5. CASE Epoch
  <2>1. isr \in Record /\ isr # Idle /\ isr.pc = "epoch" /\ isr.chan \in Chans /\ isr.at \in Int
    BY <1>0, <1>5 DEF Epoch, At, Record
  <2>2. UNCHANGED <<now, dirt, num, last, reported, ghosts>>
    BY <1>5 DEF Epoch
  <2> DEFINE m == now % Second
             t == (now - m) + isr.at
  <2>3. isr' = [isr EXCEPT !.at = t, !.pc = IF IsBounce(t) THEN "leave" ELSE "lock"]
    BY <1>5 DEF Epoch
  <2> HIDE DEF t
  <2>4. isr' # Idle /\ isr'.chan = isr.chan /\ isr'.at = t
        /\ isr'.pc = IF IsBounce(t) THEN "leave" ELSE "lock"
    BY <2>1, <2>3 DEF Record, Idle
  <2>5. Placed' /\ Flags' = Flags
    BY <2>1, <2>2, <2>4, LoadedAre DEF Placed, Flags
  <2>6. ASSUME NEW c \in Chans PROVE Bounded(c)'
    <3>1. /\ (Owes(c) <=> c = isr.chan) /\ (Owes(c)' <=> Owes(c)) /\ ~Owed(c)
          /\ Owed(c)' <=> c = isr.chan /\ ~IsBounce(t)
      BY <2>1, <2>4 DEF Owes, Owed
    <3>2. Newest(c) = last[c]
          /\ Newest(c)' = IF c = isr.chan /\ ~IsBounce(t) THEN t ELSE last[c]
      BY <2>1, <2>2, <2>4, <3>1 DEF Newest
    <3>3. Value(c)' = IF c = isr.chan /\ ~IsBounce(t) THEN Value(c) + 1 ELSE Value(c)
      <4>1. Base(c)' = Base(c)
        BY <2>2 DEF Base, ghosts
      <4> QED BY <1>c, <2>1, <2>2, <2>4, <2>5, <3>1, <4>1 DEF Value
    <3>4. ~(Owes(c) /\ isr.pc = "epoch")'
      BY <2>4
    <3>5. CASE c # isr.chan
      BY <1>c, <2>2, <3>1, <3>2, <3>3, <3>4, <3>5, Steady DEF ghosts
    <3>6. CASE c = isr.chan
      <4>1. before[c] <= now /\ (c \notin wrapped => Reading(c))
        BY <1>c, <2>1, <3>1, <3>6 DEF Bounded
      <4>2. IsBounce(t) <=> (0 <= t - last[c] /\ t - last[c] < Bounce)
        <5>1. t - last[c] \in Int
          BY <1>c, <2>1, TimesAssumption DEF t
        <5> QED BY <3>6, <5>1, TimesAssumption DEF IsBounce
      <4>3. ASSUME c \notin wrapped
            PROVE  Within(c, Value(c)', Newest(c)', 0)
        <5>1. m \in Int /\ t \in Int /\ m < Second
          <6>1. m \in 0 .. Second - 1
            BY <1>c, TimesAssumption
          <6> HIDE DEF m
          <6>2. now \in Int /\ isr.at \in Int
            BY <1>c, <2>1
          <6> QED BY <6>1, <6>2, TimesAssumption DEF t
        <5>2. CASE isr.at = m
          <6>1. t = now
            BY <1>c, <5>1, <5>2 DEF t
          <6>2. CASE Real(c, now, 0)
            BY <1>c, <3>2, <3>3, <3>6, <4>2, <6>1, <6>2, TimesAssumption DEF Real, Within
          <6>3. CASE now - before[c] < Bounce /\ Within(c, Value(c), last[c], 0)
            BY <1>c, <3>2, <3>3, <3>6, <4>1, <4>2, <6>1, <6>3, TimesAssumption DEF Within
          <6>4. ~(m = 0 /\ isr.at = Second - 1)
            BY <5>2, TimesAssumption
          <6> QED BY <4>1, <4>3, <6>2, <6>3, <6>4 DEF Reading
        <5>3. CASE m = 0 /\ isr.at = Second - 1
          <6>1. t = now + (Second - 1)
            BY <1>c, <5>1, <5>3 DEF t
          <6>2. CASE Real(c, now - 1, 1)
            BY <1>c, <3>2, <3>3, <3>6, <4>2, <6>1, <6>2, TimesAssumption DEF Real, Within
          <6>3. CASE Within(c, Value(c), last[c], 1)
            BY <1>c, <3>2, <3>3, <3>6, <4>1, <4>2, <6>1, <6>3, TimesAssumption DEF Within
          <6> QED BY <4>1, <4>3, <5>3, <6>2, <6>3, <5>2 DEF Reading
        <5> QED BY <4>1, <4>3, <5>2, <5>3 DEF Reading
      <4>4. c \notin wrapped => Within(c, Value(c), Newest(c), 0)'
        BY <2>2, <4>3 DEF Within, ghosts
      <4> QED BY <2>2, <3>4, <4>1, <4>4 DEF Bounded, ghosts
    <3> QED BY <3>5, <3>6
  <2> QED BY <2>5, <2>6
<1>6. CASE Count
  <2>1. isr \in Record /\ isr # Idle /\ isr.pc = "count" /\ isr.chan \in Chans
    BY <1>0, <1>6 DEF Count, At
  <2>2. UNCHANGED <<now, dirt, num, reported, ghosts>>
    BY <1>6 DEF Count
  <2>3. isr' # Idle /\ isr'.chan = isr.chan
        /\ isr'.pc = IF isr.chan \in dirt THEN "more" ELSE "dirty"
    BY <1>6, <2>1 DEF Count, Goes, Record, Idle
  <2>4. Flags = dirt /\ Flags' = dirt
    BY <2>1, <2>2, <2>3, LoadedAre DEF Flags
  <2>5. Placed'
    BY <2>3, <2>4 DEF Placed
  <2>6. ASSUME NEW c \in Chans PROVE Bounded(c)'
    <3>1. (Owes(c) <=> c = isr.chan) /\ (Owes(c)' <=> Owes(c)) /\ (Owed(c)' <=> Owed(c))
      BY <2>1, <2>2, <2>3 DEF Owes, Owed
    <3>2. Value(c)' = Value(c)
      BY <2>1, <2>2, <2>3, <2>4, <3>1 DEF Value, Base, ghosts
    <3>3. last'[c] = IF c = isr.chan THEN isr.at ELSE last[c]
      BY <1>0, <1>6 DEF Count, TypeOK
    <3>4. Newest(c)' = Newest(c)
      BY <2>1, <2>3, <3>1, <3>3 DEF Newest
    <3> QED BY <1>c, <2>1, <2>2, <2>3, <3>2, <3>4, Steady DEF ghosts
  <2> QED BY <2>5, <2>6
<1>7. CASE One
  <2>1. isr \in Record /\ isr # Idle /\ isr.pc = "one" /\ isr.chan \in Chans
    BY <1>0, <1>7 DEF One, At
  <2>2. UNCHANGED <<now, dirt, last, reported, ghosts>>
    BY <1>7 DEF One
  <2>3. isr' # Idle /\ isr'.chan = isr.chan /\ isr'.pc = "unlock"
    BY <1>7, <2>1 DEF One, Goes, Record, Idle
  <2>4. Flags = dirt /\ Flags' = dirt
    BY <2>1, <2>2, <2>3, LoadedAre DEF Flags
  <2>5. Placed'
    BY <2>3 DEF Placed
  <2>6. ASSUME NEW c \in Chans PROVE Bounded(c)'
    <3>1. /\ Owes(c) <=> c = isr.chan
          /\ Owes(c)' <=> Owes(c)
          /\ ~Owed(c)'
          /\ Owed(c) <=> c = isr.chan /\ c \in dirt
      BY <2>1, <2>3 DEF Owes, Owed
    <3>2. num'[c] = IF c = isr.chan THEN 1 ELSE num[c]
      BY <1>0, <1>7 DEF One, TypeOK
    <3>3. Base(c)' = Base(c)
      BY <2>2 DEF Base, ghosts
    <3>4. Value(c)' = Value(c)
      BY <1>c, <2>1, <2>2, <2>3, <2>4, <3>1, <3>2, <3>3 DEF Value
    <3>5. Newest(c)' = Newest(c)
      BY <2>1, <2>2, <2>3 DEF Newest
    <3> QED BY <1>c, <2>1, <2>2, <2>3, <3>4, <3>5, Steady DEF ghosts
  <2> QED BY <2>5, <2>6
<1>8. CASE More
  <2>1. isr \in Record /\ isr # Idle /\ isr.pc = "more" /\ isr.chan \in Chans
    BY <1>0, <1>8 DEF More, At
  <2>2. UNCHANGED <<now, dirt, num, last, reported, ghosts>>
    BY <1>8 DEF More
  <2>3. isr' # Idle /\ isr'.chan = isr.chan /\ isr'.pc = "add" /\ isr'.count = num[isr.chan]
    BY <1>8, <2>1 DEF More, Record, Idle
  <2>4. Flags' = Flags
    BY <2>1, <2>2, <2>3, LoadedAre DEF Flags
  <2>5. Placed'
    BY <2>2, <2>3 DEF Placed
  <2>6. ASSUME NEW c \in Chans PROVE Bounded(c)'
    <3>1. (Owes(c)' <=> Owes(c)) /\ (Owed(c)' <=> Owed(c))
      BY <2>1, <2>2, <2>3 DEF Owes, Owed
    <3>2. Value(c)' = Value(c) /\ Newest(c)' = Newest(c)
      BY <2>1, <2>2, <2>3, <2>4, <3>1 DEF Value, Newest, Base, ghosts
    <3> QED BY <1>c, <2>1, <2>2, <2>3, <3>2, Steady DEF ghosts
  <2> QED BY <2>5, <2>6
<1>9. CASE Add
  <2>1. isr \in Record /\ isr # Idle /\ isr.pc = "add" /\ isr.chan \in Chans
        /\ isr.count = num[isr.chan]
    BY <1>0, <1>9 DEF Add, At, Placed
  <2>2. UNCHANGED <<now, dirt, last, reported, pulses, before, struck, again>>
    BY <1>9 DEF Add
  <2>3. isr' # Idle /\ isr'.chan = isr.chan /\ isr'.pc = "unlock"
    BY <1>9, <2>1 DEF Add, Goes, Record, Idle
  <2>4. Flags = dirt /\ Flags' = dirt
    BY <2>1, <2>2, <2>3, LoadedAre DEF Flags
  <2>5. Placed'
    BY <2>3 DEF Placed
  <2>6. ASSUME NEW c \in Chans PROVE Bounded(c)'
    <3>1. /\ Owes(c) <=> c = isr.chan
          /\ Owes(c)' <=> Owes(c)
          /\ ~Owed(c)'
          /\ Owed(c) <=> c = isr.chan /\ c \in dirt
      BY <2>1, <2>3 DEF Owes, Owed
    <3>2. CASE c \in wrapped'
      BY <1>c, <2>2, <3>2 DEF Bounded
    <3>3. CASE c \notin wrapped'
      <4>1. c \notin wrapped
        BY <1>9, <3>3 DEF Add
      <4>2. num'[c] = IF c = isr.chan THEN num[c] + 1 ELSE num[c]
        <5>1. CASE c = isr.chan
          <6>1. num[c] \in 0 .. Width - 1 /\ num[c] + 1 # Width
            BY <1>0, <1>9, <2>1, <3>3, <5>1 DEF Add, TypeOK
          <6>2. (num[c] + 1) % Width = num[c] + 1
            BY <6>1, WidthAssumption
          <6> QED BY <1>0, <1>9, <2>1, <5>1, <6>2 DEF Add, TypeOK
        <5>2. CASE c # isr.chan
          BY <1>0, <1>9, <5>2 DEF Add, TypeOK
        <5> QED BY <5>1, <5>2
      <4>3. Base(c)' = Base(c)
        BY <2>2 DEF Base
      <4>4. Value(c)' = Value(c)
        BY <1>c, <2>1, <2>3, <2>4, <3>1, <4>2, <4>3 DEF Value
      <4>5. Newest(c)' = Newest(c)
        BY <2>1, <2>2, <2>3 DEF Newest
      <4>6. Within(c, Value(c), Newest(c), 0) /\ before[c] <= now
        BY <1>c, <2>1, <4>1 DEF Bounded
      <4>7. Within(c, Value(c), Newest(c), 0)'
        BY <2>2, <4>4, <4>5, <4>6 DEF Within
      <4> QED BY <2>2, <2>3, <4>6, <4>7 DEF Bounded
    <3> QED BY <3>2, <3>3
  <2> QED BY <2>5, <2>6
<1>10. ASSUME NEW snapshot \in BOOLEAN, Elapse(snapshot)
       PROVE  Placed' /\ \A c \in Chans : Bounded(c)'
  <2>1. now' = now + 1 /\ UNCHANGED <<num, last, isr, pulses, before, wrapped>>
    BY <1>10 DEF Elapse
  <2>2. isr # Idle => now' % Second = 0 /\ struck' = struck + 1
    BY <1>10 DEF Elapse
  <2>3. isr = Idle => struck' = struck
    BY <1>10 DEF Elapse
  <2>4. \/ dirt' = dirt /\ \A c \in Chans : reported'[c] = reported[c] /\ again'[c] >= again[c]
        \/ /\ dirt' = {}
           /\ \A c \in Chans :
                /\ reported'[c] = IF c \in dirt THEN reported[c] + num[c] ELSE reported[c]
                /\ again'[c] = IF isr # Idle /\ c \in dirt THEN again[c] + num[c] ELSE again[c]
    <3>1. CASE now' % Second = 0 /\ snapshot
      <4>1. Take
        BY <1>10, <3>1 DEF Elapse
      <4>2. \A c \in Chans :
              again'[c] = IF isr # Idle /\ c \in dirt THEN again[c] + num[c] ELSE again[c]
        BY <1>10, <3>1 DEF Elapse
      <4> QED BY <4>1, <4>2 DEF Take
    <3>2. CASE ~(now' % Second = 0 /\ snapshot)
      <4>1. dirt' = dirt /\ reported' = reported
        BY <1>10, <3>2 DEF Elapse
      <4>2. ASSUME NEW c \in Chans PROVE again'[c] = again[c]
        BY <1>10, <3>2 DEF Elapse
      <4> QED BY <1>c, <4>1, <4>2
    <3> QED BY <3>1, <3>2
  <2>5. Placed'
    BY <1>0, <2>1, <2>4 DEF Placed, Flags
  <2>6. ASSUME NEW c \in Chans PROVE Bounded(c)'
    <3>1. (Owes(c)' <=> Owes(c)) /\ Newest(c)' = Newest(c)
      BY <2>1 DEF Owes, Newest
    <3>2. again'[c] \in Nat /\ struck' \in Nat
      BY DEF TypeOK
    \* A tick between two interrupts does no harm.
    <3>3. CASE isr = Idle
      <4>1. Value(c)' = Value(c) /\ again'[c] >= again[c]
        BY <1>c, <2>1, <2>4, <3>3 DEF Value, Base, Owed, Owes, Flags
      <4>2. before[c] <= now /\ (c \notin wrapped => Within(c, Value(c), Newest(c), 0)) /\ ~Owes(c)
        BY <1>c, <3>3 DEF Bounded, Owes
      <4>3. c \notin wrapped => Within(c, Value(c), Newest(c), 0)'
        BY <1>c, <2>1, <2>3, <3>1, <3>2, <3>3, <4>1, <4>2 DEF Within
      <4> QED BY <1>c, <2>1, <3>1, <4>2, <4>3 DEF Bounded
    <3>4. CASE isr # Idle
      <4>0. isr.chan \in Chans /\ struck' = struck + 1 /\ now' % Second = 0
        BY <1>0, <2>2, <3>4
      <4>1. /\ Value(c) - 1 <= Value(c)' /\ Value(c)' <= Value(c) + (again'[c] - again[c])
            /\ again'[c] >= again[c]
            /\ Owes(c) /\ isr.pc = "epoch" => Value(c)' = Value(c)
        <5>1. CASE dirt' = dirt /\ \A a \in Chans : reported'[a] = reported[a] /\ again'[a] >= again[a]
          <6>1. (Owed(c)' <=> Owed(c)) /\ Flags' = Flags /\ Base(c)' = Base(c)
            BY <2>1, <3>1, <5>1 DEF Owed, Flags, Base
          <6>2. Value(c)' = Value(c)
            BY <2>1, <3>1, <6>1 DEF Value
          <6> QED BY <1>c, <3>2, <5>1, <6>2
        <5>2. CASE ~(dirt' = dirt /\ \A a \in Chans : reported'[a] = reported[a] /\ again'[a] >= again[a])
          <6> DEFINE k == IF c \in dirt THEN num[c] ELSE 0
          <6>1. dirt' = {} /\ reported'[c] = reported[c] + k /\ again'[c] = again[c] + k /\ k \in Nat
            BY <1>c, <2>4, <3>4, <5>2
          <6>2. Base(c)' = Base(c) + k
            BY <1>c, <2>1, <6>1 DEF Base
          <6>3. CASE isr.pc \in Loaded
            <7>0. isr.pc \notin {"one", "more", "add", "epoch"} /\ isr' = isr
              BY <2>1, <6>3, LoadedAre
            <7>1. Flags' = Flags /\ (Owed(c)' <=> Owed(c)) /\ isr.pc \notin {"one", "epoch"}
              <8>1. Owed(c)' <=> Owed(c)
                BY <3>1, <7>0 DEF Owed
              <8>2. Flags' = Flags
                BY <3>4, <6>3, <7>0 DEF Flags
              <8> QED BY <7>0, <8>1, <8>2
            <7>2. Value(c)' = Value(c) + k
              BY <1>c, <2>1, <6>1, <6>2, <7>1 DEF Value
            <7> QED BY <1>c, <6>1, <7>1, <7>2
          <6>4. CASE isr.pc \notin Loaded
            <7>1. Flags = dirt /\ Flags' = {}
              BY <2>1, <3>4, <6>1, <6>4 DEF Flags
            <7>2. Value(c)' = Base(c) + k + (IF Owed(c)' THEN 1 ELSE 0)
              BY <1>c, <6>1, <6>2, <7>1 DEF Value
            <7>3. CASE Owes(c) /\ isr.pc \in {"one", "more", "add"} /\ c \in dirt
              <8>1. Owed(c) /\ ~Owed(c)'
                BY <2>1, <6>1, <7>3 DEF Owed
              <8>2. Value(c) = Base(c) + (IF isr.pc = "one" THEN 0 ELSE k) + 1
                BY <1>c, <7>1, <7>3, <8>1 DEF Value
              <8> QED BY <1>c, <6>1, <7>2, <7>3, <8>1, <8>2
            <7>4. CASE ~(Owes(c) /\ isr.pc \in {"one", "more", "add"} /\ c \in dirt)
              <8>1. Owed(c)' <=> Owed(c)
                BY <2>1, <3>1, <6>1, <7>4 DEF Owed
              <8>2. Value(c) = Base(c) + k + (IF Owed(c) THEN 1 ELSE 0)
                BY <1>c, <7>1, <7>4 DEF Value
              <8> QED BY <1>c, <6>1, <7>2, <8>1, <8>2
            <7> QED BY <7>3, <7>4
          <6> QED BY <6>3, <6>4
        <5> QED BY <5>1, <5>2
      <4>2. before[c] <= now /\ before'[c] = before[c] /\ before'[c] <= now'
        BY <1>c, <2>1 DEF Bounded
      <4>3. CASE ~(Owes(c) /\ isr.pc = "epoch")
        <5>1. c \notin wrapped => Within(c, Value(c), Newest(c), 0)
          BY <1>c, <4>3 DEF Bounded
        <5>2. c \notin wrapped => Within(c, Value(c), Newest(c), 0)'
          BY <1>c, <1>n, <2>1, <3>1, <3>2, <4>0, <4>1, <5>1 DEF Within
        <5> QED BY <2>1, <3>1, <4>2, <4>3, <5>2 DEF Bounded
      <4>4. CASE Owes(c) /\ isr.pc = "epoch"
        <5>1. now % Second = Second - 1 /\ now % Second # 0
          BY <1>c, <2>1, <4>0, NextSecond, TimesAssumption
        <5>2. ASSUME c \notin wrapped PROVE Reading(c)'
          <6>1. /\ isr.at = Second - 1
                /\ Real(c, now, 0) \/ Within(c, Value(c), last[c], 0)
            BY <1>c, <4>4, <5>1, <5>2 DEF Bounded, Reading
          <6>2. CASE Real(c, now, 0)
            <7>1. Real(c, now - 1, 1)'
              BY <1>c, <2>1, <3>2, <4>0, <4>1, <4>4, <6>2, TimesAssumption DEF Real
            <7> QED BY <2>1, <4>0, <6>1, <7>1 DEF Reading
          <6>3. CASE Within(c, Value(c), last[c], 0)
            <7>1. Within(c, Value(c), last[c], 1)'
              BY <1>c, <2>1, <3>2, <4>0, <4>1, <4>4, <6>3 DEF Within
            <7> QED BY <2>1, <4>0, <6>1, <7>1 DEF Reading
          <6> QED BY <6>1, <6>2, <6>3
        <5> QED BY <2>1, <3>1, <4>2, <4>4, <5>2 DEF Bounded
      <4> QED BY <4>3, <4>4
    <3> QED BY <3>3, <3>4
  <2> QED BY <2>5, <2>6
<1>11. CASE UNCHANGED vars
  <2>1. Placed'
    BY <1>0, <1>11 DEF Placed, Flags, vars, ghosts
  <2>2. ASSUME NEW c \in Chans PROVE Bounded(c)'
    <3>1. /\ now' = now /\ dirt' = dirt /\ num' = num /\ last' = last /\ isr' = isr /\ reported' = reported
          /\ pulses' = pulses /\ before' = before /\ struck' = struck /\ again' = again /\ wrapped' = wrapped
      BY <1>11, Zenon DEF vars, ghosts
    <3>2. Value(c)' = Value(c) /\ Newest(c)' = Newest(c) /\ Owes(c)' = Owes(c)
      BY <3>1, Zenon DEF Value, Base, Newest, Owed, Owes, Flags
    <3>3. Within(c, Value(c), Newest(c), 0)' = Within(c, Value(c), Newest(c), 0)
      BY <3>1, <3>2, Zenon DEF Within
    <3>4. Reading(c)' = Reading(c)
      <4>1. Real(c, now, 0)' = Real(c, now, 0) /\ Real(c, now - 1, 1)' = Real(c, now - 1, 1)
        BY <3>1, <3>2, Zenon DEF Real
      <4>2. /\ Within(c, Value(c), last[c], 0)' = Within(c, Value(c), last[c], 0)
            /\ Within(c, Value(c), last[c], 1)' = Within(c, Value(c), last[c], 1)
        BY <3>1, <3>2, Zenon DEF Within
      <4> QED BY <3>1, <4>1, <4>2, Zenon DEF Reading
    <3> QED BY <1>c, <3>1, <3>2, <3>3, <3>4, Zenon DEF Bounded
  <2> QED BY <2>1, <2>2
<1> QED BY <1>1, <1>2, <1>3, <1>4, <1>5, <1>6, <1>7, <1>8, <1>9, <1>10, <1>11
        DEF Next, Interrupt

-----------------------------------------------------------------------------
(***************************************************************************)
(* The pin interrupts and the tick keep the shapes of their state: in      *)
(* particular the count stays within its width (pulse.c, ++numOfPulses).   *)
(***************************************************************************)
THEOREM TypeCorrect == Spec => []TypeOK
BY InitType, NextType, PTL DEF Spec

(***************************************************************************)
(* Each pulse that is no bounce is reported once, by whichever snapshot,   *)
(* while no tick has come during a pin interrupt and the count has not     *)
(* wrapped round: the flags and the count of pulse.c need no more than     *)
(* that the tick stays out.                                                *)
(***************************************************************************)
THEOREM CountsOnce == Spec => []CountedOnce
<1>1. Inv => CountedOnce
  <2> SUFFICES ASSUME Inv, isr = Idle, struck = 0, NEW c \in Chans
               PROVE  c \in wrapped \/ Error(c) = 0
    BY DEF CountedOnce
  <2>1. c \in wrapped \/ Balance(c)
    BY DEF Inv
  <2>2. num[c] \in Int /\ reported[c] \in Int /\ pulses[c] \in Int
    BY DEF Inv, TypeOK
  <2> QED BY <2>1, <2>2 DEF Balance, Base, Delayed, Owes, Error, Pending
<1>2. Init /\ [][Next]_vars => []Inv
  BY InitInv, NextInv, PTL
<1> QED BY <1>1, <1>2, PTL DEF Spec

(***************************************************************************)
(* However many ticks come during pin interrupts, each costs a channel a   *)
(* lost pulse, two too many or a count reported twice, and no more: the    *)
(* flags and times of pulse.c it has left wrong do no harm for ever.       *)
(***************************************************************************)
THEOREM DamageBounded == Spec => []DamageIsBounded
<1>1. DamageInv => DamageIsBounded
  <2> SUFFICES ASSUME DamageInv, isr = Idle, NEW c \in Chans \ wrapped
               PROVE  Error(c) \in -struck .. 2 * struck + again[c]
    BY DEF DamageIsBounded
  <2>1. Within(c, Value(c), Newest(c), 0)
    BY DEF DamageInv, Bounded, Owes
  <2>2. Value(c) = Error(c)
    <3>1. num[c] \in Int /\ reported[c] \in Int /\ pulses[c] \in Int
      BY Types DEF DamageInv
    <3> QED BY <3>1 DEF Value, Base, Error, Pending, Owed, Owes, Flags
  <2>3. Value(c) \in Int /\ struck \in Nat /\ again[c] \in Nat
    BY Types DEF DamageInv
  <2> QED BY <2>1, <2>2, <2>3 DEF Within
<1> QED BY <1>1, DamageInit, DamageNext, PTL DEF Spec

-----------------------------------------------------------------------------
(***************************************************************************)
(* The MODBUS channel.  No part of the argument is about time or about the *)
(* ring's order: bytes may be lost, late or cut.  A datagram can be whole  *)
(* only if its bytes are the bytes 1, 2, 3 ... of one answer, its first    *)
(* byte was compared with the address asked, and whoever asks with another *)
(* address begins a new datagram.                                          *)
(***************************************************************************)
(* Positions in the ring and in the table of periodic functions. *)

LEMMA NextCellIs ==
  ASSUME NEW c \in Cells
  PROVE  /\ NextCell(c) = IF c + 1 = Size THEN 0 ELSE c + 1
         /\ NextCell(c) \in Cells
<1>. USE SizesAssumption DEF Cells, NextCell
<1>1. CASE c + 1 = Size
  BY <1>1
<1>2. CASE c + 1 # Size
  BY <1>2
<1>. QED
  BY <1>1, <1>2

\* A set of naturals that is not empty has a least element.
LEMMA Least ==
  ASSUME NEW S \in SUBSET Nat, S # {}
  PROVE  \E n \in S : \A k \in S : n <= k
<1>. DEFINE R == OpToRel(<, Nat)
<1>1. PICK n \in S : \A k \in S : ~ (<<k, n>> \in R)
  <2>. HIDE DEF R
  <2>1. IsWellFoundedOn(R, Nat)
    BY NatLessThanWellFounded DEF R
  <2>. QED
    BY <2>1, WFMin
<1>2. \A k \in S : ~(k < n)
  BY <1>1 DEF OpToRel
<1>. QED
  BY <1>2

\* The first of the channel's modules in the order of an update is one of them.
LEMMA FirstIsOnBus ==
  ASSUME first \in 0 .. Table - 1
  PROVE  InOrder[CHOOSE i \in 0 .. Table - 1 :
                   InOrder[i] \in Bus /\ \A k \in 0 .. i - 1 : InOrder[k] \notin Bus] \in Bus
<1>. USE TableAssumption
<1>. DEFINE OnBus == {i \in 0 .. Table - 1 : InOrder[i] \in Bus}
<1>1. OnBus # {}
  <2>1. PICK b : b \in Bus
    OBVIOUS
  <2>2. b \in 0 .. Table - 1 /\ Table \in Nat
    BY <2>1
  <2>. DEFINE at == IF first <= b THEN b - first ELSE b - first + Table
  <2>3. at \in 0 .. Table - 1
    BY <2>2
  <2>4. (first + at) % Table = b
    <3>1. CASE first <= b
      BY <2>2, <3>1
    <3>2. CASE first > b
      <4>1. first + at = b + Table
        BY <2>2, <3>2
      <4>2. (b + Table) % Table = b
        BY <2>2
      <4>. QED
        BY <4>1, <4>2
    <3>. QED
      BY <2>2, <3>1, <3>2
  <2>5. InOrder[at] = b
    BY <2>3, <2>4 DEF InOrder
  <2>. QED
    BY <2>1, <2>3, <2>5
<1>2. PICK n \in OnBus : \A k \in OnBus : n <= k
  <2>1. OnBus \in SUBSET Nat
    OBVIOUS
  <2>. HIDE DEF OnBus
  <2>. QED
    BY <1>1, <2>1, Least
<1>3. \A k \in 0 .. n - 1 : k \in 0 .. Table - 1 /\ ~(n <= k)
  OBVIOUS
<1>4. \E i \in 0 .. Table - 1 :
        InOrder[i] \in Bus /\ \A k \in 0 .. i - 1 : InOrder[k] \notin Bus
  BY <1>2, <1>3
<1>. QED
  BY <1>4

-----------------------------------------------------------------------------
(* Types. *)

Sent == Byte \ {NoByte}
Gram == [len : Nat, size : Garbled \cup {Data}, of : Bus \cup {None}]

\* The ring from cell b on, up to cell e.
Between(c, b, e) == IF b <= e THEN b <= c /\ c < e ELSE b <= c \/ c < e

\* Where the next yield reads.
Begin == IF taken.at = None THEN ib ELSE NextCell(taken.at)

\* What is still to be read is bytes that came.
Written ==
  /\ line \in Seq(Sent)
  /\ \A c \in Cells : Between(c, Begin, ie) => buf[c] \in Sent

\* A byte is held only from its reading to the store of the ring's begin.
Held == yield # "has" => taken = NoTake

BusTypes == BusTypeOK /\ Written /\ Held

\* What a yield holds, and where it comes from.
LEMMA TakenIs ==
  ASSUME BusTypes
  PROVE  \/ taken = NoTake /\ taken.at = None /\ taken.byte = NoByte
         \/ /\ taken \in [at : Cells, byte : Sent] /\ taken.at # None /\ taken.at \in Cells
            /\ taken.byte \in Sent
<1>1. taken = NoTake \/ taken \in [at : Cells, byte : Sent]
  BY DEF BusTypes, BusTypeOK, Sent
<1>. QED
  BY <1>1 DEF NoTake, None, Cells

LEMMA TypeInit == BusInit => BusTypes
<1>. SUFFICES ASSUME BusInit PROVE BusTypes
  OBVIOUS
<1>. USE TableAssumption, SizesAssumption
<1>1. 0 \in 0 .. Table - 1 /\ 0 \in Cells /\ 0 \in Garbled
  BY DEF Cells
<1>2. NoFrame \in Gram /\ NoByte \in Byte
  BY <1>1 DEF NoFrame, Gram, Byte
<1>3. line \in Seq(Byte) /\ line \in Seq(Sent) /\ Len(line) <= AnswerLen
  BY DEF BusInit, AnswerLen
<1>4. locked \in BOOLEAN
  BY Zenon DEF BusInit
<1>5. buf \in [Cells -> Byte]
  BY <1>2 DEF BusInit
<1>6. {dead, asked} \subseteq SUBSET Bus
  BY DEF BusInit
<1>7. BusTypeOK
  BY <1>1, <1>2, <1>3, <1>4, <1>5, <1>6 DEF BusInit, BusTypeOK, Gram
<1>8. Written
  BY <1>3 DEF BusInit, Written, Between, Begin, Cells, NoTake
<1>. QED
  BY <1>7, <1>8 DEF BusTypes, Held, BusInit

\* What a datagram may become with one more byte.
LEMMA LongerType ==
  ASSUME BusTypes, NEW b \in Byte, NEW f \in Longer(b)
  PROVE  f \in Gram /\ f.len = frame.len + 1
<1>0. frame \in Gram
  BY DEF BusTypes, BusTypeOK, Gram
<1>1. PICK n : /\ n \in CASE frame.len # 1 -> {frame.size}
                          [] frame.len = 1 /\ b = NoByte -> {0}
                          [] frame.len = 1 /\ b.k = 2 -> {Data}
                          [] OTHER -> Garbled
               /\ f = [len  |-> frame.len + 1, size |-> n,
                       of |-> IF b.k = frame.len + 1 /\ (b.k = 1 \/ frame.of = b.m)
                              THEN b.m ELSE None]
  BY DEF Longer
<1>2. n \in Garbled \cup {Data}
  <2>1. CASE frame.len # 1
    BY <1>0, <1>1, <2>1 DEF Gram
  <2>2. CASE frame.len = 1
    BY <1>1, <2>2, SizesAssumption
  <2>. QED
    BY <2>1, <2>2
<1>3. b.m \in Bus \cup {None}
  BY DEF Byte, NoByte
<1>. QED
  BY <1>0, <1>1, <1>2, <1>3 DEF Gram

\* Storing the begin of the ring leaves what is still to be read as it is.
LEMMA StoreKeeps ==
  ASSUME BusTypes, StoreBegin
  PROVE  /\ ib' \in Cells /\ Written' /\ Held' /\ taken.byte \in Byte
         /\ UNCHANGED <<first, addr, buf, ie, bus>> /\ taken' = NoTake /\ yield' = "out"
<1>1. /\ ib' = IF taken.at = None THEN ib ELSE NextCell(taken.at)
      /\ taken' = NoTake /\ yield' = "out" /\ UNCHANGED <<first, addr, buf, ie, bus>>
  BY DEF StoreBegin
<1>2. ib' \in Cells
  BY <1>1, TakenIs, NextCellIs DEF BusTypes, BusTypeOK
<1>3. Begin' = Begin /\ line' = line
  BY <1>1 DEF Begin, bus, NoTake
<1>4. taken.byte \in Byte
  BY TakenIs DEF Sent, Byte
<1>. QED
  BY <1>1, <1>2, <1>3, <1>4 DEF Written, BusTypes, Held

LEMMA TypeNext == BusTypes /\ [BusNext]_busVars => BusTypes'
<1>. SUFFICES ASSUME BusTypes, [BusNext]_busVars PROVE BusTypes'
  OBVIOUS
<1>. USE TableAssumption, SizesAssumption
<1>0. /\ ib \in Cells /\ ie \in Cells /\ buf \in [Cells -> Byte] /\ frame \in Gram
      /\ NoByte \in Byte /\ NoFrame \in Gram /\ 0 \in Cells /\ Sent \subseteq Byte /\ NoByte \notin Sent
  BY DEF BusTypes, BusTypeOK, Gram, Byte, NoFrame, Cells, Sent
<1>1. ASSUME NEW m \in Bus, DeviceAnswers(m) PROVE BusTypes'
  <2>1. \A k \in 1 .. AnswerLen : [m |-> m, k |-> k] \in Sent
    BY <1>0 DEF Sent, Byte, NoByte, None
  <2>2. Answer(m) \in Seq(Sent) /\ Answer(m) \in Seq(Byte) /\ Len(Answer(m)) = AnswerLen
    <3>1. AnswerLen \in Nat
      BY DEF AnswerLen
    <3>. QED
      BY <2>1, <3>1, <1>0 DEF Answer
  <2>. QED
    BY <1>1, <2>2, SMTT(20)
    DEF DeviceAnswers, BusTypes, BusTypeOK, Written, Held, Begin, gram, ring
<1>2. CASE Receive
  <2>0. line # << >> /\ line \in Seq(Sent) /\ line \in Seq(Byte) /\ Len(line) <= AnswerLen
    BY <1>2 DEF Receive, BusTypes, BusTypeOK, Written
  <2>1. Head(line) \in Sent /\ Tail(line) \in Seq(Sent) /\ Tail(line) \in Seq(Byte)
    BY <2>0
  <2>2. Len(Tail(line)) <= AnswerLen
    BY <2>0 DEF AnswerLen
  <2>3. /\ buf' = [buf EXCEPT ![ie] = Head(line)] /\ ie' = NextCell(ie) /\ line' = Tail(line)
        /\ ib' = IF Overrun(ie) THEN NextCell(ie + 1) ELSE ib
        /\ taken' = taken /\ yield' = yield
    BY <1>2 DEF Receive
  <2>4. buf' \in [Cells -> Byte] /\ ie' \in Cells
    BY <1>0, <2>1, <2>3, NextCellIs
  <2>5. Overrun(ie) => ie + 1 \in Cells /\ ib = ie + 1
    BY <1>0 DEF Overrun, Cells
  <2>6. ib' \in Cells
    BY <1>0, <2>3, <2>5, NextCellIs
  <2>7. BusTypeOK'
    BY <1>2, <2>1, <2>2, <2>3, <2>4, <2>6 DEF Receive, BusTypes, BusTypeOK, gram
  <2>8. Written'
    <3>1. SUFFICES ASSUME NEW c \in Cells, Between(c, Begin', ie') PROVE buf'[c] \in Sent
      BY <2>1, <2>3 DEF Written
    <3>2. CASE c = ie
      BY <1>0, <2>1, <2>3, <3>2
    <3>3. CASE c # ie
      <4>1. buf'[c] = buf[c]
        BY <1>0, <2>3, <3>3
      <4>2. Begin \in Cells
        BY <1>0, TakenIs, NextCellIs DEF Begin
      <4>3. ie' = IF ie + 1 = Size THEN 0 ELSE ie + 1
        BY <1>0, <2>3, NextCellIs
      <4>4. CASE taken.at # None \/ ~Overrun(ie)
        <5>1. Begin' = Begin
          BY <2>3, <4>4 DEF Begin
        <5>2. Between(c, Begin, ie)
          BY <1>0, <3>1, <3>3, <4>2, <4>3, <5>1 DEF Between, Cells
        <5>. QED
          BY <4>1, <5>2 DEF Written, BusTypes
      <4>5. CASE taken.at = None /\ Overrun(ie)
        <5>1. Begin = ib
          BY <4>5 DEF Begin
        <5>2. Between(c, ib, ie)
          BY <1>0, <2>5, <3>3, <4>5 DEF Between, Cells
        <5>. QED
          BY <4>1, <5>1, <5>2 DEF Written, BusTypes
      <4>. QED
        BY <4>4, <4>5
    <3>. QED
      BY <3>2, <3>3
  <2>. QED
    BY <2>3, <2>7, <2>8 DEF BusTypes, Held
<1>3. CASE Update
  <2>. PICK dt \in Elapsed : Periodic(dt)
    BY <1>3 DEF Update
  <2>. DEFINE held == IF age + dt > 3 THEN 3 ELSE age + dt
              m   == InOrder[CHOOSE i \in 0 .. Table - 1 :
                       InOrder[i] \in Bus /\ \A k \in 0 .. i - 1 : InOrder[k] \notin Bus]
  <2>1. held \in 0 .. 3
    <3>1. dt \in 0 .. 3 /\ age \in 0 .. 3
      BY ElapsedAssumption DEF BusTypes, BusTypeOK
    <3>. QED
      BY <3>1
  <2>2. first' \in 0 .. Table - 1
    BY DEF Periodic, BusTypes, BusTypeOK
  <2>3. m \in Bus
    BY FirstIsOnBus DEF BusTypes, BusTypeOK
  <2>4. taken' = taken /\ yield' = yield /\ yield = "out" /\ line' = line /\ dead' = dead
    BY DEF Periodic
  <2>. HIDE DEF held, m
  <2>5. CASE /\ Free(held) /\ locked' = TRUE /\ age' = 0 /\ frame' = NoFrame
             /\ IF locked
                THEN ib' = 0 /\ ie' = 0 /\ buf' = [c \in Cells |-> NoByte]
                ELSE UNCHANGED ring
             /\ addr' = m /\ asked' = asked \cup ({m} \ dead)
    <3>1. buf' \in [Cells -> Byte] /\ ib' \in Cells /\ ie' \in Cells
      BY <1>0, <2>5 DEF ring
    <3>2. BusTypeOK'
      BY <1>0, <2>2, <2>3, <2>4, <2>5, <3>1, SMTT(20) DEF BusTypes, BusTypeOK, Gram
    <3>3. Written'
      <4>1. Begin = ib /\ Begin' = ib'
        BY <2>4 DEF BusTypes, Held, Begin, NoTake
      <4>. QED
        BY <1>0, <2>4, <2>5, <4>1 DEF Written, BusTypes, Between, ring, Cells
    <3>. QED
      BY <2>4, <3>2, <3>3 DEF BusTypes, Held
  <2>6. CASE /\ ~Free(held) /\ age' = IF locked THEN held ELSE 0
             /\ UNCHANGED <<locked, frame, ring, addr, asked>>
    BY <1>0, <2>1, <2>2, <2>4, <2>6, SMTT(20) DEF BusTypes, BusTypeOK, Written, Held, Begin, ring
  <2>. QED
    BY <2>5, <2>6 DEF Periodic, held, m
<1>4. CASE TestRipe
  BY <1>4, SMTT(20)
  DEF TestRipe, BusTypes, BusTypeOK, Written, Held, Begin, gram, ring, bus
<1>5. CASE TakeByte /\ ib = ie
  BY <1>5, SMTT(20)
  DEF TakeByte, BusTypes, BusTypeOK, Written, Held, Begin, gram, bus
<1>6. CASE TakeByte /\ ib # ie
  <2>0. /\ ib # ie /\ taken' = [at |-> ib, byte |-> buf[ib]]
        /\ buf' = [buf EXCEPT ![ib] = NoByte]
        /\ yield = "ripe" /\ yield' = "has"
        /\ UNCHANGED <<first, addr, gram, ib, ie, bus>>
    BY <1>6 DEF TakeByte
  <2>1. Begin = ib
    BY <2>0 DEF BusTypes, Held, Begin, NoTake
  <2>2. buf[ib] \in Sent
    <3>1. Between(ib, ib, ie)
      BY <1>0, <2>0 DEF Between, Cells
    <3>. QED
      BY <1>0, <2>1, <3>1 DEF BusTypes, Written
  <2>3. taken' \in [at : Cells, byte : Byte \ {NoByte}]
    BY <1>0, <2>0, <2>2 DEF Sent
  <2>4. buf' \in [Cells -> Byte]
    BY <1>0, <2>0
  <2>5. BusTypeOK'
    BY <2>0, <2>3, <2>4 DEF BusTypes, BusTypeOK, gram, bus
  <2>6. Written'
    <3>1. SUFFICES ASSUME NEW c \in Cells, Between(c, Begin', ie) PROVE buf'[c] \in Sent
      BY <2>0 DEF Written, BusTypes, bus
    <3>2. Begin' = NextCell(ib)
      BY <1>0, <2>0 DEF Begin, None, Cells
    <3>3. NextCell(ib) = IF ib + 1 = Size THEN 0 ELSE ib + 1
      BY <1>0, NextCellIs
    <3>4. c # ib /\ Between(c, ib, ie)
      BY <1>0, <2>0, <3>1, <3>2, <3>3 DEF Between, Cells
    <3>5. buf'[c] = buf[c]
      BY <1>0, <2>0, <3>4
    <3>. QED
      BY <2>1, <3>4, <3>5 DEF BusTypes, Written
  <2>. QED
    BY <2>0, <2>5, <2>6 DEF BusTypes, Held
<1>7. CASE Build
  <2>1. StoreBegin
    BY <1>7 DEF Build, Discard, Extend, Interpret, Spoil
  <2>2. /\ ib' \in Cells /\ Written' /\ Held' /\ taken.byte \in Byte
        /\ UNCHANGED <<first, addr, buf, ie, dead, asked, line>>
        /\ taken' = NoTake /\ yield' = "out"
    BY <2>1, StoreKeeps DEF bus
  <2>3. CASE UNCHANGED gram
    BY <2>2, <2>3 DEF BusTypes, BusTypeOK, gram
  <2>4. CASE Release
    <3>1. locked' \in BOOLEAN
      BY <2>4, Zenon DEF Release
    <3>2. age' \in 0 .. 3 /\ frame' = NoFrame
      BY <2>4 DEF Release
    <3>. QED
      BY <1>0, <2>2, <3>1, <3>2, SMTT(20) DEF BusTypes, BusTypeOK, Gram
  <2>5. CASE Extend
    <3>1. PICK f \in Accepted(taken.byte) : frame' = f
      BY <2>5 DEF Extend
    <3>2. f \in Longer(taken.byte)
      BY DEF Accepted
    <3>3. frame' \in Gram
      BY <2>2, <3>1, <3>2, LongerType
    <3>. QED
      BY <2>2, <2>5, <3>3 DEF Extend, BusTypes, BusTypeOK, Gram
  <2>. QED
    BY <1>7, <2>3, <2>4, <2>5 DEF Build, Discard, Interpret, Spoil
<1>8. CASE UNCHANGED busVars
  BY <1>8 DEF busVars, BusTypes, BusTypeOK, Written, Held, Begin, gram, ring, bus
<1>. QED
  BY <1>1, <1>2, <1>3, <1>4, <1>5, <1>6, <1>7, <1>8 DEF BusNext

-----------------------------------------------------------------------------
(* Whose answer a datagram is. *)

\* If it is the beginning of an answer, that is the answer of the module asked.
Own == frame.of # None => frame.of = addr

BusInv == BusTypes /\ Own

LEMMA InitBus == BusInit => BusInv
BY TypeInit DEF BusInit, BusInv, Own, NoFrame

\* A byte that is accepted goes on with the answer of the module asked, or begins it,
\* or the datagram is the beginning of none.
LEMMA AcceptedIsOwn ==
  ASSUME BusInv, NEW b \in Byte, NEW f \in Accepted(b), f.of # None
  PROVE  f.of = addr /\ (frame.len # 0 => frame.of = addr)
<1>1. f.of = b.m /\ b.k = frame.len + 1 /\ (b.k = 1 \/ frame.of = b.m)
  BY DEF Accepted, Longer
<1>2. b.m \in Bus /\ b.m # None /\ b # NoByte
  BY <1>1, TableAssumption DEF Byte, NoByte, None
<1>3. frame.len \in Nat
  BY DEF BusInv, BusTypes, BusTypeOK
<1>4. CASE frame.len = 0
  <2>1. TRUE \in IsAddress(b)
    BY <1>4 DEF Accepted
  <2>2. b.m = addr
    <3>1. b.k = 1
      BY <1>1, <1>4
    <3>2. TRUE \in {b.m = addr}
      BY <1>2, <2>1, <3>1, Zenon DEF IsAddress
    <3>. QED
      BY <3>2, Zenon
  <2>. QED
    BY <1>1, <1>4, <2>2
<1>5. CASE frame.len # 0
  BY <1>1, <1>2, <1>3, <1>5 DEF BusInv, Own
<1>. QED
  BY <1>4, <1>5

LEMMA OwnNext == BusInv /\ [BusNext]_busVars => Own'
<1>. SUFFICES ASSUME BusInv, [BusNext]_busVars PROVE Own'
  OBVIOUS
<1>1. CASE Extend
  <2>1. taken.byte \in Byte /\ addr' = addr
    BY <1>1, StoreKeeps DEF Extend, BusInv
  <2>. QED
    BY <1>1, <2>1, AcceptedIsOwn DEF Extend, Own
<1>2. CASE frame' = NoFrame
  BY <1>2 DEF Own, NoFrame
<1>3. CASE frame' = frame /\ addr' = addr
  BY <1>3 DEF BusInv, Own
<1>. QED
  BY <1>1, <1>2, <1>3 DEF BusNext, DeviceAnswers, Receive, Update, Periodic, TestRipe, TakeByte, Build,
     Discard, Interpret, Spoil, Release, StoreBegin, busVars, gram

LEMMA BusHolds == BusSpec => []BusInv
<1>1. BusInv /\ [BusNext]_busVars => BusInv'
  BY TypeNext, OwnNext DEF BusInv
<1>. QED
  BY InitBus, <1>1, PTL DEF BusSpec

(***************************************************************************)
(* The variables keep their types; in particular what a yield takes from   *)
(* the ring (get_usartx_byte, master_rtu.c:173-189) is a byte that came,   *)
(* or the 0 of a ring that seems empty, although the interrupt moves both  *)
(* ends of the ring on an overrun.                                         *)
(***************************************************************************)
THEOREM BusTypeCorrect == BusSpec => []BusTypeOK
BY BusHolds, PTL DEF BusInv, BusTypes

(***************************************************************************)
(* However late the answers, whoever took the lock over and whatever was   *)
(* lost, the datagram that is interpreted is the answer of the module      *)
(* whose command was last (MBUS_build_dgram, master_rtu.c:265-326), for    *)
(* any number of modules, any ring and any length of an answer.            *)
(***************************************************************************)
THEOREM AnswersAreOwn == BusSpec => OwnAnswersOnly
<1>1. BusInv /\ [BusNext]_busVars => [Interpret => frame.of = addr]_busVars
  <2>. SUFFICES ASSUME BusInv, Interpret PROVE frame.of = addr
    OBVIOUS
  <2>1. taken.byte \in Byte
    BY StoreKeeps DEF Interpret, BusInv
  <2>2. PICK f \in Accepted(taken.byte) : Complete(f) /\ f.of # None
    BY DEF Interpret
  <2>3. f \in Longer(taken.byte)
    BY DEF Accepted
  <2>4. frame.len # 0
    BY <2>1, <2>2, <2>3, LongerType DEF BusInv, Complete
  <2>. QED
    BY <2>1, <2>2, <2>4, AcceptedIsOwn
<1>. QED
  BY BusHolds, <1>1, PTL DEF BusSpec, OwnAnswersOnly
=============================================================================
