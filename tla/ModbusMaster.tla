---------------------------- MODULE ModbusMaster ----------------------------
(***************************************************************************)
(* A MODBUS channel (channels/MODBUS_RTU/master_rtu.c) shared by several   *)
(* sensor modules.  dl_periodic_update calls the modules' functions, each  *)
(* time beginning with the next one; the first that gets the channel's     *)
(* lock sends its command.  The loop calls it once a second, but a         *)
(* transmission makes it come later, or more than once in a second.  The   *)
(* interrupt puts the bytes of the answer in a ring, the modules' yield    *)
(* functions take them out one at a time, build the datagram and release   *)
(* the lock.  A lock held for more than 2 seconds is taken over.           *)
(*                                                                         *)
(* Byte k of the answer of module m is [m |-> m, k |-> k]: the address, the*)
(* byte count, the data, the CRC.  The function code and the second byte   *)
(* of the CRC, which no branch looks at, are left out; the CRC is ideal.   *)
(***************************************************************************)
EXTENDS Integers, Sequences

CONSTANTS Elapsed,    \* seconds between two updates, 3 for more than 2
          Table,      \* periodic functions, numbered 0 .. Table - 1
          Bus,        \* those of the modules on this channel
          Size,       \* MODBUS_UART_BUF_SIZE
          Data,       \* data bytes in an answer
          Garbled     \* values of data_size, an octet, when it is none of an answer's

ASSUME TableAssumption ==
  Table \in Nat \ {0} /\ Bus \subseteq 0 .. Table - 1 /\ Bus # {}
ASSUME ElapsedAssumption == 1 \in Elapsed /\ Elapsed \subseteq 0 .. 3
ASSUME SizesAssumption ==
  /\ Data \in Nat \ {0} /\ Size \in Nat
  /\ Data + 3 < Size      \* an answer fits in the ring
  /\ Garbled \subseteq Nat /\ 0 \in Garbled

VARIABLES first,      \* idx of dl_periodic_update
          locked,     \* g_bc.status # MBUS_STATUS_BEGIN
          addr,       \* g_bc.addr, the module whose command was last
          age,        \* while it is locked, seconds since g_bc.seconds, 3 for more than 2
          frame,      \* the datagram being built: its length, its data_size and
                      \* the module of whose answer it is the beginning, or None
          buf, ib, ie,     \* the ring, idx_beg_usart and idx_end_usart
          yield,      \* where a yield is: "out", "ripe" (it has found the ring ripe), or
                      \* "has" (it has a byte, and has not yet stored idx_beg)
          taken,      \* the byte it has, and the cell it comes from; None if it is the 0
                      \* that stands for an empty ring
          dead,       \* modules whose device does not answer
          asked,      \* modules whose device has not answered yet
          line        \* bytes on their way

ring    == <<buf, ib, ie>>
bus     == <<dead, asked, line>>
gram    == <<locked, age, frame>>
busVars == <<first, addr, gram, ring, yield, taken, bus>>

None   == -1
AnswerLen == Data + 3
Answer(m) == [k \in 1 .. AnswerLen |-> [m |-> m, k |-> k]]
NoFrame == [len |-> 0, size |-> 0, of |-> None]
Cells  == 0 .. Size - 1
NoByte == [m |-> None, k |-> 0]
NoTake == [at |-> None, byte |-> NoByte]

BusInit ==
  /\ first = 0
  /\ locked = FALSE /\ addr = None /\ age = 0 /\ frame = NoFrame
  /\ buf = [c \in Cells |-> NoByte] /\ ib = 0 /\ ie = 0
  /\ yield = "out" /\ taken = NoTake
  /\ dead \in SUBSET Bus /\ asked = {} /\ line = << >>

-----------------------------------------------------------------------------
\* The device of a module answers, unless another is still on the line.
DeviceAnswers(m) ==
  /\ m \in asked /\ line = << >>
  /\ asked' = asked \ {m}
  /\ line' = Answer(m)
  /\ UNCHANGED <<first, addr, gram, ring, yield, taken, dead>>

NextCell(i) == (i + 1) % Size

\* The overflow test compares the index before it is masked: a ring that fills
\* up at its last cell seems empty.
Overrun(e) == e + 1 = ib

\* cb_usartx, in the interrupt.
Receive ==
  /\ line # << >>
  /\ line' = Tail(line)
  /\ buf' = [buf EXCEPT ![ie] = Head(line)]
  /\ ie' = NextCell(ie)
  /\ ib' = IF Overrun(ie) THEN NextCell(ie + 1) ELSE ib
  /\ UNCHANGED <<first, addr, gram, yield, taken, dead, asked>>

-----------------------------------------------------------------------------
\* Mutant: the periodic functions are always called in the same order.
InOrderFixed == [i \in 0 .. Table - 1 |-> i]

\* The order in which this update calls the periodic functions.
InOrder == [i \in 0 .. Table - 1 |-> (first + i) % Table]

\* MBUS_lock: free, or held for too long.
Free(now) == ~locked \/ now > 2

(***************************************************************************)
(* dl_periodic_update, dt seconds after the last.  Taking over a lock      *)
(* empties the ring; a lock that was free leaves it alone.  Only one       *)
(* module can get the lock, and it sends its command (MBUS_issue_cmd).     *)
(***************************************************************************)
Periodic(dt) ==
  /\ yield = "out"
  /\ first' = (first + 1) % Table
  /\ LET now == IF age + dt > 3 THEN 3 ELSE age + dt
         m   == InOrder[CHOOSE i \in 0 .. Table - 1 :
                  InOrder[i] \in Bus /\ \A j \in 0 .. i - 1 : InOrder[j] \notin Bus]
     IN \/ /\ Free(now)
           /\ locked' = TRUE /\ age' = 0 /\ frame' = NoFrame
           /\ IF locked
              THEN ib' = 0 /\ ie' = 0 /\ buf' = [c \in Cells |-> NoByte]
              ELSE UNCHANGED ring
           /\ addr' = m
           /\ asked' = asked \cup ({m} \ dead)
        \/ /\ ~Free(now)
           /\ age' = IF locked THEN now ELSE 0
           /\ UNCHANGED <<locked, frame, ring, addr, asked>>
  /\ UNCHANGED <<yield, taken, dead, line>>

-----------------------------------------------------------------------------
\* Mutant: the bytes that come while the lock is free are left in the ring.
RipeLocked == locked /\ ib # ie

\* MBUS_is_ripe, for the module whose command was last.
Ripe == ib # ie

\* A yield finds the ring ripe ...
TestRipe ==
  /\ yield = "out" /\ Ripe
  /\ yield' = "ripe"
  /\ UNCHANGED <<first, addr, gram, ring, taken, bus>>

(***************************************************************************)
(* ... reads its ends again, and the byte, in get_usartx_byte (a cell that *)
(* was read does not come back before it is written again, and is          *)
(* cleared).  An overrun in between may have made the ring seem empty:     *)
(* then the byte is 0.  The two reads of the ends are one step: with one   *)
(* interrupt between them they find what they find before it or after it.  *)
(***************************************************************************)
TakeByte ==
  /\ yield = "ripe" /\ yield' = "has"
  /\ IF ib = ie
     THEN UNCHANGED <<taken, buf>>
     ELSE /\ taken' = [at |-> ib, byte |-> buf[ib]]
          /\ buf' = [buf EXCEPT ![ib] = NoByte]
  /\ UNCHANGED <<first, addr, gram, ib, ie, bus>>

\* ... and stores idx_beg, before the byte goes to MBUS_build_dgram.
StoreBegin ==
  /\ yield = "has" /\ yield' = "out"
  /\ ib' = IF taken.at = None THEN ib ELSE NextCell(taken.at)
  /\ taken' = NoTake
  /\ UNCHANGED <<first, addr, buf, ie, bus>>

Release == locked' = FALSE /\ age' = 0 /\ frame' = NoFrame

\* Mutant: whatever address a datagram begins with, it is built.
IsAddressAny(b) == {TRUE}

\* The first byte of a datagram must be the address asked.  A byte of the inside of
\* an answer that has lost its beginning may look like it; 0 is no module's.
IsAddress(b) ==
  CASE b = NoByte -> {FALSE}
    [] b.k = 1    -> {b.m = addr}
    [] OTHER      -> BOOLEAN

\* The datagram with the next byte; its second byte is data_size.
Longer(b) ==
  {[len  |-> frame.len + 1,
    size |-> n,
    of   |-> IF b.k = frame.len + 1 /\ (b.k = 1 \/ frame.of = b.m) THEN b.m ELSE None] :
     n \in CASE frame.len # 1 -> {frame.size}
            [] frame.len = 1 /\ b = NoByte -> {0}
            [] frame.len = 1 /\ b.k = 2 -> {Data}
            [] OTHER -> Garbled}

\* A byte that comes while the lock is free, or is not the address, is discarded;
\* the second releases the lock.
Discard ==
  /\ StoreBegin
  /\ \/ ~locked /\ UNCHANGED gram
     \/ locked /\ frame.len = 0 /\ FALSE \in IsAddress(taken.byte) /\ Release

Accepted(b) ==
  {f \in Longer(b) : locked /\ (frame.len # 0 \/ TRUE \in IsAddress(b))}

\* The last byte; data_size is looked at after the first of the data.
Complete(f) == f.len > 2 /\ f.len = 3 + IF f.size = 0 THEN 1 ELSE f.size

Extend ==
  /\ StoreBegin
  /\ \E f \in Accepted(taken.byte) : ~Complete(f) /\ frame' = f
  /\ UNCHANGED <<locked, age>>

\* The CRC is right only for a whole answer, which the module whose command was last
\* interprets.
Interpret ==
  /\ StoreBegin
  /\ \E f \in Accepted(taken.byte) : Complete(f) /\ f.of # None
  /\ Release
Spoil ==
  /\ StoreBegin
  /\ \E f \in Accepted(taken.byte) : Complete(f) /\ f.of = None
  /\ Release

Update == \E dt \in Elapsed : Periodic(dt)
Build == Discard \/ Extend \/ Interpret \/ Spoil

BusNext ==
  \/ \E m \in Bus : DeviceAnswers(m)
  \/ Receive
  \/ Update
  \/ TestRipe \/ TakeByte \/ Build

BusSpec == BusInit /\ [][BusNext]_busVars

\* The loop goes on: it comes round to the next update, and does not stop in a yield.
FairSpec == BusSpec /\ WF_busVars(Update \/ TakeByte \/ Build)

-----------------------------------------------------------------------------
Byte == [m : Bus, k : 1 .. AnswerLen] \cup {NoByte}

BusTypeOK ==
  /\ first \in 0 .. Table - 1
  /\ locked \in BOOLEAN /\ addr \in Bus \cup {None} /\ age \in 0 .. 3
  /\ frame \in [len : Nat, size : Garbled \cup {Data}, of : Bus \cup {None}]
  /\ buf \in [Cells -> Byte] /\ ib \in Cells /\ ie \in Cells
  /\ yield \in {"out", "ripe", "has"}
  /\ taken = NoTake \/ taken \in [at : Cells, byte : Byte \ {NoByte}]
  /\ {dead, asked} \subseteq SUBSET Bus
  /\ line \in Seq(Byte) /\ Len(line) <= AnswerLen

(***************************************************************************)
(* A module interprets the answers of its own device only, although an     *)
(* answer may come after the lock has been taken over by another module,   *)
(* be cut off by that, or overrun the ring.                                *)
(***************************************************************************)
OwnAnswersOnly == [][Interpret => frame.of = addr]_busVars

\* An update comes before the answer is dealt with.
Late == (asked # {} \/ line # << >> \/ Ripe) /\ Update

(***************************************************************************)
(* After a time of late answers and overruns the channel recovers: once    *)
(* answers are prompt again, or do not come at all, no byte is wasted.     *)
(***************************************************************************)
Recovers == []<><<Late>>_busVars \/ <>[][~(Discard \/ Spoil)]_busVars

(***************************************************************************)
(* Every module gets the channel again and again, even when devices of     *)
(* others are dead and hold it until it is taken over, as long as answers  *)
(* are prompt and the updates come once a second.  That depends on the     *)
(* length of the table: the take-over comes at the third second, so with a *)
(* multiple of 3 the module of a dead device may be first every time.      *)
(***************************************************************************)
OffBeat == Update /\ ~Periodic(1)
Polls(m) == locked' /\ age' = 0 /\ addr' = m /\ Update
EveryModuleIsPolled ==
  Table % 3 # 0 => \A m \in Bus : []<><<Late \/ OffBeat>>_busVars \/ []<><<Polls(m)>>_busVars
=============================================================================
