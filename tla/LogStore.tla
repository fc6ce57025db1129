------------------------------ MODULE LogStore ------------------------------
(***************************************************************************)
(* The event log (services/LOG/LOG.c) and its transmission                 *)
(* (send_log_with_MQTT in datalogger.c).                                   *)
(*                                                                         *)
(* Strings are said into a buffer of one page, which the main loop flushes *)
(* into a ring of bytes in the EEPROM.  The ring's ends are not stored     *)
(* anywhere: a BEG byte precedes the oldest string, an END byte follows    *)
(* the newest, and a restart searches for them.  Block writes are atomic   *)
(* in the chip; the processor may stop between any two.                    *)
(***************************************************************************)
EXTENDS Integers, Sequences, FiniteSets

CONSTANTS PAGE,        \* page size of the chip, and SIZE_OF_LOG_BUFFER
          PB, PE,      \* LOG_EEPROM_PARTITION_BEGIN, LOG_EEPROM_PARTITION_END
          Lengths,     \* lengths of the strings said, terminating 0 included
          Chunk,       \* strings that fit in one TCP buffer
          MaxSaid,     \* bound: strings said
          MaxFail,     \* bound: failed transmissions
          MaxCrashes   \* bound: crashes

ASSUME PartitionAssumption ==
  /\ PAGE \in Nat \ {0, 1} /\ PB \in Nat /\ PE \in Nat /\ PB < PE
  /\ PB % PAGE = 0 /\ PE % PAGE = 0
  /\ PE - PB <= 65536
\* A string is put together in a buffer of at most 192 bytes (datalogger.c:2868),
\* three quarters of a page.
ASSUME LengthsAssumption ==
  Lengths \subseteq Nat \ {0, 1} /\ \A len \in Lengths : len <= PAGE - 2
ASSUME BoundsAssumption ==
  /\ Chunk \in Nat \ {0}
  /\ {MaxSaid, MaxFail, MaxCrashes} \subseteq Nat

VARIABLES mem,        \* the LOG partition
          beg, end,   \* g_log_iter_beg, g_log_iter_end
          buf,        \* log_buffer, up to log_buffer_index
          pc,         \* what the main loop is doing with the log
          todo,       \* block writes LOG_process_buffer has still to make
          it, page,   \* LOG_LOCK_PARAMS: the reader's place, its copy of a page
          chunk,      \* strings serialised in the TCP buffer
          said,       \* lengths of the strings said, as kept in the buffer
          delivered,  \* history: the strings the server has received, a set
          fails, crashes,
          spoilt      \* history: what has gone wrong with the log

vars == <<mem, beg, end, buf, pc, todo, it, page, chunk, said, delivered, fails, crashes, spoilt>>
store  == <<mem, beg, end>>
reader == <<it, page, chunk>>
counts == <<fails, crashes>>

(***************************************************************************)
(* A byte of the log: a tag, or byte k of string m, 0 if it is the last.   *)
(***************************************************************************)
Tag(t) == [is |-> t, m |-> 0, k |-> 0]
Blank  == Tag("blank")
BEG == Tag("beg")
END == Tag("end")
DEL == Tag("del")
Text(m, k, len) == [is |-> IF k = len THEN "zero" ELSE "char", m |-> m, k |-> k]

Least(a, b) == IF a <= b THEN a ELSE b

-----------------------------------------------------------------------------
(***************************************************************************)
(* Iterators (byte addresses).                                             *)
(***************************************************************************)
\* my_iterator_distance: the bytes strictly between the two, 16 bits wide.
Distance(b, e) ==
  (IF e < b THEN (e - b) + (PE - (PB + 1)) ELSE (e - b) - 1) % 65536

Dec(a) == IF a - 1 < PB THEN PE - 1 ELSE a - 1

\* Mutant: the reader does not wrap.
NextPageOn(a) == a + PAGE

\* my_iterator_next_page: the comparison is strict.
NextPage(a) == IF a + PAGE > PE THEN PB ELSE a + PAGE

\* Mutant: the end does not wrap.
AddOffsetOn(a, n) == a + n

\* my_iterator_add_offset; an offset is at most a page.
AddOffset(a, n) == IF a + n > PE THEN (a + n) - (PE - PB) ELSE a + n

PageOf(m, a) ==
  [k \in 0 .. PAGE - 1 |->
     LET x == (a \div PAGE) * PAGE + k IN IF x \in DOMAIN m THEN m[x] ELSE Blank]

\* One block write: it runs round in the page it begins in.
WriteBlock(m, p) ==
  [a \in DOMAIN m |->
     LET k == (a - p.at) % PAGE
     IN IF a \div PAGE = p.at \div PAGE /\ k < Len(p.bytes) THEN p.bytes[k + 1] ELSE m[a]]

Write1(m, a, b) == WriteBlock(m, [at |-> a, bytes |-> <<b>>])

(***************************************************************************)
(* The block writes of LOG_process_buffer_2: the first page, and what is   *)
(* over after a page boundary.  (The loop over the pages between begins at *)
(* 2 and a buffer is too short to have more than 2.)                       *)
(***************************************************************************)
Blocks(a, bytes) ==
  LET e   == a + Len(bytes)
      pro == Least(PAGE - (a % PAGE), Len(bytes))
      epi == e % PAGE
      first == [at |-> a, bytes |-> SubSeq(bytes, 1, pro)]
      last  == [at |-> a + pro, bytes |-> SubSeq(bytes, pro + 1, pro + epi)]
  IN IF e \div PAGE > a \div PAGE /\ epi > 0 THEN <<first, last>> ELSE <<first>>

(***************************************************************************)
(* LOG_process_buffer: the buffer and the END byte after it, in the free   *)
(* space behind the end and, when that is short, at the beginning of the   *)
(* partition.  What does not fit is not written.                           *)
(***************************************************************************)
FreeBehind == IF end < beg THEN (beg - end) - 1 ELSE PE - end
FreeBefore == IF end < beg THEN 0 ELSE beg - PB

\* Mutant: the part written at the beginning is taken from the buffer's start.
ProcessBlocksAgain ==
  LET all == Append(buf, END)
      d == Len(all)
      v == Least(d - FreeBehind, FreeBefore)
  IN IF FreeBehind >= d THEN Blocks(end, all)
     ELSE (IF FreeBehind > 0 THEN Blocks(end, SubSeq(all, 1, FreeBehind)) ELSE << >>)
          \o (IF FreeBefore > 0 THEN Blocks(PB, SubSeq(all, 1, v)) ELSE << >>)

ProcessBlocks ==
  LET all == Append(buf, END)
      d == Len(all)
      v == Least(d - FreeBehind, FreeBefore)
  IN IF FreeBehind >= d THEN Blocks(end, all)
     ELSE (IF FreeBehind > 0 THEN Blocks(end, SubSeq(all, 1, FreeBehind)) ELSE << >>)
          \o (IF FreeBefore > 0 THEN Blocks(PB, SubSeq(all, FreeBehind + 1, FreeBehind + v)) ELSE << >>)

\* find_TAG: the first byte that is the tag, PE when there is none.
Find(m, tag) ==
  IF \E a \in DOMAIN m : m[a] = tag
  THEN CHOOSE a \in DOMAIN m : m[a] = tag /\ \A b \in DOMAIN m : m[b] = tag => a <= b
  ELSE PE

\* LOG_reset: the two tags at the beginning; the others stay where they are.
Reset(m) == WriteBlock(m, [at |-> PB, bytes |-> <<BEG, END>>])

(***************************************************************************)
(* LOG_get_next_string: bytes are taken from the copied page, and from a   *)
(* new copy of the next one when it is used up, until a 0, or until as     *)
(* many have been taken as there are before the end (ToRead).  Reading[n]  *)
(* is what n bytes have given; the lowest byte of the place, lsb, runs     *)
(* ahead of the iterator.                                                  *)
(***************************************************************************)
ToRead == Least(PAGE, Distance(it, end))

TakeByte(r) ==
  LET c == r.page[r.lsb]
      s == IF c = BEG THEN r.s ELSE Append(r.s, c)
      l == (r.lsb + 1) % PAGE
      a == IF l = 0 THEN NextPage(r.it) ELSE r.it
  IN [it |-> a, page |-> IF l = 0 THEN PageOf(mem, a) ELSE r.page, lsb |-> l, s |-> s,
      done |-> c # BEG /\ (c.is = "zero" \/ Len(s) = ToRead)]

Reading[n \in 0 .. 2 * PAGE] ==
  IF n = 0 THEN [it |-> it, page |-> page, lsb |-> it % PAGE, s |-> << >>, done |-> FALSE]
  ELSE LET r == Reading[n - 1] IN IF r.done THEN r ELSE TakeByte(r)

NextString ==
  LET z == Reading[2 * PAGE]
      a == (z.it \div PAGE) * PAGE + z.lsb
  IN [empty |-> ToRead = 0, s |-> z.s, page |-> z.page,
      it |-> IF z.page[z.lsb] = END THEN Dec(a) ELSE a]

-----------------------------------------------------------------------------
NoPage == [k \in 0 .. PAGE - 1 |-> Blank]

\* dl_init has just had LOG_reset and LOG_init run.
Init ==
  /\ mem = Reset([a \in PB .. PE - 1 |-> Blank])
  /\ beg = PB /\ end = PB + 1
  /\ buf = << >> /\ pc = "run" /\ todo = << >>
  /\ it = PB /\ page = NoPage /\ chunk = << >>
  /\ said = << >> /\ delivered = {}
  /\ fails = 0 /\ crashes = 0
  /\ spoilt = {}

(***************************************************************************)
(* LOG_say, from the main loop or from the modem driver during a           *)
(* transmission.  A string too long for the buffer is cut and ends in a 0. *)
(***************************************************************************)
LOG_say(len) ==
  /\ pc \in {"run", "read", "chunk", "last"}
  /\ Len(said) < MaxSaid
  /\ LET l == Least(len, PAGE - Len(buf))
         n == Len(said) + 1
     IN /\ l > 0
        /\ said' = Append(said, l)
        /\ buf' = buf \o [k \in 1 .. l |-> Text(n, k, l)]
  /\ UNCHANGED <<store, pc, todo, reader, delivered, counts, spoilt>>

\* LOG_process_buffer, one block write after the other.
LOG_process_buffer ==
  /\ pc = "run" /\ buf # << >>
  /\ todo' = ProcessBlocks
  /\ pc' = "write"
  /\ spoilt' = spoilt
       \cup (IF Len(buf) + 1 > FreeBehind + FreeBefore THEN {"overrun"} ELSE {})
       \cup (IF Len(buf) + 1 > PAGE /\ end % PAGE = PAGE - 1 THEN {"long"} ELSE {})
  /\ UNCHANGED <<store, buf, reader, said, delivered, counts>>

WritePiece ==
  /\ pc = "write" /\ todo # << >>
  /\ mem' = WriteBlock(mem, Head(todo))
  /\ todo' = Tail(todo)
  /\ UNCHANGED <<beg, end, buf, pc, reader, said, delivered, counts, spoilt>>

ProcessEnds ==
  /\ pc = "write" /\ todo = << >>
  /\ end' = AddOffset(end, Len(buf))
  /\ buf' = << >>
  /\ pc' = "run"
  /\ UNCHANGED <<mem, beg, todo, reader, said, delivered, counts, spoilt>>

-----------------------------------------------------------------------------
(***************************************************************************)
(* send_log_with_MQTT, once the connection is open.                        *)
(***************************************************************************)
LOG_lock ==
  /\ pc = "run"
  /\ it' = beg
  /\ page' = PageOf(mem, beg)
  /\ chunk' = << >>
  /\ pc' = "read"
  /\ UNCHANGED <<store, buf, todo, said, delivered, counts, spoilt>>

(***************************************************************************)
(* The next string is serialised.  When it does not fit, the iterator goes *)
(* back to where it was, and the page copied stays.                        *)
(***************************************************************************)
LOG_get_next_string ==
  /\ pc = "read" /\ ~NextString.empty
  /\ page' = NextString.page
  /\ IF Len(chunk) < Chunk
     THEN /\ chunk' = Append(chunk, NextString.s)
          /\ it' = NextString.it
          /\ UNCHANGED <<pc, spoilt>>
     ELSE /\ pc' = "chunk"
          /\ spoilt' = spoilt \cup (IF page' # page THEN {"stale"} ELSE {})
          /\ UNCHANGED <<chunk, it>>
  /\ UNCHANGED <<store, buf, todo, said, delivered, counts>>

SendChunk ==
  /\ pc = "chunk"
  /\ \/ /\ delivered' = delivered \cup {chunk[n] : n \in DOMAIN chunk}
        /\ chunk' = << >>
        /\ pc' = "read"
        /\ UNCHANGED <<it, page, fails>>
     \/ /\ fails < MaxFail /\ fails' = fails + 1
        /\ pc' = "run"
        /\ chunk' = << >> /\ it' = PB /\ page' = NoPage
        /\ UNCHANGED delivered
  /\ UNCHANGED <<store, buf, todo, said, crashes, spoilt>>

\* Mutant: the old BEG is not deleted.
LOG_unlock_Keeps ==
  /\ pc = "read"
  /\ NextString.empty \/ Len(chunk) = Chunk
  /\ pc' = "mark"
  /\ spoilt' = spoilt \cup (IF NextString.empty THEN {} ELSE {"exact"})
  /\ UNCHANGED <<mem, beg, end, buf, todo, reader, said, delivered, counts>>

\* LOG_unlock, when all is read or the TCP buffer is exactly full: DEL for the
\* old BEG ...  (In the second case the new BEG falls on the next string.)
LOG_unlock ==
  /\ pc = "read"
  /\ NextString.empty \/ Len(chunk) = Chunk
  /\ mem' = Write1(mem, beg, DEL)
  /\ pc' = "mark"
  /\ spoilt' = spoilt \cup (IF NextString.empty THEN {} ELSE {"exact"})
  /\ UNCHANGED <<beg, end, buf, todo, reader, said, delivered, counts>>

\* ... and BEG where the reader has come to.
LOG_unlock_mark ==
  /\ pc = "mark"
  /\ beg' = it
  /\ mem' = Write1(mem, it, BEG)
  /\ pc' = "last"
  /\ UNCHANGED <<end, buf, todo, reader, said, delivered, counts, spoilt>>

\* DEL cannot be written: LOG_unlock gives up, and the log still begins where it did.
LOG_unlock_fails ==
  /\ pc = "read"
  /\ NextString.empty \/ Len(chunk) = Chunk
  /\ fails < MaxFail /\ fails' = fails + 1
  /\ pc' = "last"
  /\ UNCHANGED <<store, buf, todo, reader, said, delivered, crashes, spoilt>>

\* The strings left in the TCP buffer are sent now: if that fails they are gone.
SendLast ==
  /\ pc = "last"
  /\ \/ /\ delivered' = delivered \cup {chunk[n] : n \in DOMAIN chunk}
        /\ UNCHANGED <<fails, spoilt>>
     \/ /\ fails < MaxFail /\ fails' = fails + 1
        /\ spoilt' = spoilt \cup {"unsent"}
        /\ UNCHANGED delivered
  /\ pc' = "run"
  /\ chunk' = << >> /\ it' = PB /\ page' = NoPage
  /\ UNCHANGED <<store, buf, todo, said, crashes>>

-----------------------------------------------------------------------------
\* Power loss or watchdog: what is in RAM is lost.
Crash ==
  /\ pc # "off" /\ crashes < MaxCrashes
  /\ crashes' = crashes + 1
  /\ pc' = "off"
  /\ buf' = << >> /\ todo' = << >>
  /\ chunk' = << >> /\ it' = PB /\ page' = NoPage
  /\ spoilt' = spoilt
       \cup (IF pc \in {"write", "mark"} /\ "reset" \in spoilt THEN {"stray"} ELSE {})
  /\ UNCHANGED <<store, said, delivered, fails>>

\* Find the two tags, and reset the log if one is missing.
LOG_init ==
  /\ pc = "off"
  /\ pc' = "run"
  /\ IF PE \in {Find(mem, BEG), Find(mem, END)}
     THEN /\ mem' = Reset(mem) /\ beg' = PB /\ end' = PB + 1
          /\ spoilt' = spoilt \cup {"reset"}
     ELSE /\ beg' = Find(mem, BEG) /\ end' = Find(mem, END)
          /\ UNCHANGED <<mem, spoilt>>
  /\ UNCHANGED <<buf, todo, reader, said, delivered, counts>>

Next ==
  \/ \E len \in Lengths : LOG_say(len)
  \/ LOG_process_buffer \/ WritePiece \/ ProcessEnds
  \/ LOG_lock \/ LOG_get_next_string \/ SendChunk
  \/ LOG_unlock \/ LOG_unlock_fails \/ LOG_unlock_mark \/ SendLast
  \/ Crash \/ LOG_init

Spec == Init /\ [][Next]_vars

-----------------------------------------------------------------------------
Byte == [is : {"blank", "beg", "end", "del", "char", "zero"}, m : 0 .. MaxSaid, k : 0 .. PAGE]

TypeOK ==
  /\ mem \in [PB .. PE - 1 -> Byte]
  /\ beg \in PB .. PE + PAGE - 1 /\ end \in PB .. PE
  /\ buf \in Seq(Byte) /\ Len(buf) <= PAGE
  /\ pc \in {"run", "write", "read", "chunk", "mark", "last", "off"}
  /\ Len(todo) <= 4
  /\ it \in PB .. PE + PAGE - 1 /\ page \in [0 .. PAGE - 1 -> Byte]
  /\ Len(chunk) <= Chunk
  /\ said \in Seq(1 .. PAGE) /\ Len(said) <= MaxSaid
  /\ fails \in 0 .. MaxFail /\ crashes \in 0 .. MaxCrashes
  /\ spoilt \subseteq {"overrun", "long", "stale", "exact", "unsent", "reset", "stray"}

(***************************************************************************)
(* Between two operations a restart finds the log the program works with,  *)
(* END at the end of the partition being the same place as its beginning.  *)
(***************************************************************************)
RestartFindsTheLog ==
  pc = "run" /\ spoilt \subseteq {"unsent", "exact", "reset"} =>
    /\ Find(mem, BEG) = beg
    /\ Find(mem, END) = IF end = PE THEN PB ELSE end

\* String m as the server should see it; the last 0 of all may be missing.
Whole(s) ==
  /\ s # << >>
  /\ \E m \in DOMAIN said :
       /\ Len(s) \in {said[m], said[m] - 1}
       /\ \A k \in DOMAIN s : s[k] = Text(m, k, said[m])

(***************************************************************************)
(* The server receives whole strings only, whatever page boundaries, wraps *)
(* and tags they lie across.                                               *)
(***************************************************************************)
DeliversWholeStrings ==
  spoilt \subseteq {"unsent", "reset"} => \A s \in delivered : Whole(s)

\* The strings (by number) of which a byte is in a set of bytes.
Strings(bytes) == {b.m : b \in {c \in bytes : c.is \in {"char", "zero"}}}
Received == Strings(UNION {{s[k] : k \in DOMAIN s} : s \in delivered})
Stored == Strings({mem[a] : a \in {x \in PB .. PE - 1 : (x - beg) % (PE - PB) < (end - beg) % (PE - PB)}})
Buffered == Strings({buf[k] : k \in DOMAIN buf})

(***************************************************************************)
(* Without a crash, an overrun or a last transmission that fails, no       *)
(* string is lost: each has been received, or is in the log or the buffer. *)
(***************************************************************************)
NothingIsLost ==
  pc = "run" /\ crashes = 0 /\ spoilt = {} =>
    {m \in DOMAIN said : said[m] > 1} \subseteq Received \cup Stored \cup Buffered
=============================================================================
