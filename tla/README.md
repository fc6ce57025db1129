# TLA+ models of the Acronet datalogger

Acronet is the firmware of a weather-station datalogger on an AVR XMega
(`src/main.c`, `src/Acronet/`).  Sensors are sampled over serial, MODBUS, NMEA
and pulse channels; a timer interrupt takes a *snapshot* of their statistics
once per store period; the main loop writes snapshots to a 512 KiB serial EEPROM
and sends the stored records over GPRS, by HTTP POST and by MQTT (RMAP).  The
modules here model the path of a record from the interrupt to the server: the
pulse and MODBUS channels through which sensors are read, the tick and the main
loop, the storage, the search of the stored records, the transmission down to the
exchanges with the modem; and the event log that shares the EEPROM.

All paths below are under `src/Acronet/`.

## 1. Inventory

The program has one main loop (`dl_run`, datalogger.c:2908), one tick interrupt
(`dl_tick`, datalogger.c:271) and the interrupts of the channels.  There is no
operating system: tasks are status variables (`STOP`, `READY`, `RUNNING`) the
tick sets and the loop tests in a fixed order.  A watchdog and the tick may reset
the processor at any moment; only the EEPROM survives.

| component | state | operations | what is hard | what makes it correct |
|---|---|---|---|---|
| record database (`services/DB`) | ring of records in `[2304, 524288)`; iterators BEGIN and END in RAM | append, flag, walk back | records straddle pages, the ring wraps at a multiple of nothing | a walk back finds the newest records, whole and in order, as many as fit |
| stored iterators (`services/DB`) | startup code and two overlapping 8-slot buffers in the first page | init, read, save, reset | crash between two block writes, overlapping slots | a restart finds iterators that delimit records, BEGIN never newer than END |
| EEPROM driver (`drivers/AT24CXX`) | pages of 256 bytes | block write (wraps in its page), sequential read | writes across a page | see the modules above |
| event log (`services/LOG`, `send_log_with_MQTT`) | ring of bytes in `[256, 2304)`, tags BEG, END, DEL in the bytes, page buffer in RAM | say, flush, lock, read string, unlock, restart | ends only found by searching tags, page copies, chunks | a restart finds the log; the server gets whole strings, none lost |
| snapshot ring, store task (datalogger.c:2703-2815) | ring of 8 records, `beg`, `end`, task status | snapshot in the interrupt, store in the loop | interrupt between any two steps of the copy, overflow, lost wake-up | records archived once, in order, whole, and eventually |
| transmission (datalogger.c:871-898, 1464-1563, 2072-2691) | per sender: iterator, flags, time limit; flag bits in the records | prepare, POST, RMAP select/iterate | walks cut into turns over a moving ring, failed answers, restarts, two senders started by each other | flagged only if received, no needless repeat, all recent records arrive |
| scheduler (`dl_tick`, `dl_run`) | accumulators, task statuses, cycle lock | tick, turns, sleep, time synchronisation | tick against loop on 32-bit accumulators, watchdog against long transmissions | every due task runs; the board is not reset while healthy |
| server commands, search by date (datalogger.c) | command text, date range, iterator | parse, browse | bisection over a moving ring | finds the first record of the range |
| modem driver (`drivers/SIM/sim900.c`) | connection and bearer state, UART ring | AT commands with time-outs, HTTP, TCP | late answers, retries, power cycling | an answer belongs to its command |
| serial drivers (`drivers/UART_INT`, `drivers/SP336`) | RX/TX rings | interrupt fill, loop drain | overflow moves the tail from the interrupt | bytes come out once, in order |
| MODBUS master (`channels/MODBUS_RTU`) | per channel: ring, datagram automaton, lock | lock, issue, build, release | take-over after 2 s, late answers, overflow test | a datagram belongs to the holder of the lock |
| NMEA channel (`channels/NMEA`) | line buffer per channel | interrupt fill, tokenise | unprotected index reset | lines whole |
| pulse channel (`channels/pulse`) | counters, sync flags | pin interrupts, read and reset | torn read | no pulse lost or counted twice |
| sensors (`Sensors/*`) | statistics per sensor | yield, get, reset | reset between the loop's update and the tick's read | statistics of one period |
| CAP alerts (`services/CAP`) | alert state | evaluate, send | repeated alerts | one message per change |
| firmware update (`services/fw_update`) | image over the database, startup code | download, verify, restart | restart half way | only a complete image is announced |
| configuration, HAL, peripherals, utilities | none that steps | - | - | - |

Interactions: the tick writes the snapshot ring and the task statuses; the store
task reads the ring and appends to the database; the senders walk the database
and flag it; all share the EEPROM; the modem driver says strings into the log
while the log is being sent; a firmware update overwrites the database and
restarts through the startup code.

`PROJECT.json` lists every component with its sources, and under `hazards` what in
this code is hard to test, line by line.

## 2. Modules

`MC*` modules only extend the module they check and `*.cfg` give the constants.
Every module keeps the names of the source where it can.  Definitions with
"Mutant" in their comment are deliberately wrong variants that the mutation check
puts in the place of a correct definition; nothing else uses them.

| module | models | abstract counterpart |
|---|---|---|
| `DBIter`, `DBIter_proofs` | iterator arithmetic of DB.c (16-bit stride product, strict comparisons), the chip's block write, the two-piece record write, the window a reader sees; lemmas about them | |
| `DBRing`, `DBRing_proofs` | append and flag, one call per step; theorems | `RecordLog`: a bounded log losing only its oldest record |
| `DateSearch` | the search by date on the rings of `DBRing`, a recursive function; theorems in `DBRing_proofs` | the places next to the date, in `SearchEndsAtTheDate` |
| `IterStore`, `Storing_proofs` | the first EEPROM page: start, reset, init, save, crash, firmware update, block write by block write; theorems | `IterPair`: two registers replaced BEGIN first |
| `Datastore`, `Datastore_proofs` | the store task on the database with crashes between block writes; uses the pair that `IterStore` implements; theorems | |
| `Snapshot`, `Storing_proofs` | tick interrupt against store task; theorems about the task and the iterators it saves | |
| `LogStore`, `LogStore_proofs` | the event log and its transmission; theorems | |
| `Sender`, `Transmission_proofs` | turns of the loop: store, prepare, POST, RMAP; theorems about the senders and the modem driver | |
| `Scheduler`, `Scheduler_proofs` | the tick (`dl_tick`) against the main loop (`dl_run`): accumulators, task statuses, the count of the bearer's users, time synchronisation, sleep, the reset of a board that hangs; theorems | |
| `Sim900`, `Transmission_proofs` | the modem driver in a send cycle over HTTP, its receive ring, the modem and the network; theorems | |
| `ModbusMaster`, `Channels_proofs` | a MODBUS channel: interrupt, ring, lock, datagrams, the modules' periodic and yield functions; theorems | |
| `RainGauge`, `Channels_proofs` | the pulse channels: pin interrupts against the tick; theorems | |

How state corresponds to code:

* **DBIter / DBRing.** A byte of the partition is `[rec, off, flag]`: the record it
  belongs to, its offset in it, and the flags when it is the first.  `Pieces` is the
  split of `DB_put_record` (DB.c:423-446) and `WriteBlock` lets a block run round in
  its page, so a wrong split would overwrite bytes of the same page.  The readers walk
  back one record at a time (`WalkBack`) and stop on BEGIN: `Count` is the number of
  moves this takes, over as many laps as it takes; the 16-bit product of
  `DB_iterator_moveback` would matter to them only for longer strides.  `TrimBegin` is
  the unsigned comparison of `DB_append_record` (DB.c:462-475).  `slipped` is a
  history variable, true once an append has left BEGIN behind END or an iterator on
  the partition's end; see 5.
* **IterStore.** The page is ten 4-byte words; slot *i* of iterator *j* is word
  *2j + i*, the overlap of the code (iterators 8 bytes apart, 8 slots of 4 bytes).  A
  step is one block write.  `broken` marks a reset of the store that is under way or
  was cut short; `SavedIteratorsUsable` excepts only that: after a crash in
  `DB_reset_eeprom` the code says `AC01` while the iterators may never have been
  written.
* **Datastore.** `PutFirst`/`PutSecond` are the block writes of one append.  `saved`
  is what a restart finds: `IterStore` implements `IterPair`, whose two save steps are
  `SaveBegin` and `SaveEnd` here.
* **Snapshot.** `pc` holds the place of the store task in `dl_task_store_data`; every
  read of a shared variable and, per record, the copy of header and measurements are
  steps of their own, so the tick falls between any two.  `due` is the elapsed store
  period that `dl_tick` withholds while the time is synchronised.  `archive` is the
  history of what was appended.
* **LogStore.** A byte is a tag or "byte *k* of string *m*".  `todo` holds the block
  writes of a flush, so a crash falls between two.  The reader is
  `LOG_LOCK_PARAMS`: its place and its copy of a page; `Reading[n]` is what *n* rounds of
  the loop of `LOG_get_next_string` have given.  `spoilt` records what has
  gone wrong with the log (`overrun`: it was full; `long`: a buffer over three pages,
  of which the middle one is not written; `stale`: a string put back after the page
  copy moved on; `exact`: an unlock that lands on a string not read; `unsent`: the
  last transmission failed after the log was unlocked, or was to be; `reset`: a start found a tag
  missing and wrote the two tags anew; `stray`: a crash in a flush or between DEL and
  BEG after such a reset).  Each property names the ones it tolerates.
* **Sender.** An iterator is a slot number (records fill the partition exactly;
  `DBRing` treats the others).  `turn` is the place in the loop of `dl_run`.  A POST is
  the walk back (`Walk`), the transmission, then one flag write per record
  (`MarkSent`), with restarts between any two.  `got` is what the server has.
* **DateSearch.** `SearchFrom` is the loop of `dl_search_record_by_date`
  (datalogger.c:966-1038), `Iteration` one pass of it: a date is read, the direction or
  the length of the step is changed, the iterator moved.  Records are numbered in the
  order of their dates; at END may lie what is left of an old record, and be read as any
  date but the one sought.  `Fuel`, the passes looked at, grows with the square of
  the records the partition holds, so that a search without end would show.
* **Scheduler.** One step of the tick is `Tick`: every accumulator of `dl_tick`, what
  becomes ready, and the test that resets a board in which no transmission was asked
  for during three periods.  `at` holds the place in `dl_run`, one step per test of a
  status, per task part and per half of a 32-bit read or write (the accumulator of the
  transmission; g_timePrev in `dl_task_sync_time`), so the tick falls between any two.
  `lag`, `late` and `old` are times relative to the clock, which a tick moves; `low` is the
  lower part of the clock while halves are told apart.  Time is counted in ticks; tasks end after any number of them up to
  their time-outs.
* **Sim900.** A row of `Script` is one exchange: what is sent, which words end the
  wait, which let the driver go on, how often it is tried, where a failure leads.  A
  wait begins with `usart_buffer_flush` (`Flush`), takes words from the ring (`Read`)
  and may give up after 20 s (`TimesOut`).  `cells` and `unread` are the ring of 16
  bytes, counted in words: `ReceiveWord` overwrites the oldest, and has the outcomes of an
  interrupt between two stores of the flush and inside `GetByte`.  The modem takes its
  commands in order, in data mode as text; the network refuses, drops and delays.
* **ModbusMaster.** `Periodic` is one call of `dl_periodic_update`
  (modinst_impl.h:80-116), `Elapsed` seconds after the last one, with the lock and the
  command of the first module on the channel; the others fail on the lock.  A yield is
  three steps, `TestRipe`, `TakeByte` and one of `Discard`, `Extend`, `Interpret`, `Spoil`:
  the interrupt (`Receive`) falls between the test of the ring and the reading of a byte
  (master_rtu.c:336, 175-181), where an overrun may make the ring seem empty and the byte
  a 0, and between the reading of the ring's begin and its store (184-185).  `yield` is
  the place, `taken` the byte.  A datagram is the number of its bytes, its `data_size` and
  whether it is the beginning of an answer; bytes from the inside of an answer may look
  like an address, or like a `data_size` of any value in `Garbled`.  The CRC accepts whole
  answers only.
* **RainGauge.** `isr` is the pin interrupt under way and its place; it has a lower
  level than the tick (`Take`), which comes between any two of its loads and stores: of
  the byte of flags the channels share (`Load`, `Store`), of the milliseconds and the
  seconds (`Millis`, `Epoch`), of the count (`Count`).  The shortest distance of two
  pulses and the time of the first are left out.

## 3. Runs

| run | question | bounds |
|---|---|---|
| `MCDBRing` | does the ring keep the newest records, whole, as many as fit, and implement `RecordLog`, whatever the alignment? does a search by date end next to the date? | 20-byte partition, 4-byte pages, 3-byte records: records straddle pages at every offset, 22 records are more than three laps, each with another alignment; `SkipCaps`, the longest first step of a search, 2, 4 and 8 records, so that it overshoots either end; `Fuel` 56, as six records fit |
| `MCDBRingTrim` (violation) | does an append trim what it overwrites? | 16-byte partition, 12 records |
| `MCIterStore` | do the stored iterators survive crashes between block writes, restarts, firmware updates, and implement `IterPair`? | 3 crashes, 4 saves, 7 positions: a crash in a save, in the recovery, and again |
| `MCDatastore` | what does a restart find after a crash anywhere in a batch? | batches of 2, 3 crashes, 14 records on a partition of 6: the unsaved batch laps the oldest records |
| `MCSnapshot` | is every snapshot archived once, in order, whole and in the end, whatever the interleaving? | ring of 4, 8 snapshots, one tick during a store, a driver failure |
| `MCLogStore` | does a restart find the log, are strings delivered whole, is none lost? | two pages of 5 bytes, strings of 2 and 3, 4 strings: every alignment to a page, the wrap of the partition; two crashes, the second on what a reset has left |
| `MCSender` | are flags faithful, repeats needed, iterators valid, and do all recent records arrive? | 5 slots, 5 records: the ring wraps and BEGIN moves; queue of 2 and a day of 3, so that a walk takes several turns; one failure, one restart |
| `MCSenderRmap` (violation) | does the RMAP sender flag what was acknowledged? | no failure needed |
| `MCModbusMaster` | does a module interpret its own answers only, does the channel recover, is every module polled? | two modules, each device alive or dead, answers of 4 bytes at any time after the command, updates 1 or 3 seconds apart (one in the same second can only fail on the lock or find it free, and change whose turn it is, which a gap of 3 does too), a ring of 5 bytes (two answers overrun it, at every place of the ring); a garbled `data_size` is 0, which ends a datagram after one byte, 2, which is too great by one, or 255, which no datagram reaches before the lock is taken over |
| `MCScheduler` | is a station reset only if it hangs, does every due task run, is the bearer open while it is used and released before sleep? | periods of 1, 2 and 2 seconds, a clock set 2 seconds forth or back, retries after 1 and 2 seconds, 32-bit values read and written in two halves (`Base` 2), one failed preparation before the modem is started anew, two users counted at most (`MaxRef`), accumulators set back by 3 seconds at most (`Back`: a jump of 2, a tick meanwhile, a torn half, less the tick itself) |
| `MCSim900` | is a batch taken for sent on the server, how often may it be repeated, do driver and modem stay in step and get back into it? | two posts of one session, a ring of two words, two looks at the line and at the bearer, two each of late answers (`MaxLate`), words that come while the driver is held up (`MaxBehind`) and refusals (`MaxRefused`) |
| `MCRainGauge` | is each pulse counted once, and what does a tick in a pin interrupt cost? | two channels on one byte of flags, seconds of 3 units, a bounce filter of 2, a count of 4 values that wraps, 8 units of time: more pulses than the count takes, and three ticks |

`CHECK_DEADLOCK FALSE` is set where a bound (records, snapshots, strings, time) or the
end of the work (the posts of `Sim900`) ends the behaviour; the loops of `Sender`,
`ModbusMaster` and `Scheduler` never stop.  The type invariants of `IterStore`,
`Datastore`, `Sender` and `ModbusMaster` are stated for the reader and are no run's
property.

What the passing runs show, in the order a record travels:

* `ArchivedOnceInOrder`, `WholeUnlessFull`, `NoSilentLoss`, `ArchivedBeforeLong`: the
  unprotected ring between interrupt and loop is sound until it overflows.  The
  lost wake-up (the tick sets `READY` while the task runs, the task then sets `STOP`)
  delays records until the next snapshot and no longer.
* `WalkBackFindsTheNewest`, `KeepsWhatFits`, `ImplementsRecordLog`: the database is a
  bounded log as long as no iterator has slipped.
* `SearchEndsAtTheDate`: as long as none has, the bisection ends, at a record next to the
  date asked for or at an end of the log, wherever the ring's ends are and whatever
  bytes of an older lap lie at END.
* `SavedIteratorsUsable`, `SlotsDoNotInterfere`, `ImplementsIterPair`,
  `CrashSpoilsAtMostABatch`, `SavedRecordsAreDurable`: a crash costs the batch that
  was not saved and may spoil at most as many of the oldest records.
* `SentMeansReceived`, `NoNeedlessRepeats`, `WalksFromTheRing`, `EveryRecordArrives`:
  when all records of a queue fit in the buffer, the HTTP sender delivers every
  recent record, again only after a failure or a restart.
* `RestartFindsTheLog`, `DeliversWholeStrings`, `NothingIsLost`: a log without stored
  ends survives crashes between any two of its block writes: at worst a start finds a
  tag missing and empties the log, and no string is ever sent in part.
* `OwnAnswersOnly`, `Recovers`, `EveryModuleIsPolled`: on a MODBUS channel late answers,
  take-overs and overruns cost readings and never mix them up, and leave nothing behind
  that goes on costing readings once answers are prompt.
* `ResetOnlyIfHung`: torn accumulators, failures, retries and a clock that is set back do
  not reset a station whose transmission lasts for less than two periods, counted in
  ticks.  Setting the clock forward may: what it gains is taken for time that has passed,
  and the property says how much that must be (see 4).
* `EveryRequestIsServed`, `KeepsSending`: none of these, nor a tick between any two steps of
  the loop or of a change of the clock, keeps a station from sending for good, or a
  task that is ready from its turn; `BearerUpWhileSending`, `BearerReleased`: the count of the bearer's users
  does its work although some paths unbalance it.
* `SentIsStored`, `RepeatsAreBounded`, `InStep`, `EveryPostArrives`: the driver tells
  answers from each other by their words alone.  It may be one answer behind through
  several exchanges, but what it takes for the status of a post is one, a batch is
  stored twice only after a fault, and the session ends.
* `CountedOnce`, `DamageIsBounded`: without a tick in a pin interrupt the rain gauge counts
  each pulse once; each tick in one costs a bounded error.

Fairness.  `Snapshot!FairSpec` has weak fairness on the store task's steps (the loop
always comes round to a ready task, and its steps do not wait for the tick) and on
the late request (the tick goes on and time synchronisation ends).  Ticks that take
snapshots need no fairness.  `Sender!FairSpec` has weak fairness on the loop and strong
fairness on `Prepare`: the tick asks for a transmission every period and tries again
in seconds when the modem is not ready (datalogger.c:2940-2952), while the bounded
number of failures stands for the time it is not.  Store steps, failures and restarts
need not happen.  `ModbusMaster!FairSpec` has weak fairness on the loop: it comes
round to the next update, and does not stop in a yield; that answers are prompt (`Late`) and updates evenly apart
(`OffBeat`) are premises of its liveness properties, not assumptions of the
specification.  `Scheduler!FairSpec` has weak fairness on the tick (the clock goes on)
and on the loop (every task has time-outs).  `Sim900!CycleSpec` has weak fairness on the
driver, the ring, the modem and the network; faults are bounded, and within the bounds
may come at any time.

## 4. Findings

Two places where the code disagrees with a comment or message of its own, each a run
that violates one property:

1. `AppendTrimsWhatItOverwrites` (DB.c:462-475): the unsigned test misses the wrap.  When
   END wraps from before to after the partition's end while BEGIN lies just ahead of
   it, the append overwrites the oldest record and BEGIN stays where it is.  The readers
   walk back until they are on BEGIN (datalogger.c:2140, 2548), so that they find all the
   newest records and then the remains of that one (in the run, from END 5 to BEGIN 19:
   18, 15, 12, 9, 6 and 19).  It depends on the alignment, so it comes once in some laps;
   the appends that follow do not trim BEGIN either until END has come round to it.
2. `FlaggedOnlyIfAcknowledged` (datalogger.c:2616-2641): the next record is selected
   before the flag is written.

Noted while modelling, without a run of their own:

* Database.  The iterator buffer never turns (`DB_iterator_write_to_eeprom` writes the
  value where it was and the TAG where it was, DB.c:226-247, so the same two words take
  every write).  `DB_reset_eeprom` writes `AC01` before the iterators.
* Snapshots.  A tick between the store task's two reads, on a full ring, makes the ring
  look empty, and the task empties it with one report (datalogger.c:2788-2812).
* Log.  A buffer of a full page that starts at a page's last byte loses its middle page
  (LOG.c:469).  A log string put back is read again from the next page's copy
  (datalogger.c:2009-2012).  `LOG_reset` writes the two tags and leaves the bytes behind
  them (LOG.c:113-140), old tags among them; a second crash, in the flush that follows or
  while BEG is moved, may have a start find one of those.
  `my_iterator_next_page` wraps by a strict comparison (LOG.c:63), so that the reader
  would leave the partition after a string that fills its last page; the buffers in which
  strings are put together are shorter than a page.
* Senders.  Records skipped because the text is full are flagged with the others
  (datalogger.c:2174-2222).  The RMAP sender starts from the null iterator if the ring
  laps a transmission (hence the premise `Horizon + Window < N` of `WalksFromTheRing`).
* Search by date.  Whoever sends a range begins with the record before the one found, so
  that the record found is not sent, and nothing is if the search ends at BEGIN.  Once an
  iterator has slipped (finding 1) the search may go round for ever.
* Scheduler.  A board in which a transmission is ready is reset by the first tick after
  the clock has been set forward (755) by more than three periods less the accumulator:
  `dl_tick` adds the difference to every accumulator (278-312) and takes the
  transmission for one that hangs (328), although the comment speaks of a task that
  "is getting unscheduled for too long" (323).  A garbled answer that `strtoul` reads as 0
  sets the clock back and prepares this for the next synchronisation.  In the instance
  three ticks and a step of two seconds do it.  A tick between datalogger.c:715 and 755,
  while g_timePrev is moved and the clock set back, may do it too (`shaken`).  A preparation that lasts a whole period is asked for
  again, and the bearer's users are counted twice and released once (2931-2938,
  `twice`); a time synchronisation that could not open the bearer releases it (789).  A
  torn store of an accumulator costs a transmission that is early or late: a tick
  between its halves sees a value too great by less than `Base`, once in a transmission.
* Modem.  `sim900_bearer_open` returns OK after ten looks that say "connecting", and takes
  any line that does not say "closed" for an open bearer (sim900.c:1417-1425).
  `HTTPACTION` is sent again after a time-out, so that a batch may be stored twice.  What
  comes before a flush is dropped, and the driver then may stay one answer behind through
  several exchanges.  A missed `DOWNLOAD` leaves the modem in data mode, where it takes
  the next commands for text.
* MODBUS.  The lock is taken over at the third second, so that in a table of periodic
  functions whose length is a multiple of 3 the module of a dead device can be first at
  every take-over and shut out the others on its channel (`EveryModuleIsPolled` excepts
  those lengths).
* Rain gauge.  The tick has the higher level: the pin interrupts' byte of flags, the time
  and the count they read are torn when it comes between (`struck`).  The count of 8
  bits wraps.

## 5. Premises of the properties, and why they are there

* `~slipped` (`DBRing`, `Datastore`): finding 1, and the two iterators left on the
  partition's end by the strict comparison of `DB_iterator_moveforward`.  Three laps
  of `MCDBRing` pass before an iterator slips at those sizes.
* `full = 0` (`Snapshot`): the ring of 8 overflows only if the loop does not store for
  8 periods; `ArchivedOnceInOrder` holds regardless.
* `Window` (`Sender`): a transmission does not last longer than the tick's limit of
  three periods (datalogger.c:328), after which the board is reset and the walk starts
  afresh.
* `MaxDuring` (`Snapshot`): snapshots taken while one store task runs; the periods are
  tens of seconds and a record takes milliseconds.  `ArchivedOnceInOrder` is proved for
  `MaxDuring <= 1`; two of them on a full ring would make
  the task archive a new record before the old ones (SIZE = 4 shows it).
* `spoilt` (`LogStore`): `RestartFindsTheLog` holds after failed transmissions, full TCP
  buffers and resets, `DeliversWholeStrings` after failures and resets,
  `NothingIsLost` as long as nothing has gone wrong, a failed transmission of a
  chunk excepted.  A `stray` crash takes two crashes, the second in the milliseconds of a
  flush or an unlock.
* `LengthsAssumption` (`LogStore`): a string with its 0 is two bytes shorter than a page or
  more; the longest buffer one is put together in has 192 bytes (datalogger.c:2868), a
  page 256.
* `slipped` (`DateSearch`): as for `DBRing`; records lie in the order of their dates, which
  a clock set back at a synchronisation may break.
* `LongTransmission`, `shaken`, `Setting` (`Scheduler`): `ResetOnlyIfHung` excepts a reset
  after as many ticks of a transmission, and seconds by which the clock was set forward
  meanwhile, as make two periods less what a torn store adds (`Base` - 2); one by a
  tick that comes while the synchronisation reads and moves g_timePrev and sets the clock;
  and one by the tick after such a one.  One tick comes at most in these few
  steps.  `twice` (`BearerReleased`) is a preparation asked for again before it ended.
* `late = 0`, `behind = 0` (`InStep`): no word came after its time-out or while the driver
  was held up.  The properties about what is stored do not need it.
* `Late`, `OffBeat` (`ModbusMaster`): a channel whose answers are late for ever, or a loop
  that does not come round once a second, gives no promise.
* `struck`, `wrapped` (`RainGauge`): how many ticks came in a pin interrupt, and which
  counts have wrapped.

## 6. Proofs

`Storing_proofs` proves of `Snapshot`, for every ring size and every bound:

* `TypeCorrect`: `Spec => []TypeOK`;
* `WholeUntilFull`: `Spec => []WholeUnlessFull`;
* `NoneIsLost`: `Spec => []NoSilentLoss`;
* `OnceInOrder`: `MaxDuring <= 1 => (Spec => []ArchivedOnceInOrder)`.

`WholeUnlessFull` is not inductive: whether the next record copied is whole depends on
where the store task is.  The strengthening says that until the ring has overflowed,
every slot from `beg` to before `end` holds the stamp and the data of one snapshot, that
the store task's `idx` and `snEnd` lie in that order between `beg` and `end`, and that
once the header has been copied it is the header of the slot at `idx`.  The proof has
one lemma per fact about positions modulo the ring size, a lemma for the tick, which writes outside the stretch the task reads, and one step per action.
`NoneIsLost` adds that until an overflow or a failure what was archived and what lies in
the ring are all the snapshots taken (`Complete`).  `OnceInOrder` holds after overflows
too and has an invariant of its own (`OrderInv`): the age of the snapshot in a slot
follows from the slot's place, and what was archived last is older than what the task
copies next.  The assumptions are `SizeAssumption` (at least two slots) and
`BoundsAssumption`.

`Channels_proofs` proves of `RainGauge`, for every set of channels, every length of a
second and of the bounce filter up to it, every width of the count and every bound on the
time:

* `TypeCorrect`: `Spec => []TypeOK`;
* `CountsOnce`: `Spec => []CountedOnce`;
* `DamageBounded`: `Spec => []DamageIsBounded`.

The invariant `Inv` speaks of the runs in which no tick has come in a pin interrupt.  In
those, between interrupts, what was reported and what is pending is the number of pulses
(`Balance`); inside one, the copy of the flags is theirs (`Fresh`), the milliseconds and
seconds that were read are now (`Known`), and the pulse under way is counted from the
step on that adds it (`Late`).  `DamageInv` speaks of all runs.  It looks at the error as
it will be when the interrupt has ended (`Value`, with the flags as the interrupt will
store them), so that most of its steps change nothing.  That the error does not grow after a
tick has torn a time rests on an order (`Within`): whichever of the gauge and the pulses
counted earlier is the next to count, so an error at one end of its range can only shrink.
Between the two readings of the clock a tick may come once (`Reading`).
`ChansAssumption`, `TimesAssumption` and `WidthAssumption` are all it uses.

`DBRing_proofs` proves, for every place and size of the partition that is a whole number
of pages, and every record no longer than a page (so for the real ones: 2304 to 524288,
pages of 256 bytes):

* `TypeCorrect`: `Spec => []TypeOK`;
* `NewestAreFound`: `Spec => []WalkBackFindsTheNewest`;
* `FullBeforeTrimmed`: `Spec => []KeepsWhatFits`;
* `LogImplemented`: `Spec => ImplementsRecordLog`, every append a `Put`, every mark a `Flag`;
* `SearchEnds`: `Spec => []SearchEndsAtTheDate`, of the search by date.

The invariant gives the content of the ring: until an iterator slips, END is `Held`
records past BEGIN (`Placed`), and the *j*-th record on the way back from END is the
*j*-th newest with every byte in its place (`Whole`).  That an append keeps it rests on
`PieceCells`, the page-wise blocks of a record fill just the cells the reader looks at,
and `Apart`, those are no cells of the records kept; both are lemmas of `DBIter_proofs`.
When the ring is full, the three cases of the unsigned test of `DB_append_record` are one
proof (`PlacedNext`).
`PartitionAssumption` and `BoundsAssumption` are all these use.

The search needs two more facts of the ring, that nothing is written beyond END on the first
lap (`Fresh`) and that only the first record of all begins at the partition's first byte
(`Clear`); from them the bytes at END are never a whole record (`EndIsTorn`).  `Searching` is the invariant of its loop: the date lies no more than a step
behind, and END is reached only by a search for a later date, since steps forward, each a
fraction of the ones before, meet the record from which the search turned back (`Above`).
That the loop ends is shown by `Todo`, the records ahead and the halvings left, which
every pass makes less and which is less than `Fuel` at the start.  `SkipAssumption` asks
that the longest skip, 128 records, is a 16-bit number of bytes, as `DB_iterator_moveback`
takes it; a record that fits in a page of 256 bytes is short enough.

`Datastore_proofs` proves, for the same partitions and every batch of fewer records than
the partition has room for (`BoundsAssumption`; the code's is a ring of 8 snapshots, the
partition holds thousands of records):

* `TypeCorrect`: `Spec => []TypeOK`;
* `SpoilsAtMostABatch`: `Spec => []CrashSpoilsAtMostABatch`;
* `DurableOnceSaved`: `Spec => []SavedRecordsAreDurable`.

What a restart finds depends on how far a batch may have come in an earlier life.  The
invariant says that on the way back from the saved END every record but the last ones, as
many as a batch, is whole and older than the one before (`Stored`), and that the iterators
in use are just the batch ahead of the saved ones, with its records whole (`InUse`), the
one being put up to the piece that is due (`Half`).  A block of the batch falls on none of
the records that `Stored` speaks of (`Untouched`), so a crash may come at any place; saving
BEGIN first only takes records away, and saving END adds the batch.

`Storing_proofs` proves of `IterStore`, for every capacity, size of a batch and bound:

* `IterTypeCorrect`: `IterSpec => []IterTypeOK`;
* `RestartFindsThem`: `IterSpec => []SavedIteratorsUsable`;
* `NoInterference`: `IterSpec => SlotsDoNotInterfere`;
* `PairImplemented`: `IterSpec => ImplementsIterPair`.

The code could let the two overlapping buffers turn; the invariant is that they never do:
the page reads BEGIN, TAG, END, TAG from its first word on, BEGIN not after END (`Stored`),
the iterators in use lie in between as a save may leave them (`InUse`), and a save writes
BEGIN before END (`Order`).

`Scheduler_proofs` proves, for all periods, retries, clock jumps and sizes of the lower
half of a 32-bit value:

* `TypeCorrect`: `Spec => []TypeOK`;
* `BearerIsUp`: `Spec => []BearerUpWhileSending`;
* `BearerIsReleased`: `Spec => []BearerReleased`;
* `HealthyIsNotReset`: `Spec => ResetOnlyIfHung`.

A transmission has its bearer, and a preparation that overlaps it has a guard just cleared,
so that it does not start the modem anew (`Open`); no more users of the bearer are counted
than the loop's places and statuses stand for (`Counted`); the accumulator is not negative,
nor is what a tick adds to it, which rests on g_timePrev having been moved to the server's
time, half by half, before the clock is set there (`Forward`); and it is ahead of the
transmission's ticks and of the seconds by which the clock was set forward by less
than a period, and by less than `Base` more once a store of it was torn, which comes once
in a transmission at most (`Bounded`).  `RetryAssumption` asks that the modem is started anew after a second
failed preparation at the earliest; the code lets ten pass (datalogger.c:2889).

`Channels_proofs` proves of `ModbusMaster`, for any number of modules, any length of an
answer and any ring that an answer fits in:

* `BusTypeCorrect`: `BusSpec => []BusTypeOK`;
* `AnswersAreOwn`: `BusSpec => OwnAnswersOnly`.

Bytes in the ring's window came from the modules of this channel (`Written`), a yield
holds a byte only until it stores the ring's begin (`Held`), and a datagram that is the
beginning of an answer is the beginning of one of the module asked (`Own`), whoever took
the lock over.

`Transmission_proofs` proves of `Sender`, for every size of the ring, length of the queue,
size of the buffer and number of failures and restarts:

* `FlaggedIsReceived`: `Fit = QUEUE_LEN => (Spec => []SentMeansReceived)`;
* `RepeatsAreNeeded`: `Spec => []NoNeedlessRepeats`;
* `NeverWalksFromNull`: `Spec => []WalksFromTheRing`;
* `TypeCorrect`: `Horizon + Window < N => (Spec => []TypeOK)`.

Record *i* is in slot `(i - 1) % N`, and two records of the ring are fewer than `N` apart,
so a slot names one of them (`ModEq`).  That a walk back halts, and queues the records to
be sent, each once, is shown by the least number of steps after which it would not
(`Least`, `Reaches`, `QueuedIs`, `QueuedOnce`).  The invariant: when the text of a queue
fits, all of a queue that is being flagged was received (`QueueReceived`); until something
fails or restarts, a record that the server has is flagged or in that queue
(`OnceUntilFailure`); and the RMAP sender stands on a record of the ring, at most `Window`
records behind END, of which the newest is never flagged, so that its walk halts before the
null iterator (`Started`).  `Fit = QUEUE_LEN` says that the text of a full queue
fits in the buffer; the code flags the records that did not (section 4).  `Horizon +
Window < N` is the premise of `WalksFromTheRing` itself, which the other two do not need.

It proves of `Sim900`, for every number of batches and of looks at the bearer, size of the
ring and number of faults:

* `CycleTypeCorrect`: `CycleSpec => []CycleTypeOK`;
* `KeepsInStep`: `CycleSpec => []InStep`;
* `StatusIsOwn`: `CycleSpec => [](Cells <= 2 \/ behind = 0 => SentIsStored)`;
* `RepeatsHaveCauses`: `CycleSpec => []RepeatsAreBounded`.

`InStep` is about the time before an answer is late or a word comes while the driver is held
up; the network may refuse what it likes.  Until then the driver waits for one command, which
is the one the modem deals with, at most one word of its answer lies in the ring (`Single`),
and the modem acts only on a post whose status is still to be read (`Acting`).

`StatusIsOwn` allows any number of late answers and, in a ring of two words, any number that
come while the driver is held up.  A TERM lies between an ACTION and any later DATA that asks
for a text (`Sessions`), since each post ends its session; so when a text is taken, no earlier
post is acted on.  A text is asked for only by a DATA that the driver still waits for
(`Awaited`): the modem takes this batch's text or none, and only this batch is acted on from
then on (`OwnPost`).  A 200 that an earlier post left in the ring is not on the line when
ACTION is sent, and the OK and the HTTPACTION that the driver reads before it looks at the
status have come after it (`Unseen`, `OwnStatus`); these two fill the ring of 16 bytes
(`USART_RX_BUFFER_SIZE`), so that even a torn flush or read, which shows what the ring held
before, does not show it.  In a ring of sixteen words it does: TLC finds three words behind
after which a torn flush shows the HTTPACTION and the 200 of the batch before.  Hence the
premise.

`RepeatsHaveCauses` has no premise.  Its invariant, `Accounted`, keeps an account of
each batch: its copies on the server, the post the modem is at and the ACTIONs on their way
that may post it are no more than the faults so far, and one (`AtMost`, `Past`).  The one is
not spent before ACTION is sent; from then on either the driver may still read that the
batch was accepted, which a fault is needed to prevent (`Hopeful`), or a fault has paid for it
(`Now`).  No batch is posted after it is left, since the TERM behind its text was dealt with
or is on its way (`Left`), and the text itself covers the DATA before it (`Texts`), so that
TERM is not swallowed for a text.

`LogStore_proofs` proves, for every partition of whole pages (of at most 64 KiB, the 16 bits
of `my_iterator_distance`), every size of a page, set of lengths (`LengthsAssumption`) and
TCP buffer, and every number of strings, failures and crashes:

* `LogTypeCorrect`: `Spec => []TypeOK`;
* `LogFound`: `Spec => []RestartFindsTheLog`;
* `WholeDelivered`: `Spec => []DeliversWholeStrings`;
* `NoStringIsLost`: `Spec => []NothingIsLost`.

Places are counted from BEG around the partition (`At`, `Off`).  The log is a stretch of that
ring (`LogAt`): BEG, strings of which each byte is followed by the next of the same string or
by the first of another (`Follows`), END, and no other tag but what a reset has left behind
END and before the partition's end.  The invariant `LogHolds` says that it is there between
two operations; that in a flush it is the old log with a part of the buffer behind it, so
that a crash leaves the old log, the new one, or no END (`Writing`, `WriteIsCut`); that while
BEG is moved a DEL stands for it, and no BEG is found (`NoBegin`); and that the reader is at
the first byte of a string, or at the last byte of the log when all is read (`AtString`), with
the page it is in in its hand.  `ProcessIs` shows the cutting of a buffer into blocks to put
each byte in its place whatever its alignment, `NextStringIs` what the reading of a string
over a page boundary gives, `ReadsOn` that it ends at the next string.  `NoneLost` follows each
string from the RAM buffer to the log, the TCP buffer and the server; what the reader has passed
is in one of the last two, so that BEG may go there.

`Least`, `LeastOf` and the lemma that they rest on, `WFMin` of the library, are how an induction is
made here: the induction theorems of the library take an operator, which the provers cannot
instantiate, but the least element of a set of numbers serves as well.

What is model-checked only: liveness (`ArchivedBeforeLong`, `EveryRecordArrives`,
`Recovers`, `EveryModuleIsPolled`, `EveryRequestIsServed`, `KeepsSending`,
`EveryPostArrives`), which is beyond the prover.

## 7. Not modelled

* Parsing and formatting of text: configuration, commands, AT answers, JSON, URLs.
* NMEA lines and CAP alerts (see 8).
* Sensor arithmetic; register-level drivers (PCAL9535A, MPL3115A2, ADC, power switch).
* In `Scheduler`: the statistics and log tasks, which no other depends on, and
  `RMAP_SERVICES` (the build modelled sends by HTTP).
* In `Sim900`: start-up and registration, GET, TCP, FTP and SMS, and the transmit ring.
* MQTT as the primary sender (`send_data_with_MQTT`), which flags records whatever the
  transmission's result; nothing in the code promises more.
* EEPROM write errors, except where the code returns early from one: the DEL of
  `LOG_unlock` (`LogStore`), and a driver that does not start (`Snapshot`).
* The firmware update's download; its effect on startup code and database is in
  `IterStore`.
* Vendored code: ASF, boost, the MQTT serialiser.

## 8. Plan

In this order, most important first:

1. `NmeaLine`: interrupt against loop on the line's shared indices.
2. `FwUpdate` (time-outs of the download), `CapAlert`, MQTT as the primary sender beside
   `Sender`, sharing its database.
3. Proofs of what these modules state.

The runs are kept to a dozen questions that are worth their time: a new one is to
replace the least telling of them, not to lengthen the list.
