----------------------------- MODULE IterStore -----------------------------
(***************************************************************************)
(* The first page of the external EEPROM: the startup code and the two     *)
(* database iterators (services/DB/DB.c), through starts, saves, firmware  *)
(* updates and crashes.                                                    *)
(*                                                                         *)
(* The page is seen as ten 4-byte words after the code.  The 8 slots of    *)
(* iterator j begin at byte 4 + 8*j, so slot i of iterator j is word       *)
(* 2*j + i and the two ranges overlap.  A block write is atomic in the     *)
(* chip; the processor may stop between any two of them.                   *)
(*                                                                         *)
(* Iterator values are the positions 0, 1, 2, ... they move through, 0 is  *)
(* the beginning of the partition.                                         *)
(***************************************************************************)
EXTENDS Integers

CONSTANTS Capacity,    \* records that fit in the partition
          Batch,       \* records one store task appends at most
          MaxPos,      \* bound: positions the iterators move through
          MaxCrashes,  \* bound: crashes
          MaxSaves     \* bound: completed saves

ASSUME IterBoundsAssumption ==
  /\ {Capacity, Batch, MaxPos, MaxCrashes, MaxSaves} \subseteq Nat
  /\ Batch <= Capacity

TAG    == -1   \* 0xFAFAFAFA
ERASED == -2   \* 0xFFFFFFFF
Pos    == 0 .. MaxPos
Values == Pos \cup {TAG, ERASED}
Word   == 0 .. 9
LEN    == 8    \* DL_ITER_CBUFFER_LEN
BEG    == 0    \* ITERATOR_DB_BEGIN
END    == 1    \* ITERATOR_DB_END

VARIABLES code,     \* the startup code: "AC01" or another ("UPDA", "FAIL", ...)
          word,     \* the words of the page
          iter,     \* g_eeprom_iter, in RAM
          main,       \* what the main program is doing
          j,        \* iterator being written
          i,        \* slot being written
          then,     \* what follows DB_iterator_init_eeprom
          crashes,
          saves,
          broken    \* history: a reset of the store was cut short, or is under way

iterVars == <<code, word, iter, main, j, i, then, crashes, saves, broken>>
page == <<code, word>>

Slot(n, k) == word[2 * n + k]

\* The slots of iterator n in which the TAG is found; the scan stops at the first.
Tags(n) == {k \in 0 .. LEN - 1 : Slot(n, k) = TAG}
FirstTag(n) == CHOOSE k \in Tags(n) : \A m \in Tags(n) : k <= m
Before(k) == (k - 1) % LEN

\* Mutant: the value is read where the TAG is.
ReadAtTag(n, default) == IF Tags(n) = {} THEN default ELSE Slot(n, FirstTag(n))

\* DB_iterator_read_from_eeprom leaves the variable alone when there is no TAG.
Read(n, default) == IF Tags(n) = {} THEN default ELSE Slot(n, Before(FirstTag(n)))

\* Iterators that delimit a stretch of the partition.
Usable(it) == it[BEG] \in Pos /\ it[END] \in Pos /\ it[BEG] <= it[END]

-----------------------------------------------------------------------------
IterInit ==
  /\ code = "blank"
  /\ word = [a \in Word |-> ERASED]
  /\ iter = [n \in {BEG, END} |-> ERASED]
  /\ main = "off" /\ j = 0 /\ i = 0 /\ then = "run"
  /\ crashes = 0 /\ saves = 0
  /\ broken = TRUE

(***************************************************************************)
(* dl_init: a code other than AC01, or a key pressed on the debug port,    *)
(* has the database reset and the processor restarted; else DB_init.       *)
(***************************************************************************)
BootReset ==
  /\ main = "off"
  /\ main' = "code"
  /\ broken' = TRUE
  /\ UNCHANGED <<page, iter, j, i, then, crashes, saves>>

DB_init ==
  /\ main = "off" /\ code = "AC01"
  /\ LET r == [n \in {BEG, END} |-> Read(n, ERASED)]
     IN IF \E n \in {BEG, END} : r[n] = ERASED
        THEN /\ iter' = [n \in {BEG, END} |-> 0]      \* reset_iterators
             /\ main' = "init" /\ then' = "run"
             /\ j' = 0 /\ i' = 0
             /\ broken' = TRUE
        ELSE /\ iter' = r
             /\ main' = "run"
             /\ UNCHANGED <<then, j, i, broken>>
  /\ UNCHANGED <<page, crashes, saves>>

\* DB_reset_eeprom: the code first, the iterators after it.
DB_reset_eeprom ==
  /\ main = "code"
  /\ code' = "AC01"
  /\ iter' = [n \in {BEG, END} |-> 0]
  /\ main' = "init" /\ then' = "off"
  /\ j' = 0 /\ i' = 0
  /\ UNCHANGED <<word, crashes, saves, broken>>

\* DB_iterator_init_eeprom: the value in slot 0, the TAG in the other seven.
DB_iterator_init_eeprom ==
  /\ main = "init"
  /\ word' = [word EXCEPT ![2 * j + i] = IF i = 0 THEN iter[j] ELSE TAG]
  /\ IF i < LEN - 1 THEN i' = i + 1 /\ UNCHANGED <<j, main, broken>>
     ELSE IF j = BEG THEN i' = 0 /\ j' = END /\ UNCHANGED <<main, broken>>
     ELSE i' = 0 /\ j' = 0 /\ main' = then /\ broken' = FALSE
  /\ UNCHANGED <<code, iter, then, crashes, saves>>

-----------------------------------------------------------------------------
(***************************************************************************)
(* A record has been appended: END moves, and BEGIN when the partition is  *)
(* full.  A store task saves after at most Batch of these.                 *)
(***************************************************************************)
AppendBatch ==
  /\ main = "run"
  /\ Usable(iter)
  /\ iter[END] < MaxPos
  /\ iter[END] < Read(END, 0) + Batch
  /\ iter' = [iter EXCEPT ![END] = @ + 1,
                         ![BEG] = IF iter[END] - @ = Capacity THEN @ + 1 ELSE @]
  /\ UNCHANGED <<page, main, j, i, then, crashes, saves, broken>>

\* Mutant: only the last iterator is saved.
StartSaveLast ==
  /\ main = "run" /\ saves < MaxSaves
  /\ main' = "scan" /\ j' = END
  /\ UNCHANGED <<page, iter, i, then, crashes, saves, broken>>

StartSave ==
  /\ main = "run" /\ saves < MaxSaves
  /\ main' = "scan" /\ j' = BEG
  /\ UNCHANGED <<page, iter, i, then, crashes, saves, broken>>

NextIterator ==
  IF j = BEG THEN j' = END /\ main' = "scan" /\ saves' = saves
  ELSE j' = 0 /\ main' = "run" /\ saves' = saves + 1

\* Find the TAG; nothing is written without one, or when the value is there already.
Scan ==
  /\ main = "scan"
  /\ IF Tags(j) = {} \/ Read(j, ERASED) = iter[j]
     THEN NextIterator /\ i' = i
     ELSE /\ i' = Before(FirstTag(j))
          /\ main' = "value"
          /\ UNCHANGED <<j, saves>>
  /\ UNCHANGED <<page, iter, then, crashes, broken>>

WriteValue ==
  /\ main = "value"
  /\ word' = [word EXCEPT ![2 * j + i] = iter[j]]
  /\ main' = "tag"
  /\ UNCHANGED <<code, iter, j, i, then, crashes, saves, broken>>

\* Mutant: the TAG goes one slot too far.
WriteTagFar ==
  /\ main = "tag"
  /\ word' = [word EXCEPT ![2 * j + ((i + 2) % LEN)] = TAG]
  /\ NextIterator
  /\ i' = 0
  /\ UNCHANGED <<code, iter, then, crashes, broken>>

WriteTag ==
  /\ main = "tag"
  /\ word' = [word EXCEPT ![2 * j + ((i + 1) % LEN)] = TAG]
  /\ NextIterator
  /\ i' = 0
  /\ UNCHANGED <<code, iter, then, crashes, broken>>

-----------------------------------------------------------------------------
(***************************************************************************)
(* A firmware update writes its image over the database (em_insert), with  *)
(* FWDW in the code before and UPDA or FAIL after it, and restarts.        *)
(***************************************************************************)
FirmwareUpdate ==
  /\ main = "run"
  /\ code' \in {"FWDW", "UPDA", "FAIL"}
  /\ main' = "off" /\ j' = 0 /\ i' = 0
  /\ broken' = TRUE
  /\ iter' = [n \in {BEG, END} |-> ERASED]
  /\ UNCHANGED <<word, then, crashes, saves>>

\* Power loss or watchdog: RAM is lost.
Crash ==
  /\ crashes < MaxCrashes
  /\ main # "off"
  /\ crashes' = crashes + 1
  /\ main' = "off" /\ j' = 0 /\ i' = 0
  /\ iter' = [n \in {BEG, END} |-> ERASED]
  /\ UNCHANGED <<page, then, saves, broken>>

IterNext ==
  \/ BootReset \/ DB_init \/ DB_reset_eeprom \/ DB_iterator_init_eeprom
  \/ AppendBatch \/ StartSave \/ Scan \/ WriteValue \/ WriteTag
  \/ FirmwareUpdate \/ Crash

IterSpec == IterInit /\ [][IterNext]_iterVars

-----------------------------------------------------------------------------
IterTypeOK ==
  /\ code \in {"blank", "AC01", "FWDW", "UPDA", "FAIL"}
  /\ word \in [Word -> Values]
  /\ iter \in [{BEG, END} -> Values]
  /\ main \in {"off", "code", "init", "run", "scan", "value", "tag"}
  /\ j \in {BEG, END} /\ i \in 0 .. LEN - 1
  /\ then \in {"off", "run"}
  /\ crashes \in 0 .. MaxCrashes /\ saves \in 0 .. MaxSaves
  /\ broken \in BOOLEAN

(***************************************************************************)
(* A crash at any point of a save, however often, leaves iterators that    *)
(* the next start finds and that delimit a stretch of records; only a      *)
(* reset of the store that was cut short can spoil them.                   *)
(***************************************************************************)
SavedIteratorsUsable ==
  ~broken => Usable([n \in {BEG, END} |-> Read(n, ERASED)])

(***************************************************************************)
(* The overlapping slot ranges do not disturb each other: writing one      *)
(* iterator leaves the stored value of the other alone.                    *)
(***************************************************************************)
SlotsDoNotInterfere ==
  [][\A n \in {BEG, END} :
       ~broken /\ ~broken' /\ Read(n, ERASED)' # Read(n, ERASED) => main = "value" /\ j = n]_iterVars

(***************************************************************************)
(* Across starts, saves and crashes the page is a pair of registers        *)
(* replaced BEGIN first.                                                   *)
(***************************************************************************)
Pair == INSTANCE IterPair WITH
          Iterators <- Values,
          ram   <- [b |-> iter[BEG], e |-> iter[END]],
          saved <- [b |-> Read(BEG, ERASED), e |-> Read(END, ERASED)],
          void  <- broken

ImplementsIterPair == Pair!Spec
=============================================================================
