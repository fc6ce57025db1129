----------------------------- MODULE Transmission_proofs -----------------------------
(***************************************************************************)
(* Theorems about the transmission of data: the senders of the datalogger  *)
(* and, from "Sim900" on, the driver of the modem they send with.          *)
(*                                                                         *)
(* Theorems about Sender for every size of the partition, length of the    *)
(* queue and number of failures and restarts: a record flagged as sent has *)
(* been received, the server gets a record twice only after a failure or a *)
(* restart, and no walk begins at the null iterator.                       *)
(*                                                                         *)
(* Record i is in slot (i - 1) % N, so records that differ by less than N  *)
(* are in different slots (ModEq).  A walk back passes every slot (Reaches) *)
(* and halts; what it queues is the records to be sent, each once          *)
(* (QueuedIs, QueuedOnce), and no step but the flagging takes a record     *)
(* from the queue as long as nothing fails.                                *)
(***************************************************************************)
EXTENDS Sender, Sim900, FiniteSetTheorems, SequenceTheorems, WellFoundedInduction, TLAPS

-----------------------------------------------------------------------------
(* Slots: the remainders by the size of the partition. *)

LEMMA ModIs ==
  ASSUME NEW x \in Int
  PROVE  x % N \in Slots /\ x \div N \in Int /\ x = N * (x \div N) + (x % N)
BY SizesAssumption DEF Slots

LEMMA ModOf ==
  ASSUME NEW q \in Int, NEW k \in Slots
  PROVE  (N * q + k) % N = k
BY SizesAssumption DEF Slots

LEMMA ModSmall ==
  ASSUME NEW k \in Slots
  PROVE  k % N = k
BY SizesAssumption DEF Slots

\* A sum may be reduced before or after a term is added.
LEMMA ModAdd ==
  ASSUME NEW x \in Int, NEW n \in Int
  PROVE  ((x % N) + n) % N = (x + n) % N
<1>. DEFINE q == x \div N
            r == x % N
            p == (r + n) \div N
            s == (r + n) % N
<1>1. q \in Int /\ r \in Int /\ x = N * q + r
  BY ModIs DEF Slots
<1>2. p \in Int /\ s \in Slots /\ r + n = N * p + s
  BY <1>1, ModIs
<1>. HIDE DEF q, r, p, s
<1>3. x + n = N * (q + p) + s
  <2>1. N * (q + p) = N * q + N * p /\ N * q \in Int /\ N * p \in Int /\ s \in Int
    BY <1>1, <1>2, SizesAssumption DEF Slots
  <2>. QED
    BY <2>1, <1>1, <1>2
<1>4. (N * (q + p) + s) % N = s
  <2>1. q + p \in Int
    BY <1>1, <1>2
  <2>. QED
    BY <2>1, <1>2, ModOf
<1>. QED
  BY <1>3, <1>4 DEF s, r

\* Numbers that differ by less than N have different remainders.
LEMMA ModEq ==
  ASSUME NEW a \in Int, NEW b \in Int, a % N = b % N, a - b < N, b - a < N
  PROVE  a = b
<1>. DEFINE p == a \div N
            q == b \div N
            r == a % N
<1>1. p \in Int /\ q \in Int /\ r \in Int /\ a = N * p + r /\ b = N * q + r
  BY ModIs DEF Slots
<1>. HIDE DEF p, q, r
<1>2. a - b = N * (p - q)
  <2>1. N * (p - q) = N * p - N * q /\ N * p \in Int /\ N * q \in Int
    BY <1>1, SizesAssumption
  <2>. QED
    BY <2>1, <1>1
<1>. DEFINE d == p - q
<1>3. d \in Int /\ a - b = N * d
  BY <1>1, <1>2
<1>. HIDE DEF d
<1>4. ASSUME d >= 1 PROVE N * d >= N
  BY <1>4, <1>3, SizesAssumption
<1>5. ASSUME d <= -1 PROVE N * d <= -N
  BY <1>5, <1>3, SizesAssumption
<1>6. d = 0
  <2>1. N * d \in Int
    BY <1>3, SizesAssumption
  <2>. QED
    BY <2>1, <1>3, <1>4, <1>5, SizesAssumption
<1>. QED
  BY <1>6, <1>3, SizesAssumption

LEMMA BackIs ==
  ASSUME NEW x \in Int, NEW n \in Int
  PROVE  Back(x, n) \in Slots /\ Back(x % N, n) = (x - n) % N
<1>1. Back(x, n) \in Slots
  BY ModIs DEF Back
<1>2. ((x % N) + (-n)) % N = (x + (-n)) % N
  BY ModAdd
<1>3. x % N \in Int
  BY ModIs DEF Slots
<1>. QED
  BY <1>1, <1>2, <1>3 DEF Back

LEMMA ForwardIs ==
  ASSUME NEW x \in Int
  PROVE  Forward(x % N) = (x + 1) % N
BY ModAdd DEF Forward

-----------------------------------------------------------------------------
(* The walks back. *)

\* A set of naturals that is not empty has a least element.
LEMMA Least ==
  ASSUME NEW S \in SUBSET Nat, S # {}
  PROVE  \E n \in S : \A k \in 0 .. n - 1 : k \notin S
<1>. DEFINE R == OpToRel(<, Nat)
<1>1. PICK n \in S : \A k \in S : ~ (<<k, n>> \in R)
  <2>. HIDE DEF R
  <2>1. IsWellFoundedOn(R, Nat)
    BY NatLessThanWellFounded DEF R
  <2>. QED
    BY <2>1, WFMin
<1>2. \A k \in S : ~(k < n)
  BY <1>1 DEF OpToRel
<1>. QED
  BY <1>2

\* A walk back from any slot passes every slot.
LEMMA Reaches ==
  ASSUME NEW x \in Int, NEW k \in Slots
  PROVE  \E n \in 0 .. N - 1 : Back(x, n) = k
<1>. DEFINE n == (x - k) % N
            q == (x - k) \div N
<1>1. n \in Slots /\ q \in Int /\ x - k = N * q + n
  BY ModIs DEF Slots
<1>. HIDE DEF n, q
<1>2. x - n = N * q + k
  <2>1. N * q \in Int /\ n \in Int /\ k \in Int
    BY <1>1, SizesAssumption DEF Slots
  <2>. QED
    BY <2>1, <1>1
<1>3. Back(x, n) = k
  BY <1>1, <1>2, ModOf DEF Back
<1>. QED
  BY <1>1, <1>3 DEF Slots

\* The walk of the POST halts, at the beginning at the latest.
LEMMA WalkIs ==
  ASSUME rtIter \in Slots, beg \in Slots
  PROVE  \E last \in 0 .. N :
           /\ Walk = [it |-> Back(rtIter, last), q |-> Queued(last)]
           /\ \A m \in 0 .. last - 1 : /\ Back(rtIter, m) # beg
                                       /\ Cardinality(Unsent(m)) # QUEUE_LEN
<1>. DEFINE H(n) == \/ Back(rtIter, n) = beg
                    \/ Cardinality(Unsent(n)) = QUEUE_LEN
                    \/ n > 0 /\ Old(Back(rtIter, n))
            Halting == {n \in 0 .. N : H(n)}
            last == CHOOSE n \in 0 .. N : H(n) /\ \A m \in 0 .. n - 1 : ~H(m)
<1>1. \E n \in 0 .. N - 1 : Back(rtIter, n) = beg
  BY Reaches DEF Slots
<1>2. Halting # {} /\ Halting \in SUBSET Nat
  BY <1>1, SizesAssumption
<1>3. \E n \in Halting : \A m \in 0 .. n - 1 : m \notin Halting
  <2>. HIDE DEF Halting
  <2>. QED
    BY <1>2, Least
<1>4. \E n \in 0 .. N : H(n) /\ \A m \in 0 .. n - 1 : ~H(m)
  <2>1. PICK n \in Halting : \A m \in 0 .. n - 1 : m \notin Halting
    BY <1>3
  <2>2. n \in 0 .. N /\ H(n)
    BY <2>1
  <2>3. \A m \in 0 .. n - 1 : m \in 0 .. N
    BY <2>2, SizesAssumption
  <2>. QED
    BY <2>1, <2>2, <2>3
<1>5. last \in 0 .. N /\ H(last) /\ \A m \in 0 .. last - 1 : ~H(m)
  <2>. HIDE DEF H
  <2>. QED
    BY <1>4
<1>6. Walk = [it |-> Back(rtIter, last), q |-> Queued(last)]
  BY DEF Walk, Looked
<1>. HIDE DEF last
<1>. QED
  BY <1>5, <1>6

LEMMA UnsentIs ==
  ASSUME NEW n \in Nat
  PROVE  /\ IsFiniteSet(Unsent(n)) /\ IsFiniteSet(ToSend(n))
         /\ Cardinality(Unsent(n)) \in Nat /\ Cardinality(ToSend(n)) \in Nat
         /\ Cardinality(ToSend(n)) <= Cardinality(Unsent(n))
         /\ Cardinality(Unsent(n + 1)) <= Cardinality(Unsent(n)) + 1
         /\ Cardinality(ToSend(n + 1)) <= Cardinality(ToSend(n)) + 1
         /\ Unsent(0) = {} /\ ToSend(0) = {} /\ Cardinality({}) = 0
<1>1. IsFiniteSet(1 .. n)
  BY FS_Interval
<1>2. Unsent(n) \in SUBSET (1 .. n) /\ ToSend(n) \in SUBSET Unsent(n)
  BY DEF Unsent, ToSend
<1>3. IsFiniteSet(Unsent(n))
  BY <1>1, <1>2, FS_Subset
<1>4. IsFiniteSet(ToSend(n)) /\ Cardinality(ToSend(n)) <= Cardinality(Unsent(n))
  BY <1>2, <1>3, FS_Subset
<1>5. Cardinality(Unsent(n)) \in Nat /\ Cardinality(ToSend(n)) \in Nat
  BY <1>3, <1>4, FS_CardinalityType
<1>6. ASSUME NEW A, NEW B, IsFiniteSet(A), B \in SUBSET (A \cup {n + 1})
      PROVE  Cardinality(B) <= Cardinality(A) + 1
  <2>1. /\ IsFiniteSet(A \cup {n + 1})
        /\ Cardinality(A \cup {n + 1}) \in {Cardinality(A), Cardinality(A) + 1}
    BY <1>6, FS_AddElement
  <2>2. Cardinality(B) <= Cardinality(A \cup {n + 1}) /\ IsFiniteSet(B)
    BY <1>6, <2>1, FS_Subset
  <2>3. Cardinality(A) \in Nat /\ Cardinality(B) \in Nat
    BY <1>6, <2>2, FS_CardinalityType
  <2>. QED
    BY <2>1, <2>2, <2>3
<1>7. Unsent(n + 1) \in SUBSET (Unsent(n) \cup {n + 1})
  BY DEF Unsent
<1>8. ToSend(n + 1) \in SUBSET (ToSend(n) \cup {n + 1})
  BY <1>7 DEF ToSend
<1>9. Unsent(0) = {} /\ ToSend(0) = {}
  BY DEF Unsent, ToSend
<1>10. Cardinality(Unsent(n + 1)) <= Cardinality(Unsent(n)) + 1
  BY <1>3, <1>6, <1>7
<1>11. Cardinality(ToSend(n + 1)) <= Cardinality(ToSend(n)) + 1
  BY <1>4, <1>6, <1>8
<1>. QED
  BY <1>3, <1>4, <1>5, <1>9, <1>10, <1>11, FS_EmptySet

\* The queue of a walk that ends with record n holds no more than QUEUE_LEN.
LEMMA QueueFits ==
  ASSUME NEW n \in Nat, \A m \in 0 .. n - 1 : Cardinality(Unsent(m)) # QUEUE_LEN
  PROVE  Cardinality(ToSend(n)) <= QUEUE_LEN
<1>. DEFINE C(m) == Cardinality(Unsent(m))
            Over == {m \in 0 .. n : C(m) > QUEUE_LEN}
<1>0. QUEUE_LEN \in Nat
  BY SizesAssumption
<1>1. \A m \in Nat : C(m) \in Nat /\ C(m + 1) <= C(m) + 1 /\ C(0) = 0
  BY UnsentIs
<1>. HIDE DEF C
<1>2. Over = {}
  <2>. SUFFICES ASSUME Over # {} PROVE FALSE
    OBVIOUS
  <2>1. PICK m \in Over : \A k \in 0 .. m - 1 : k \notin Over
    <3>1. Over \in SUBSET Nat
      OBVIOUS
    <3>. HIDE DEF Over
    <3>. QED
      BY <3>1, Least
  <2>2. m \in 0 .. n /\ C(m) > QUEUE_LEN
    BY <2>1
  <2>3. m # 0
    BY <2>2, <1>0, <1>1
  <2>4. m - 1 \in 0 .. n - 1 /\ m - 1 \in 0 .. m - 1 /\ m - 1 \in 0 .. n /\ (m - 1) + 1 = m
    BY <2>2, <2>3
  <2>5. C(m - 1) <= QUEUE_LEN
    BY <2>1, <2>4, <1>0, <1>1
  <2>6. C(m) <= C(m - 1) + 1 /\ C(m) \in Nat /\ C(m - 1) \in Nat
    <3>1. m - 1 \in Nat /\ m \in Nat
      BY <2>2, <2>4
    <3>2. C(m) = C((m - 1) + 1)
      BY <2>4
    <3>. QED
      BY <3>1, <3>2, <1>1
  <2>7. C(m - 1) = QUEUE_LEN
    BY <2>2, <2>5, <2>6, <1>0
  <2>. QED
    BY <2>4, <2>7 DEF C
<1>3. C(n) <= QUEUE_LEN
  BY <1>0, <1>1, <1>2
<1>4. Cardinality(ToSend(n)) <= C(n) /\ Cardinality(ToSend(n)) \in Nat
  BY UnsentIs DEF C
<1>. QED
  BY <1>0, <1>1, <1>3, <1>4

\* The queue holds the slots of the records to be sent, and no others.
LEMMA QueuedIs ==
  ASSUME rtIter \in Slots, NEW n \in Nat
  PROVE  /\ Queued(n) \in Seq(Slots) /\ Len(Queued(n)) = Cardinality(ToSend(n))
         /\ \A i \in DOMAIN Queued(n) : \E m \in ToSend(n) : Queued(n)[i] = Back(rtIter, m)
<1>. DEFINE C(m) == Cardinality(ToSend(m))
            Nth(i) == CHOOSE m \in ToSend(n) : C(m) = i
<1>1. C(n) \in Nat /\ \A m \in Nat : C(m) \in Nat /\ C(m + 1) <= C(m) + 1 /\ C(0) = 0
  BY UnsentIs
<1>2. ASSUME NEW i \in 1 .. C(n)
      PROVE  \E m \in ToSend(n) : C(m) = i
  <2>. DEFINE Enough == {m \in 0 .. n : C(m) >= i}
  <2>1. PICK m \in Enough : \A k \in 0 .. m - 1 : k \notin Enough
    <3>1. Enough \in SUBSET Nat /\ n \in Enough
      BY <1>1
    <3>. HIDE DEF Enough
    <3>. QED
      BY <3>1, Least
  <2>2. m \in 0 .. n /\ C(m) >= i /\ m # 0
    <3>. HIDE DEF C
    <3>. QED
      BY <2>1, <1>1
  <2>3. m - 1 \in Nat /\ m - 1 \in 0 .. n /\ m - 1 \in 0 .. m - 1 /\ (m - 1) + 1 = m
    BY <2>2
  <2>4. C(m - 1) < i
    <3>. HIDE DEF C
    <3>. QED
      BY <2>1, <2>3, <1>1
  <2>5. C(m) = i
    <3>1. C(m) <= C(m - 1) + 1 /\ C(m - 1) \in Nat /\ C(m) \in Nat
      <4>. HIDE DEF C
      <4>. QED
        BY <1>1, <2>3, <2>2
    <3>. HIDE DEF C
    <3>. QED
      BY <3>1, <2>2, <2>4
  <2>6. m \in ToSend(n)
    <3>. SUFFICES ASSUME m \notin ToSend(n) PROVE FALSE
      OBVIOUS
    <3>1. ToSend(m) = ToSend(m - 1)
      BY <2>2, <2>3 DEF ToSend, Unsent
    <3>. QED
      BY <3>1, <2>4, <2>5
  <2>. QED
    BY <2>5, <2>6
<1>3. \A i \in 1 .. C(n) : Nth(i) \in ToSend(n)
  <2>. HIDE DEF C
  <2>. QED
    BY <1>2
<1>4. ToSend(n) \subseteq 1 .. n
  BY DEF ToSend, Unsent
<1>. DEFINE F == [i \in 1 .. C(n) |-> Back(rtIter, Nth(i))]
<1>5. Queued(n) = F
  BY DEF Queued
<1>. HIDE DEF Nth, C
<1>6. \A i \in 1 .. C(n) : Nth(i) \in ToSend(n) /\ Back(rtIter, Nth(i)) \in Slots
  <2>. SUFFICES ASSUME NEW i \in 1 .. C(n)
                PROVE  Nth(i) \in ToSend(n) /\ Back(rtIter, Nth(i)) \in Slots
    OBVIOUS
  <2>1. rtIter \in Int
    BY DEF Slots
  <2>2. Nth(i) \in ToSend(n)
    BY <1>3
  <2>3. Nth(i) \in Int
    BY <2>2, <1>4
  <2>4. Back(rtIter, Nth(i)) \in Slots
    BY <2>1, <2>3, BackIs
  <2>. QED
    BY <2>2, <2>4
<1>7. F \in [1 .. C(n) -> Slots]
  BY <1>6
<1>8. F \in Seq(Slots) /\ Len(F) = C(n) /\ DOMAIN F = 1 .. C(n)
  <2>1. DOMAIN F = 1 .. C(n)
    OBVIOUS
  <2>. HIDE DEF F
  <2>2. F \in Seq(Slots)
    BY <1>1, <1>7, SeqDef
  <2>. QED
    BY <2>1, <2>2, <1>1, LenProperties
<1>9. \A i \in 1 .. C(n) : F[i] = Back(rtIter, Nth(i))
  OBVIOUS
<1>. HIDE DEF F
<1>. QED
  BY <1>5, <1>6, <1>8, <1>9 DEF C
Wanted(k) == ~Old(k) /\ ~("once" \in rmFlags /\ slot[k].rmap)

\* The walk of the RMAP sender halts too.
LEMMA BrowseIs ==
  ASSUME rmIter \in Slots \cup {None}, beg \in Slots
  PROVE  \E last \in 0 .. N :
           /\ Browse = [it |-> Back(rmIter, last),
                        ds |-> IF last = 0 THEN rmDs ELSE slot[Back(rmIter, last)],
                        found |-> last > 0 /\ Wanted(Back(rmIter, last))]
           /\ \A m \in 0 .. last - 1 :
                Back(rmIter, m) # beg /\ (m > 0 => ~Wanted(Back(rmIter, m)))
           /\ \/ Back(rmIter, last) = beg
              \/ last > 0 /\ (Old(Back(rmIter, last)) \/ Wanted(Back(rmIter, last)))
<1>. DEFINE H(n) == \/ Back(rmIter, n) = beg
                    \/ n > 0 /\ (Old(Back(rmIter, n)) \/ Wanted(Back(rmIter, n)))
            Halting == {n \in 0 .. N : H(n)}
            last == CHOOSE n \in 0 .. N : H(n) /\ \A m \in 0 .. n - 1 : ~H(m)
<1>1. \E n \in 0 .. N - 1 : Back(rmIter, n) = beg
  <2>1. rmIter \in Int
    BY DEF Slots, None
  <2>. QED
    BY <2>1, Reaches
<1>2. Halting # {} /\ Halting \in SUBSET Nat
  BY <1>1, SizesAssumption
<1>3. \E n \in Halting : \A m \in 0 .. n - 1 : m \notin Halting
  <2>. HIDE DEF Halting
  <2>. QED
    BY <1>2, Least
<1>4. \E n \in 0 .. N : H(n) /\ \A m \in 0 .. n - 1 : ~H(m)
  <2>1. PICK n \in Halting : \A m \in 0 .. n - 1 : m \notin Halting
    BY <1>3
  <2>2. n \in 0 .. N /\ H(n)
    BY <2>1
  <2>3. \A m \in 0 .. n - 1 : m \in 0 .. N
    BY <2>2, SizesAssumption
  <2>. QED
    BY <2>1, <2>2, <2>3
<1>5. last \in 0 .. N /\ H(last) /\ \A m \in 0 .. last - 1 : ~H(m)
  <2>. HIDE DEF H
  <2>. QED
    BY <1>4
<1>6. Browse = [it |-> Back(rmIter, last),
                ds |-> IF last = 0 THEN rmDs ELSE slot[Back(rmIter, last)],
                found |-> last > 0 /\ Wanted(Back(rmIter, last))]
  BY DEF Browse, Looked, Wanted
<1>. HIDE DEF last
<1>. QED
  BY <1>5, <1>6

-----------------------------------------------------------------------------
(* The types and the ring. *)

Records == [id : 0 .. MaxRec, sent : BOOLEAN, rmap : BOOLEAN]

\* The types; an iterator in use points between the beginning and the end
\* as long as the ring has not been filled.
Within(it) == it \in Slots /\ (nrec < N => it <= nrec)

Types ==
  /\ slot \in [Slots -> Records] /\ nrec \in 0 .. MaxRec
  /\ rt \in {"STOP", "READY"} /\ rmapStatus \in {"STOP", "READY"} /\ turn \in Turns
  /\ rtIter = None \/ Within(rtIter)
  /\ rmIter \in Slots \cup {None}
  /\ queue \in Seq(Slots) /\ Len(queue) <= QUEUE_LEN
  /\ rmFlags \subseteq {"once", "connected"} /\ rmDs \in Records
  /\ oldest \in Int
  /\ got \subseteq 1 .. nrec /\ gotTwice \subseteq got
  /\ fails \in 0 .. MaxFail /\ crashes \in 0 .. MaxCrashes

\* Record i is kept in slot (i - 1) % N.
Ring ==
  /\ end = nrec % N
  /\ beg = IF nrec < N THEN 0 ELSE (nrec + 1) % N
  /\ \A k \in Slots : /\ slot[k].id <= nrec
                      /\ IF slot[k].id = 0 THEN nrec <= k ELSE (slot[k].id - 1) % N = k

Posting ==
  /\ queue # << >> => turn = "post" /\ rt = "READY"
  /\ rt = "READY" => rtIter # None

Base == Types /\ Ring /\ Posting

LEMMA Places ==
  ASSUME Base
  PROVE  /\ beg \in Slots /\ end \in Slots /\ nrec \in Nat
         /\ rtIter \in Slots \cup {None} /\ rmIter \in Slots \cup {None}
<1>1. nrec \in Nat
  BY BoundsAssumption DEF Base, Types
<1>2. nrec % N \in Slots /\ (nrec + 1) % N \in Slots /\ 0 \in Slots
  <2>1. nrec \in Int /\ nrec + 1 \in Int /\ 0 \in Slots
    BY <1>1, SizesAssumption DEF Slots
  <2>. QED
    BY <2>1, ModIs
<1>. QED
  BY <1>1, <1>2 DEF Base, Types, Ring, Within

\* The ring does not depend on the flags.
LEMMA RingKept ==
  ASSUME Ring, nrec' = nrec, beg' = beg, end' = end,
         \A k \in Slots : slot'[k].id = slot[k].id
  PROVE  Ring'
BY DEF Ring

\* A walk back that has not passed the beginning has met records only.
LEMMA MeetsRecords ==
  ASSUME Base, NEW x \in Slots, nrec < N => x <= nrec, NEW n \in 1 .. N,
         \A m \in 0 .. n - 1 : Back(x, m) # beg
  PROVE  /\ Back(x, n) \in Slots /\ slot[Back(x, n)].id > 0
         /\ nrec < N => Back(x, n) <= nrec
<1>0. x \in Int /\ x >= 0 /\ x < N /\ N \in Nat /\ nrec \in Nat
  BY Places, SizesAssumption DEF Slots
<1>1. Back(x, n) \in Slots
  BY <1>0, BackIs
<1>2. slot[Back(x, n)].id \in Nat
  BY <1>1 DEF Base, Types, Records
<1>3. CASE nrec >= N
  BY <1>0, <1>1, <1>2, <1>3 DEF Base, Ring, Slots
<1>4. CASE nrec < N
  <2>1. beg = 0
    BY <1>4 DEF Base, Ring
  <2>2. ASSUME NEW m \in 0 .. x PROVE Back(x, m) = x - m
    <3>1. x - m \in Slots
      BY <1>0 DEF Slots
    <3>. QED
      BY <3>1, ModSmall DEF Back
  <2>3. n <= x
    BY <1>0, <2>1, <2>2
  <2>4. Back(x, n) = x - n
    BY <2>2, <2>3
  <2>. QED
    BY <1>0, <1>1, <1>2, <1>4, <2>3, <2>4 DEF Base, Ring
<1>. QED
  BY <1>0, <1>3, <1>4

LEMMA InitBase == Init => Base
<1>. SUFFICES ASSUME Init PROVE Base
  OBVIOUS
<1>. USE DEF Init
<1>1. 0 \in Slots /\ 0 % N = 0
  BY SizesAssumption, ModSmall DEF Slots
<1>2. Blank \in Records
  BY BoundsAssumption DEF Blank, Records
<1>3. slot \in [Slots -> Records] /\ rmDs \in Records
  BY <1>2
<1>4. << >> \in Seq(Slots) /\ Len(<< >>) = 0
  OBVIOUS
<1>5. Types
  BY <1>3, <1>4, SizesAssumption, BoundsAssumption DEF Types, Turns, None
<1>6. Ring
  BY <1>1, SizesAssumption DEF Ring, Blank, Slots
<1>7. Posting
  BY DEF Posting
<1>. QED
  BY <1>5, <1>6, <1>7 DEF Base

\* Of an append: the slot taken, and the iterators after it.
LEMMA StoreIs ==
  ASSUME Base, Store
  PROVE  /\ nrec' = nrec + 1 /\ nrec' \in 1 .. MaxRec /\ end \in Slots /\ end = nrec % N
         /\ end' = nrec' % N
         /\ beg' = IF nrec' < N THEN 0 ELSE (nrec' + 1) % N
         /\ slot' = [slot EXCEPT ![end] = [id |-> nrec', sent |-> FALSE, rmap |-> FALSE]]
<1>. USE DEF Store
<1>1. nrec \in Nat /\ nrec' = nrec + 1 /\ nrec' \in 1 .. MaxRec /\ end \in Slots /\ end = nrec % N
  BY Places, BoundsAssumption DEF Base, Types, Ring
<1>2. end' = nrec' % N
  BY <1>1, ForwardIs
<1>3. beg' = IF nrec' < N THEN 0 ELSE (nrec' + 1) % N
  <2>1. N \in Nat /\ N > 1
    BY SizesAssumption
  <2>2. CASE nrec' < N
    <3>1. beg = 0
      BY <1>1, <2>1, <2>2 DEF Base, Ring
    <3>2. end' = nrec'
      BY <1>1, <1>2, <2>1, <2>2, ModSmall DEF Slots
    <3>. QED
      BY <1>1, <2>2, <3>1, <3>2
  <2>3. CASE nrec' = N
    <3>1. beg = 0 /\ N % N = 0
      BY <1>1, <2>1, <2>3 DEF Base, Ring
    <3>2. beg' = Forward(nrec' % N)
      BY <1>2, <2>3, <3>1
    <3>3. Forward(nrec' % N) = (nrec' + 1) % N
      <4>1. nrec' \in Int
        BY <1>1
      <4>. QED
        BY <4>1, ForwardIs, Zenon
    <3>4. ~(nrec' < N)
      BY <1>1, <2>1, <2>3
    <3>. QED
      BY <3>2, <3>3, <3>4, Zenon
  <2>4. CASE nrec' > N
    <3>1. beg = (nrec + 1) % N
      BY <1>1, <2>1, <2>4 DEF Base, Ring
    <3>2. beg' = Forward(nrec' % N)
      BY <1>1, <1>2, <3>1
    <3>3. Forward(nrec' % N) = (nrec' + 1) % N
      <4>1. nrec' \in Int
        BY <1>1
      <4>. QED
        BY <4>1, ForwardIs, Zenon
    <3>4. ~(nrec' < N)
      BY <1>1, <2>1, <2>4
    <3>. QED
      BY <3>2, <3>3, <3>4, Zenon
  <2>5. nrec' < N \/ nrec' = N \/ nrec' > N
    BY <1>1, <2>1
  <2>. QED
    BY <2>2, <2>3, <2>4, <2>5, Zenon
<1>. QED
  BY <1>1, <1>2, <1>3

\* The records a POST looks at: its queue, and the place where it ends.
LEMMA PostIs ==
  ASSUME Base, rt = "READY"
  PROVE  /\ Within(Walk.it)
         /\ Walk.q \in Seq(Slots) /\ Len(Walk.q) <= QUEUE_LEN
         /\ \A i \in DOMAIN Walk.q : /\ Walk.q[i] \in Slots
                                     /\ ~slot[Walk.q[i]].sent
                                     /\ slot[Walk.q[i]].id \in 1 .. nrec
<1>1. Within(rtIter) /\ rtIter \in Slots /\ beg \in Slots /\ nrec \in Nat
  BY Places DEF Base, Posting, Types, Within
<1>2. PICK last \in 0 .. N :
        /\ Walk = [it |-> Back(rtIter, last), q |-> Queued(last)]
        /\ \A m \in 0 .. last - 1 : /\ Back(rtIter, m) # beg
                                    /\ Cardinality(Unsent(m)) # QUEUE_LEN
  BY <1>1, WalkIs
<1>0. last \in Nat /\ N \in Nat
  BY SizesAssumption
<1>3. ASSUME NEW n \in 1 .. last
      PROVE  /\ Back(rtIter, n) \in Slots /\ slot[Back(rtIter, n)].id \in 1 .. nrec
             /\ nrec < N => Back(rtIter, n) <= nrec
  <2>1. n \in 1 .. N /\ \A m \in 0 .. n - 1 : m \in 0 .. last - 1
    BY <1>0
  <2>2. /\ Back(rtIter, n) \in Slots /\ slot[Back(rtIter, n)].id > 0
        /\ nrec < N => Back(rtIter, n) <= nrec
    BY <1>1, <1>2, <2>1, MeetsRecords DEF Within
  <2>3. slot[Back(rtIter, n)].id <= nrec /\ slot[Back(rtIter, n)].id \in Nat
    BY <2>2 DEF Base, Ring, Types, Records
  <2>. QED
    BY <1>1, <2>2, <2>3
<1>4. Within(Walk.it)
  <2>1. CASE last = 0
    <3>1. rtIter - 0 = rtIter
      BY <1>1 DEF Slots
    <3>2. Back(rtIter, 0) = rtIter
      BY <1>1, <3>1, ModSmall DEF Back
    <3>. QED
      BY <1>1, <1>2, <2>1, <3>2
  <2>2. CASE last \in 1 .. last
    BY <1>2, <1>3, <2>2 DEF Within
  <2>. QED
    BY <1>0, <2>1, <2>2
<1>5. /\ Queued(last) \in Seq(Slots) /\ Len(Queued(last)) = Cardinality(ToSend(last))
      /\ \A i \in DOMAIN Queued(last) : \E m \in ToSend(last) : Queued(last)[i] = Back(rtIter, m)
  BY <1>0, <1>1, QueuedIs
<1>6. Cardinality(ToSend(last)) <= QUEUE_LEN
  BY <1>0, <1>2, QueueFits
<1>7. \A m \in ToSend(last) : m \in 1 .. last /\ ~slot[Back(rtIter, m)].sent
  BY DEF ToSend, Unsent
<1>8. Walk.q = Queued(last)
  BY <1>2
<1>. QED
  BY <1>3, <1>4, <1>5, <1>6, <1>7, <1>8

\* What the server has after a POST.
Payload(q) == {slot[q[n]].id : n \in 1 .. (IF Len(q) < Fit THEN Len(q) ELSE Fit)}

LEMMA ReceiveIs ==
  ASSUME Base, NEW q \in Seq(Slots), Receive(q),
         \A i \in DOMAIN q : slot[q[i]].id \in 1 .. nrec
  PROVE  got' = got \cup Payload(q) /\ gotTwice' = gotTwice \cup (got \cap Payload(q))
         /\ got' \subseteq 1 .. nrec /\ gotTwice' \subseteq got'
<1>1. got' = got \cup Payload(q) /\ gotTwice' = gotTwice \cup (got \cap Payload(q))
  BY DEF Receive, Payload
<1>2. \A n \in 1 .. (IF Len(q) < Fit THEN Len(q) ELSE Fit) : n \in DOMAIN q
  BY SizesAssumption, LenProperties
<1>. QED
  BY <1>1, <1>2 DEF Payload, Base, Types

\* The iterator of the RMAP sender, and the record it selects.
LEMMA RmapIs ==
  ASSUME Base
  PROVE  /\ Browse.it \in Slots /\ Browse.ds \in Records
         /\ Within(rmIter) => Within(Browse.it)
         /\ Within(rmIter) /\ Browse.found =>
              slot[Browse.it].id > 0 /\ Browse.ds = slot[Browse.it] /\ ~Old(Browse.it)
<1>1. /\ rmIter \in Slots \cup {None} /\ beg \in Slots /\ nrec \in Nat /\ N \in Nat
      /\ slot \in [Slots -> Records] /\ rmDs \in Records
  BY Places, SizesAssumption DEF Base, Types
<1>2. PICK last \in 0 .. N :
        /\ Browse = [it |-> Back(rmIter, last),
                     ds |-> IF last = 0 THEN rmDs ELSE slot[Back(rmIter, last)],
                     found |-> last > 0 /\ Wanted(Back(rmIter, last))]
        /\ \A m \in 0 .. last - 1 : Back(rmIter, m) # beg
  BY <1>1, BrowseIs
<1>3. Back(rmIter, last) \in Slots
  <2>1. rmIter \in Int /\ last \in Int
    BY <1>1 DEF Slots, None
  <2>. QED
    BY <2>1, BackIs
<1>4. CASE last = 0
  <2>1. Browse.it \in Slots /\ Browse.ds \in Records
    BY <1>1, <1>2, <1>3, <1>4
  <2>3. ~Browse.found
    <3>1. Browse.found = (last > 0 /\ Wanted(Back(rmIter, last)))
      BY <1>2, Zenon
    <3>2. ~(last > 0)
      BY <1>4
    <3>. QED
      BY <3>1, <3>2, Zenon
  <2>2. ASSUME Within(rmIter) PROVE Within(Browse.it)
    <3>1. rmIter \in Slots /\ rmIter - 0 = rmIter
      BY <1>1, <2>2 DEF Slots, Within
    <3>2. Back(rmIter, 0) = rmIter
      BY <3>1, ModSmall DEF Back
    <3>. QED
      BY <1>2, <1>4, <2>2, <3>2
  <2>. QED
    BY <2>1, <2>2, <2>3
<1>5. CASE last \in 1 .. N
  <2>1. Browse.it \in Slots /\ Browse.ds = slot[Browse.it] /\ Browse.ds \in Records
        /\ Browse.it = Back(rmIter, last)
    BY <1>1, <1>2, <1>3, <1>5
  <2>2. Browse.found <=> Wanted(Browse.it)
    <3>1. Browse.found = (last > 0 /\ Wanted(Back(rmIter, last)))
      BY <1>2, Zenon
    <3>2. last > 0
      BY <1>5
    <3>. QED
      BY <3>1, <3>2, <2>1
  <2>3. ASSUME Within(rmIter) PROVE Within(Browse.it) /\ slot[Browse.it].id > 0
    <3>1. rmIter \in Slots /\ (nrec < N => rmIter <= nrec)
      BY <2>3 DEF Within
    <3>2. slot[Back(rmIter, last)].id > 0 /\ (nrec < N => Back(rmIter, last) <= nrec)
      BY <1>2, <1>5, <3>1, MeetsRecords
    <3>. QED
      BY <2>1, <3>2 DEF Within
  <2>. QED
    BY <2>1, <2>2, <2>3 DEF Wanted
<1>. QED
  BY <1>1, <1>4, <1>5

LEMMA StepBase == Base /\ [Next]_vars => Base'
<1>. SUFFICES ASSUME Base, [Next]_vars PROVE Base'
  OBVIOUS
<1>. USE DEF vars, db, post, rmap, hist
<1>0. Types /\ Ring /\ Posting
  BY DEF Base
<1>1. CASE UNCHANGED vars
  BY <1>0, <1>1 DEF Base, Types, Within, Records, Slots, Turns, Ring, Posting
<1>2. CASE Store
  <2>1. /\ nrec' = nrec + 1 /\ nrec' \in 1 .. MaxRec /\ end \in Slots /\ end = nrec % N
        /\ end' = nrec' % N
        /\ beg' = IF nrec' < N THEN 0 ELSE (nrec' + 1) % N
        /\ slot' = [slot EXCEPT ![end] = [id |-> nrec', sent |-> FALSE, rmap |-> FALSE]]
    BY <1>2, StoreIs
  <2>2. UNCHANGED <<turn, post, rmap, oldest, hist, fails, crashes>>
    BY <1>2 DEF Store
  <2>3. nrec \in Nat /\ N \in Nat /\ MaxRec \in Nat
    BY Places, SizesAssumption, BoundsAssumption
  <2>4. Types'
    <3>1. slot' \in [Slots -> Records]
      <4>1. [id |-> nrec', sent |-> FALSE, rmap |-> FALSE] \in Records
        BY <2>1, <2>3 DEF Records
      <4>. QED
        BY <1>0, <2>1, <4>1 DEF Types
    <3>2. \A k : Within(k) => (k \in Slots /\ (nrec' < N => k <= nrec'))
      BY <2>1, <2>3, SizesAssumption DEF Within, Slots
    <3>3. rtIter' = None \/ Within(rtIter)'
      BY <1>0, <2>2, <3>2 DEF Types, Within
    <3>4. got' \subseteq 1 .. nrec'
      BY <1>0, <2>1, <2>2, <2>3 DEF Types
    <3>. QED
      BY <1>0, <2>1, <2>2, <3>1, <3>3, <3>4, <2>3 DEF Types
  <2>5. Ring'
    <3>1. ASSUME NEW k \in Slots
          PROVE  /\ slot'[k].id <= nrec'
                 /\ IF slot'[k].id = 0 THEN nrec' <= k ELSE (slot'[k].id - 1) % N = k
      <4>0. slot[k] \in Records /\ slot \in [Slots -> Records] /\ slot[k].id \in Nat /\ k \in Nat
        BY <1>0, <2>3 DEF Types, Records, Slots
      <4>1. CASE k = end
        <5>1. slot'[k].id = nrec' /\ nrec' - 1 = nrec /\ nrec' # 0
          BY <2>1, <2>3, <4>0, <4>1
        <5>. QED
          BY <2>1, <2>3, <4>1, <5>1
      <4>2. CASE k # end
        <5>1. slot'[k] = slot[k]
          BY <2>1, <4>0, <4>2
        <5>2. slot[k].id <= nrec /\ IF slot[k].id = 0 THEN nrec <= k ELSE (slot[k].id - 1) % N = k
          BY <1>0 DEF Ring
        <5>3. nrec = k => end = k
          BY <2>1, ModSmall
        <5>. QED
          BY <2>1, <2>3, <4>0, <4>2, <5>1, <5>2, <5>3
      <4>. QED
        BY <4>1, <4>2
    <3>. QED
      BY <2>1, <3>1 DEF Ring
  <2>6. Posting'
    BY <1>0, <2>2 DEF Posting
  <2>. QED
    BY <2>4, <2>5, <2>6 DEF Base
<1>3. CASE Prepare
  <2>. USE <1>3 DEF Prepare
  <2>1. Within(end)
    <3>1. nrec < N => nrec % N = nrec
      BY Places, ModSmall, SizesAssumption DEF Slots
    <3>. QED
      BY <1>0, <3>1, Places, SizesAssumption DEF Within, Ring
  <2>2. Types'
    <3>1. oldest' \in Int
      BY Places, SizesAssumption
    <3>. QED
      BY <1>0, <2>1, <3>1 DEF Types, Within, Turns, Records, Slots
  <2>3. Ring'
    BY <1>0 DEF Ring
  <2>4. Posting'
    BY <1>0, Places DEF Posting, None, Slots
  <2>. QED
    BY <2>2, <2>3, <2>4 DEF Base
<1>4. CASE Restart
  <2>. USE <1>4 DEF Restart
  <2>1. Types'
    <3>1. Blank \in Records
      BY BoundsAssumption DEF Blank, Records
    <3>2. << >> \in Seq(Slots) /\ Len(<< >>) = 0
      OBVIOUS
    <3>3. crashes' \in 0 .. MaxCrashes
      BY <1>0, BoundsAssumption DEF Types
    <3>. QED
      BY <1>0, <3>1, <3>2, <3>3, SizesAssumption DEF Types, Turns
  <2>2. Ring'
    BY <1>0 DEF Ring
  <2>3. Posting'
    BY DEF Posting
  <2>. QED
    BY <2>1, <2>2, <2>3 DEF Base
<1>5. ASSUME NEW t1 \in Turns, NEW t2 \in Turns, Pass(t1, t2), t1 = "post" => rt = "STOP"
      PROVE  Base'
  <2>1. Types'
    BY <1>0, <1>5 DEF Pass, Types, Within
  <2>2. Ring'
    BY <1>0, <1>5 DEF Pass, Ring
  <2>3. Posting'
    BY <1>0, <1>5 DEF Pass, Posting
  <2>. QED
    BY <2>1, <2>2, <2>3 DEF Base
<1>6. CASE PostNothing
  <2>. USE <1>6 DEF PostNothing, StopPost
  <2>1. Types'
    <3>1. << >> \in Seq(Slots) /\ Len(<< >>) = 0
      OBVIOUS
    <3>. QED
      BY <1>0, <3>1, SizesAssumption DEF Types, Turns, Within
  <2>2. Ring'
    BY <1>0 DEF Ring
  <2>3. Posting'
    BY DEF Posting
  <2>. QED
    BY <2>1, <2>2, <2>3 DEF Base
<1>7. CASE Post
  <2>. USE <1>7 DEF Post, PostTurn
  <2>1. /\ Within(rtIter') /\ queue' = Walk.q /\ queue' \in Seq(Slots) /\ Len(queue') <= QUEUE_LEN
        /\ \A i \in DOMAIN queue' : slot[queue'[i]].id \in 1 .. nrec
    BY PostIs
  <2>2. got' \subseteq 1 .. nrec /\ gotTwice' \subseteq got'
    BY <2>1, ReceiveIs
  <2>3. Types'
    BY <1>0, <2>1, <2>2 DEF Types, Within
  <2>4. Ring'
    BY <1>0 DEF Ring
  <2>5. Posting'
    BY <2>1, SizesAssumption DEF Posting, Within, None, Slots
  <2>. QED
    BY <2>3, <2>4, <2>5 DEF Base
<1>8. CASE PostFails
  <2>. USE <1>8 DEF PostFails, PostTurn, StopPost
  <2>1. Walk.q \in Seq(Slots) /\ \A i \in DOMAIN Walk.q : slot[Walk.q[i]].id \in 1 .. nrec
    BY PostIs
  <2>2. got' \subseteq 1 .. nrec /\ gotTwice' \subseteq got'
    BY <1>0, <2>1, ReceiveIs DEF Types
  <2>3. Types'
    <3>1. << >> \in Seq(Slots) /\ Len(<< >>) = 0
      OBVIOUS
    <3>. QED
      BY <1>0, <2>2, <3>1, SizesAssumption, BoundsAssumption DEF Types, Turns, Within
  <2>4. Ring'
    BY <1>0 DEF Ring
  <2>5. Posting'
    BY DEF Posting
  <2>. QED
    BY <2>3, <2>4, <2>5 DEF Base
<1>9. CASE MarkSent
  <2>. USE <1>9 DEF MarkSent, StopPost
  <2>1. /\ Head(queue) \in Slots /\ Tail(queue) \in Seq(Slots) /\ Len(Tail(queue)) = Len(queue) - 1
        /\ Len(queue) \in Nat /\ << >> \in Seq(Slots) /\ Len(<< >>) = 0
    BY <1>0, HeadTailProperties, LenProperties DEF Types
  <2>2. slot' \in [Slots -> Records] /\ \A k \in Slots : slot'[k].id = slot[k].id
    BY <1>0, <2>1 DEF Types, Records
  <2>3. queue' \in Seq(Slots) /\ Len(queue') <= QUEUE_LEN
    <3>1. queue' = Tail(queue) \/ queue' = << >>
      OBVIOUS
    <3>2. Len(queue) <= QUEUE_LEN /\ QUEUE_LEN \in Nat
      BY <1>0, SizesAssumption DEF Types
    <3>3. CASE queue' = Tail(queue)
      <4>1. Len(Tail(queue)) <= QUEUE_LEN
        BY <2>1, <3>2
      <4>. QED
        BY <2>1, <3>3, <4>1, Zenon
    <3>4. CASE queue' = << >>
      <4>1. Len(<< >>) <= QUEUE_LEN
        BY <2>1, <3>2
      <4>. QED
        BY <2>1, <3>4, <4>1, Zenon
    <3>. QED
      BY <3>1, <3>3, <3>4
  <2>4. /\ rt' \in {"STOP", "READY"} /\ rmapStatus' \in {"STOP", "READY"} /\ turn' \in Turns
        /\ rtIter' \in {rtIter, None}
    BY <1>0 DEF Types, Turns
  <2>5. Types'
    BY <1>0, <2>2, <2>3, <2>4 DEF Types, Within
  <2>6. Ring'
    BY <1>0, <2>2, RingKept
  <2>7. Posting'
    BY <1>0 DEF Posting
  <2>. QED
    BY <2>5, <2>6, <2>7 DEF Base
<1>10. CASE RmapNoLink
  <2>. USE <1>10 DEF RmapNoLink
  <2>1. Types'
    BY <1>0, BoundsAssumption DEF Types, Turns, Within
  <2>2. Ring'
    BY <1>0 DEF Ring
  <2>3. Posting'
    BY <1>0 DEF Posting, RmapTurn
  <2>. QED
    BY <2>1, <2>2, <2>3 DEF Base
<1>11. CASE RmapSelect
  <2>. USE <1>11 DEF RmapSelect
  <2>1. /\ rmDs' \in Records /\ rmFlags' \subseteq {"once", "connected"}
        /\ rmapStatus' \in {"STOP", "READY"} /\ turn' \in Turns
    BY <1>0, RmapIs DEF Types, Turns
  <2>2. rmIter' \in Slots \cup {None}
    BY RmapIs
  <2>3. Types'
    BY <1>0, <2>1, <2>2 DEF Types, Within
  <2>4. Ring'
    BY <1>0 DEF Ring
  <2>5. Posting'
    BY <1>0 DEF Posting, RmapTurn
  <2>. QED
    BY <2>3, <2>4, <2>5 DEF Base
<1>12. CASE RmapNothing
  <2>. USE <1>12 DEF RmapNothing
  <2>1. Types'
    BY <1>0 DEF Types, Turns, Within
  <2>2. Ring'
    BY <1>0 DEF Ring
  <2>3. Posting'
    BY <1>0 DEF Posting, RmapTurn, Iterating
  <2>. QED
    BY <2>1, <2>2, <2>3 DEF Base
<1>13. CASE RmapSend
  <2>. USE <1>13 DEF RmapSend
  <2>1. /\ rmIter' \in Slots /\ rmDs' \in Records /\ rmFlags' \subseteq {"once", "connected"}
        /\ rmapStatus' \in {"STOP", "READY"} /\ turn' \in Turns
    BY <1>0, RmapIs DEF Types, Turns
  <2>2. slot' \in [Slots -> Records] /\ \A k \in Slots : slot'[k].id = slot[k].id
    <3>1. CASE slot' = [slot EXCEPT ![Browse.it].rmap = TRUE]
      BY <1>0, <3>1, RmapIs DEF Types, Records
    <3>2. CASE slot' = slot
      BY <1>0, <3>2 DEF Types
    <3>. QED
      BY <3>1, <3>2
  <2>3. fails' \in 0 .. MaxFail
    BY <1>0, BoundsAssumption DEF Types
  <2>4. Types'
    BY <1>0, <2>1, <2>2, <2>3 DEF Types, Within
  <2>5. Ring'
    BY <1>0, <2>2, RingKept
  <2>6. Posting'
    BY <1>0 DEF Posting, Iterating, RmapTurn
  <2>. QED
    BY <2>4, <2>5, <2>6 DEF Base
<1>. QED
  BY <1>1, <1>2, <1>3, <1>4, <1>5, <1>6, <1>7, <1>8, <1>9, <1>10, <1>11, <1>12, <1>13
    DEF Next, Loop, Turns

\* The types and the places of the records are kept by every step.
THEOREM BaseHolds == Spec => []Base
BY InitBase, StepBase, PTL DEF Spec

-----------------------------------------------------------------------------
(* What has been sent. *)

\* What has been received and is not flagged waits to be flagged.
InQueue(k) == \E n \in DOMAIN queue : queue[n] = k

OnceUntilFailure ==
  fails = 0 /\ crashes = 0 =>
    /\ gotTwice = {}
    /\ \A k \in Slots : slot[k].id \in got /\ ~slot[k].sent => InQueue(k)

QueueReceived == \A n \in DOMAIN queue : slot[queue[n]].id \in got

\* A record is flagged: the first of the queue, which is shortened by it.
LEMMA Marked ==
  ASSUME Base, MarkSent
  PROVE  /\ slot' = [slot EXCEPT ![queue[1]].sent = TRUE]
         /\ got' = got /\ gotTwice' = gotTwice /\ fails' = fails /\ crashes' = crashes
BY HeadTailProperties DEF MarkSent, hist, Base, Types

LEMMA QueueShortened ==
  ASSUME Base, MarkSent
  PROVE  /\ 1 \in DOMAIN queue /\ \A n \in DOMAIN queue : queue[n] \in Slots
         /\ \A n \in DOMAIN queue' : n + 1 \in DOMAIN queue /\ queue'[n] = queue[n + 1]
         /\ \A n \in DOMAIN queue : n # 1 => n - 1 \in DOMAIN queue' /\ queue'[n - 1] = queue[n]
<1>. USE DEF MarkSent
<1>1. queue \in Seq(Slots) /\ queue # << >>
  BY DEF Base, Types
<1>2. Len(queue) \in Nat \ {0} /\ DOMAIN queue = 1 .. Len(queue)
  BY <1>1, LenProperties, EmptySeq
<1>3. \A n \in DOMAIN queue : queue[n] \in Slots
  BY <1>1, <1>2, ElementOfSeq
<1>4. Len(queue) > 1 => queue' = Tail(queue)
  OBVIOUS
<1>5. ~(Len(queue) > 1) => queue' = << >>
  BY DEF StopPost
<1>6. /\ Tail(queue) \in Seq(Slots) /\ Len(Tail(queue)) = Len(queue) - 1
      /\ \A n \in 1 .. Len(queue) - 1 : Tail(queue)[n] = queue[n + 1]
  BY <1>1, HeadTailProperties
<1>7. DOMAIN Tail(queue) = 1 .. Len(queue) - 1
  BY <1>6, LenProperties
<1>8. \A n \in DOMAIN queue' : n + 1 \in DOMAIN queue /\ queue'[n] = queue[n + 1]
  <2>1. CASE Len(queue) > 1
    BY <1>2, <1>4, <1>6, <1>7, <2>1
  <2>2. CASE ~(Len(queue) > 1)
    BY <1>5, <2>2
  <2>. QED
    BY <2>1, <2>2
<1>9. \A n \in DOMAIN queue : n # 1 => n - 1 \in DOMAIN queue' /\ queue'[n - 1] = queue[n]
  <2>. SUFFICES ASSUME NEW n \in DOMAIN queue, n # 1
                PROVE  n - 1 \in DOMAIN queue' /\ queue'[n - 1] = queue[n]
    OBVIOUS
  <2>1. Len(queue) > 1 /\ n - 1 \in 1 .. Len(queue) - 1 /\ (n - 1) + 1 = n
    BY <1>2
  <2>2. queue' = Tail(queue)
    BY <1>4, <2>1
  <2>3. Tail(queue)[n - 1] = queue[(n - 1) + 1]
    BY <1>6, <2>1
  <2>. QED
    BY <1>7, <2>1, <2>2, <2>3
<1>. QED
  BY <1>2, <1>3, <1>8, <1>9

\* Steps that are neither an append, nor a POST that is answered, nor the
\* flagging of a record.
LEMMA OtherSteps ==
  ASSUME Base, [Next]_vars, ~Store, ~Post, ~MarkSent
  PROVE  /\ \A k \in Slots : slot'[k].id = slot[k].id /\ slot'[k].sent = slot[k].sent
         /\ got \subseteq got' /\ queue' \in {queue, << >>}
         /\ fails' = 0 /\ crashes' = 0 =>
              /\ fails = 0 /\ crashes = 0 /\ got' = got /\ gotTwice' = gotTwice /\ queue' = queue
<1>. USE DEF vars, db, post, rmap, hist
<1>0. /\ slot \in [Slots -> Records] /\ fails \in Nat /\ crashes \in Nat
      /\ queue # << >> => turn = "post" /\ rt = "READY"
  BY BoundsAssumption DEF Base, Types, Posting
<1>1. CASE UNCHANGED vars
  BY <1>1
<1>2. CASE Prepare
  BY <1>2 DEF Prepare
<1>3. CASE Restart
  BY <1>0, <1>3 DEF Restart
<1>4. ASSUME NEW t1, NEW t2, Pass(t1, t2) PROVE UNCHANGED <<db, post, hist, fails, crashes>>
  BY <1>4 DEF Pass
<1>5. CASE PostNothing
  BY <1>0, <1>5 DEF PostNothing, PostTurn, StopPost
<1>6. CASE PostFails
  BY <1>0, <1>6 DEF PostFails, StopPost, Receive
<1>7. CASE RmapNoLink \/ RmapSelect \/ RmapNothing
  BY <1>0, <1>7 DEF RmapNoLink, RmapSelect, RmapNothing
<1>8. CASE RmapSend
  <2>. USE <1>8 DEF RmapSend
  <2>1. Browse.it \in Slots
    BY RmapIs
  <2>2. \A k \in Slots : slot'[k].id = slot[k].id /\ slot'[k].sent = slot[k].sent
    <3>1. CASE slot' = [slot EXCEPT ![Browse.it].rmap = TRUE]
      BY <1>0, <2>1, <3>1 DEF Records
    <3>2. CASE slot' = slot
      BY <3>2
    <3>. QED
      BY <3>1, <3>2
  <2>. QED
    BY <1>0, <2>2
<1>. QED
  BY <1>1, <1>2, <1>3, <1>4, <1>5, <1>6, <1>7, <1>8 DEF Next, Loop

LEMMA StepReceived ==
  ASSUME Fit = QUEUE_LEN, Base, SentMeansReceived, QueueReceived, [Next]_vars
  PROVE  SentMeansReceived' /\ QueueReceived'
<1>0. slot \in [Slots -> Records] /\ queue \in Seq(Slots)
  BY DEF Base, Types
<1>1. CASE Store
  <2>1. /\ end \in Slots /\ slot' = [slot EXCEPT ![end] = [id |-> nrec', sent |-> FALSE, rmap |-> FALSE]]
        /\ got' = got /\ queue' = queue
    BY <1>1, StoreIs DEF Store, post, hist
  <2>2. queue = << >>
    BY <1>1 DEF Store, Base, Posting
  <2>3. SentMeansReceived'
    BY <1>0, <2>1 DEF SentMeansReceived, Records
  <2>4. QueueReceived'
    BY <2>1, <2>2 DEF QueueReceived
  <2>. QED
    BY <2>3, <2>4
<1>2. CASE Post
  <2>. USE <1>2 DEF Post, PostTurn, db
  <2>1. /\ Walk.q \in Seq(Slots) /\ Len(Walk.q) <= QUEUE_LEN
        /\ \A i \in DOMAIN Walk.q : slot[Walk.q[i]].id \in 1 .. nrec
    BY PostIs
  <2>2. got' = got \cup Payload(Walk.q)
    BY <2>1, ReceiveIs
  <2>3. \A i \in DOMAIN Walk.q : slot[Walk.q[i]].id \in Payload(Walk.q)
    <3>1. DOMAIN Walk.q = 1 .. Len(Walk.q) /\ Len(Walk.q) \in Nat
      BY <2>1, LenProperties
    <3>2. ~(Len(Walk.q) < Fit) => Len(Walk.q) = Fit
      BY <2>1, <3>1, SizesAssumption
    <3>. QED
      BY <3>1, <3>2 DEF Payload
  <2>4. slot' = slot /\ queue' = Walk.q
    OBVIOUS
  <2>5. SentMeansReceived'
    BY <2>2, <2>4 DEF SentMeansReceived
  <2>6. QueueReceived'
    BY <2>2, <2>3, <2>4 DEF QueueReceived
  <2>. QED
    BY <2>5, <2>6
<1>3. CASE MarkSent
  <2>1. slot' = [slot EXCEPT ![queue[1]].sent = TRUE] /\ got' = got
    BY <1>3, Marked
  <2>2. /\ 1 \in DOMAIN queue /\ \A n \in DOMAIN queue : queue[n] \in Slots
        /\ \A n \in DOMAIN queue' : n + 1 \in DOMAIN queue /\ queue'[n] = queue[n + 1]
    BY <1>3, QueueShortened
  <2>3. \A k \in Slots : slot'[k].id = slot[k].id /\ (slot'[k].sent => slot[k].sent \/ k = queue[1])
    BY <1>0, <2>1 DEF Records
  <2>4. slot[queue[1]].id \in got
    BY <2>2 DEF QueueReceived
  <2>5. SentMeansReceived'
    BY <2>1, <2>3, <2>4 DEF SentMeansReceived
  <2>6. QueueReceived'
    <3>. SUFFICES ASSUME NEW n \in DOMAIN queue' PROVE slot'[queue'[n]].id \in got'
      BY DEF QueueReceived
    <3>1. n + 1 \in DOMAIN queue /\ queue'[n] = queue[n + 1] /\ queue[n + 1] \in Slots
      BY <2>2
    <3>2. slot[queue[n + 1]].id \in got
      BY <3>1 DEF QueueReceived
    <3>. QED
      BY <2>1, <2>3, <3>1, <3>2
  <2>. QED
    BY <2>5, <2>6
<1>4. CASE ~Store /\ ~Post /\ ~MarkSent
  <2>1. /\ \A k \in Slots : slot'[k].id = slot[k].id /\ slot'[k].sent = slot[k].sent
        /\ got \subseteq got' /\ queue' \in {queue, << >>}
    BY <1>4, OtherSteps
  <2>2. SentMeansReceived'
    BY <2>1 DEF SentMeansReceived
  <2>3. QueueReceived'
    <3>1. \A n \in DOMAIN queue : queue[n] \in Slots
      BY <1>0, LenProperties, ElementOfSeq
    <3>. QED
      BY <2>1, <3>1 DEF QueueReceived
  <2>. QED
    BY <2>2, <2>3
<1>. QED
  BY <1>1, <1>2, <1>3, <1>4

LEMMA StepOnce ==
  ASSUME Base, OnceUntilFailure, [Next]_vars
  PROVE  OnceUntilFailure'
<1>. SUFFICES ASSUME fails' = 0, crashes' = 0
              PROVE  /\ gotTwice' = {}
                     /\ \A k \in Slots : slot'[k].id \in got' /\ ~slot'[k].sent => InQueue(k)'
  BY DEF OnceUntilFailure
<1>0. /\ slot \in [Slots -> Records] /\ queue \in Seq(Slots) /\ got \subseteq 1 .. nrec
      /\ nrec \in Nat
  BY Places DEF Base, Types
<1>1. CASE Store
  <2>1. /\ end \in Slots /\ slot' = [slot EXCEPT ![end] = [id |-> nrec', sent |-> FALSE, rmap |-> FALSE]]
        /\ nrec' = nrec + 1
        /\ got' = got /\ gotTwice' = gotTwice /\ queue' = queue /\ fails' = fails /\ crashes' = crashes
    BY <1>1, StoreIs DEF Store, post, hist
  <2>2. nrec + 1 \notin got
    BY <1>0
  <2>3. slot'[end].id = nrec + 1 /\ \A k \in Slots : k # end => slot'[k] = slot[k]
    BY <1>0, <2>1
  <2>4. \A k \in Slots : InQueue(k)' <=> InQueue(k)
    BY <2>1 DEF InQueue
  <2>. QED
    BY <2>1, <2>2, <2>3, <2>4 DEF OnceUntilFailure
<1>2. CASE Post
  <2>. USE <1>2 DEF Post, PostTurn, db
  <2>1. /\ Walk.q \in Seq(Slots)
        /\ \A i \in DOMAIN Walk.q : /\ Walk.q[i] \in Slots /\ ~slot[Walk.q[i]].sent
                                    /\ slot[Walk.q[i]].id \in 1 .. nrec
    BY PostIs
  <2>2. got' = got \cup Payload(Walk.q) /\ gotTwice' = gotTwice \cup (got \cap Payload(Walk.q))
    BY <2>1, ReceiveIs
  <2>3. slot' = slot /\ queue' = Walk.q /\ fails' = fails /\ crashes' = crashes
    OBVIOUS
  <2>4. gotTwice = {} /\ \A k \in Slots : slot[k].id \in got => slot[k].sent
    <3>1. \A k \in Slots : ~InQueue(k)
      BY DEF InQueue
    <3>. QED
      BY <2>3, <3>1 DEF OnceUntilFailure
  <2>5. ASSUME NEW i \in Payload(Walk.q)
        PROVE  \E n \in DOMAIN Walk.q : i = slot[Walk.q[n]].id
    <3>1. DOMAIN Walk.q = 1 .. Len(Walk.q) /\ Len(Walk.q) \in Nat /\ Fit \in Nat
      BY <2>1, LenProperties, SizesAssumption
    <3>. QED
      BY <2>5, <3>1 DEF Payload
  <2>6. got \cap Payload(Walk.q) = {}
    BY <2>1, <2>4, <2>5
  <2>7. ASSUME NEW k \in Slots, slot[k].id \in got', ~slot[k].sent
        PROVE  \E n \in DOMAIN Walk.q : Walk.q[n] = k
    <3>1. slot[k].id \in Payload(Walk.q)
      BY <2>2, <2>4, <2>7
    <3>2. PICK n \in DOMAIN Walk.q : slot[k].id = slot[Walk.q[n]].id
      BY <2>5, <3>1
    <3>3. slot[k].id # 0 /\ Walk.q[n] \in Slots
      BY <2>1, <3>2
    <3>4. k = Walk.q[n]
      BY <3>2, <3>3 DEF Base, Ring
    <3>. QED
      BY <3>4
  <2>. QED
    BY <2>2, <2>3, <2>4, <2>6, <2>7 DEF InQueue
<1>3. CASE MarkSent
  <2>1. /\ slot' = [slot EXCEPT ![queue[1]].sent = TRUE]
        /\ got' = got /\ gotTwice' = gotTwice /\ fails' = fails /\ crashes' = crashes
    BY <1>3, Marked
  <2>2. \A n \in DOMAIN queue : n # 1 => n - 1 \in DOMAIN queue' /\ queue'[n - 1] = queue[n]
    BY <1>3, QueueShortened
  <2>3. 1 \in DOMAIN queue /\ queue[1] \in Slots
    BY <1>3, QueueShortened
  <2>4. \A k \in Slots : slot'[k].id = slot[k].id /\ (~slot'[k].sent => ~slot[k].sent /\ k # queue[1])
    BY <1>0, <2>1, <2>3 DEF Records
  <2>5. gotTwice = {} /\ \A k \in Slots : slot[k].id \in got /\ ~slot[k].sent => InQueue(k)
    BY <2>1 DEF OnceUntilFailure
  <2>6. ASSUME NEW k \in Slots, slot'[k].id \in got', ~slot'[k].sent
        PROVE  InQueue(k)'
    <3>1. InQueue(k) /\ k # queue[1]
      BY <2>1, <2>4, <2>5, <2>6
    <3>2. PICK n \in DOMAIN queue : queue[n] = k
      BY <3>1 DEF InQueue
    <3>3. n # 1
      BY <3>1, <3>2
    <3>. QED
      BY <2>2, <3>2, <3>3 DEF InQueue
  <2>. QED
    BY <2>1, <2>5, <2>6
<1>4. CASE ~Store /\ ~Post /\ ~MarkSent
  <2>1. /\ \A k \in Slots : slot'[k].id = slot[k].id /\ slot'[k].sent = slot[k].sent
        /\ fails = 0 /\ crashes = 0 /\ got' = got /\ gotTwice' = gotTwice /\ queue' = queue
    BY <1>4, OtherSteps
  <2>2. \A k \in Slots : InQueue(k)' <=> InQueue(k)
    BY <2>1 DEF InQueue
  <2>. QED
    BY <2>1, <2>2 DEF OnceUntilFailure
<1>. QED
  BY <1>1, <1>2, <1>3, <1>4

(***************************************************************************)
(* A record that is flagged as sent has been received by the server,       *)
(* although the queue is flagged one record a turn, while records are      *)
(* stored over the oldest and the logger may restart                       *)
(* (send_data_with_post, datalogger.c:2061-2221), for every size of the    *)
(* ring and every length of the queue.  The text of the records queued is  *)
(* assumed to fit in the buffer; the code does not look at that.           *)
(***************************************************************************)
THEOREM FlaggedIsReceived == Fit = QUEUE_LEN => (Spec => []SentMeansReceived)
<1>. SUFFICES ASSUME Fit = QUEUE_LEN PROVE Spec => []SentMeansReceived
  OBVIOUS
<1>. DEFINE I == Base /\ SentMeansReceived /\ QueueReceived
<1>1. Init => I
  <2>. SUFFICES ASSUME Init PROVE I
    OBVIOUS
  <2>1. \A k \in Slots : slot[k] = Blank
    BY DEF Init
  <2>. QED
    BY <2>1, InitBase DEF Init, Blank, SentMeansReceived, QueueReceived
<1>2. I /\ [Next]_vars => I'
  BY StepBase, StepReceived
<1>. QED
  BY <1>1, <1>2, PTL DEF Spec

(***************************************************************************)
(* The server gets a record twice only after a transmission that failed or *)
(* a restart (send_data_with_post, datalogger.c:2061-2221): what it has    *)
(* got is flagged or in the queue, and a walk queues no record twice.      *)
(***************************************************************************)
THEOREM RepeatsAreNeeded == Spec => []NoNeedlessRepeats
<1>1. Init => OnceUntilFailure
  BY DEF Init, OnceUntilFailure
<1>2. Base /\ OnceUntilFailure /\ [Next]_vars => OnceUntilFailure'
  BY StepOnce
<1>3. OnceUntilFailure => NoNeedlessRepeats
  BY DEF OnceUntilFailure, NoNeedlessRepeats
<1>. QED
  BY <1>1, <1>2, <1>3, BaseHolds, PTL DEF Spec

-----------------------------------------------------------------------------
(* Where the walks begin, if the partition has room for the records of a   *)
(* day and of a transmission.                                              *)

\* The records there were when the transmission was prepared.
Prepared == oldest + Horizon - 1

On == "READY" \in {rt, rmapStatus}
Connected == On /\ "connected" \in rmFlags

\* Record i is in its place, and the RMAP sender has not flagged it.
Fresh(i) == slot[(i - 1) % N].id = i /\ ~slot[(i - 1) % N].rmap

\* The iterator is nulled only while both senders have stopped ...
Ready ==
  /\ On => Prepared \in Nat /\ Prepared <= nrec /\ nrec <= Prepared + Window /\ rmIter # None
  /\ rmIter = None \/ Within(rmIter)
  /\ rt = "READY" /\ Prepared = 0 => turn = "post" /\ queue = << >> /\ rtIter = beg /\ nrec = 0

\* ... because the first search after the preparation finds the newest record ...
Found ==
  /\ nrec > 0 => Fresh(nrec)
  /\ rt = "READY" /\ rmapStatus = "READY" /\ "connected" \notin rmFlags /\ Prepared > 0 =>
       rmIter = Prepared % N /\ Fresh(Prepared)

\* ... which is never flagged, since the record flagged is one further back.
Trails ==
  /\ Connected => slot[rmIter].id > 0 /\ slot[rmIter].id >= oldest /\ rmDs.id > 0
  /\ turn = "iterate" => rmapStatus = "READY" /\ Connected
  /\ rmGot \subseteq 1 .. MaxRec

Started == Ready /\ Found /\ Trails

LEMMA PreparedIs ==
  ASSUME Base
  PROVE  Prepared \in Int /\ nrec \in Nat /\ oldest \in Int /\ oldest = Prepared - Horizon + 1
BY Places, SizesAssumption DEF Base, Types, Prepared

\* What does not change the records, nor the iterator of the RMAP sender.
LEMMA FoundKept ==
  ASSUME Base, Found,
         \A k \in Slots : slot'[k].id = slot[k].id /\ slot'[k].rmap = slot[k].rmap,
         UNCHANGED <<nrec, oldest, rmIter, rmFlags>>,
         rt' = "READY" /\ rmapStatus' = "READY" => rt = "READY" /\ rmapStatus = "READY"
  PROVE  Found'
<1>1. nrec \in Int /\ Prepared \in Int
  BY PreparedIs
<1>2. (nrec - 1) % N \in Slots /\ (Prepared - 1) % N \in Slots
  BY <1>1, ModIs
<1>3. Prepared' = Prepared
  BY DEF Prepared
<1>4. Fresh(nrec)' <=> Fresh(nrec)
  BY <1>2 DEF Fresh
<1>5. Fresh(Prepared)' <=> Fresh(Prepared)
  BY <1>2, <1>3 DEF Fresh
<1>. QED
  BY <1>3, <1>4, <1>5 DEF Found

LEMMA BehindKept ==
  ASSUME Ready, Trails, On' => On, turn' # "iterate",
         \A k \in Slots : slot'[k].id = slot[k].id,
         UNCHANGED <<oldest, rmIter, rmFlags, rmDs, rmGot>>
  PROVE  Trails'
<1>1. Connected' => Connected /\ rmIter \in Slots
  BY DEF Connected, Ready, Within
<1>. QED
  BY <1>1 DEF Trails

LEMMA ReadyKept ==
  ASSUME Ready, On' => On, UNCHANGED <<nrec, oldest, rmIter>>,
         rt' = "READY" => rt = "READY" /\ (Prepared # 0 \/ UNCHANGED <<turn, queue, rtIter, beg>>)
  PROVE  Ready'
BY DEF Ready, Prepared, Within

\* The first search finds the newest record there was.
LEMMA FirstIsFound ==
  ASSUME Horizon + Window < N, Base, Ready, Found, rt = "READY", rmapStatus = "READY",
         "connected" \notin rmFlags, Prepared # 0
  PROVE  Browse.found
<1>1. /\ Prepared \in Nat \ {0} /\ Prepared <= nrec /\ nrec <= Prepared + Window
      /\ rmIter = Prepared % N /\ Fresh(Prepared) /\ rmIter \in Slots /\ beg \in Slots
      /\ nrec \in Nat /\ oldest = Prepared - Horizon + 1 /\ oldest \in Int
  BY PreparedIs, Places, ModIs DEF Ready, Found, On
<1>2. N \in Nat /\ N > 1 /\ Horizon \in Nat \ {0} /\ Window \in Nat
  BY SizesAssumption
<1>3. PICK last \in 0 .. N :
        /\ Browse = [it |-> Back(rmIter, last),
                     ds |-> IF last = 0 THEN rmDs ELSE slot[Back(rmIter, last)],
                     found |-> last > 0 /\ Wanted(Back(rmIter, last))]
        /\ \A m \in 0 .. last - 1 :
             Back(rmIter, m) # beg /\ (m > 0 => ~Wanted(Back(rmIter, m)))
        /\ \/ Back(rmIter, last) = beg
           \/ last > 0 /\ (Old(Back(rmIter, last)) \/ Wanted(Back(rmIter, last)))
  BY <1>1, BrowseIs
<1>4. rmIter # beg
  <2>1. CASE nrec < N
    <3>1. Prepared % N = Prepared
      BY <1>1, <1>2, <2>1, ModSmall DEF Slots
    <3>. QED
      BY <1>1, <2>1, <3>1 DEF Base, Ring
  <2>2. CASE nrec >= N
    <3>. SUFFICES ASSUME rmIter = beg PROVE FALSE
      OBVIOUS
    <3>1. Prepared % N = (nrec + 1) % N
      BY <1>1, <1>2, <2>2 DEF Base, Ring
    <3>2. (nrec + 1) - Prepared < N /\ Prepared - (nrec + 1) < N
      BY <1>1, <1>2
    <3>3. Prepared = nrec + 1
      BY <1>1, <3>1, <3>2, ModEq
    <3>. QED
      BY <1>1, <3>3
  <2>. QED
    BY <1>1, <1>2, <2>1, <2>2
<1>5. Back(rmIter, 0) = rmIter
  BY <1>1, ModSmall DEF Back, Slots
<1>6. Back(rmIter, 1) = (Prepared - 1) % N
  BY <1>1, BackIs
<1>7. Wanted(Back(rmIter, 1))
  BY <1>1, <1>2, <1>6 DEF Wanted, Old, Fresh
<1>8. last = 1
  <2>1. last # 0
    BY <1>3, <1>4, <1>5
  <2>2. ~(1 \in 0 .. last - 1)
    BY <1>3, <1>7
  <2>. QED
    BY <2>1, <2>2
<1>9. Browse.found = (last > 0 /\ Wanted(Back(rmIter, last)))
  BY <1>3, Zenon
<1>10. last > 0
  BY <1>8
<1>. QED
  BY <1>7, <1>8, <1>9, <1>10, Zenon

\* The record flagged is not the newest one.
LEMMA NewestIsNotFlagged ==
  ASSUME Horizon + Window < N, Base, Ready, Trails, Connected, rmIter # beg
  PROVE  Browse.it # (nrec - 1) % N
<1>1. /\ Prepared \in Nat /\ Prepared <= nrec /\ nrec <= Prepared + Window /\ rmIter \in Slots
      /\ beg \in Slots /\ nrec \in Nat /\ oldest = Prepared - Horizon + 1 /\ oldest \in Int
  BY PreparedIs, Places DEF Ready, Connected
<1>2. N \in Nat /\ N > 1 /\ Horizon \in Nat \ {0} /\ Window \in Nat
  BY SizesAssumption
<1>3. PICK last \in 0 .. N :
        /\ Browse.it = Back(rmIter, last)
        /\ \A m \in 0 .. last - 1 : Back(rmIter, m) # beg
        /\ Back(rmIter, last) = beg \/ last > 0
  BY <1>1, BrowseIs
<1>. DEFINE x == slot[rmIter].id - 1
            b == IF nrec < N THEN 0 ELSE (nrec + 1) - N
<1>4. /\ x \in Nat /\ x < nrec /\ x >= oldest - 1 /\ x % N = rmIter
  <2>1. slot[rmIter].id \in Nat /\ slot[rmIter].id <= nrec /\ slot[rmIter].id > 0
        /\ slot[rmIter].id >= oldest
    BY <1>1 DEF Base, Types, Records, Ring, Trails
  <2>2. (slot[rmIter].id - 1) % N = rmIter
    BY <1>1, <2>1 DEF Base, Ring
  <2>. QED
    BY <1>1, <2>1, <2>2
<1>5. b \in Nat /\ b <= x /\ nrec - 1 - N < b /\ b % N = beg
  <2>1. CASE nrec < N
    <3>1. 0 % N = 0
      BY <1>2, ModSmall DEF Slots
    <3>. QED
      BY <1>1, <1>2, <1>4, <2>1, <3>1 DEF Base, Ring
  <2>2. CASE nrec >= N
    <3>1. beg = (nrec + 1) % N /\ b = (nrec + 1) - N
      BY <1>1, <1>2, <2>2 DEF Base, Ring
    <3>2. Back((nrec + 1) % N, 0) = ((nrec + 1) - 0) % N
      BY <1>1, BackIs
    <3>3. ((nrec + 1) - N) % N = (nrec + 1) % N
      <4>. DEFINE q == (nrec + 1) \div N
                  r == (nrec + 1) % N
      <4>1. q \in Int /\ r \in Slots /\ nrec + 1 = N * q + r
        BY <1>1, ModIs
      <4>. HIDE DEF q, r
      <4>2. (nrec + 1) - N = N * (q - 1) + r
        <5>1. N * (q - 1) = N * q - N /\ N * q \in Int /\ r \in Int
          BY <1>2, <4>1 DEF Slots
        <5>. QED
          BY <1>1, <1>2, <4>1, <5>1
      <4>3. (N * (q - 1) + r) % N = r
        BY <4>1, ModOf
      <4>. QED
        BY <4>2, <4>3 DEF r
    <3>4. b <= x /\ b \in Nat /\ nrec - 1 - N < b
      BY <1>1, <1>2, <1>4, <2>2, <3>1
    <3>. QED
      BY <3>1, <3>3, <3>4
  <2>. QED
    BY <1>1, <1>2, <2>1, <2>2
<1>. HIDE DEF x, b
<1>6. \A m \in Int : Back(rmIter, m) = (x - m) % N
  BY <1>4, BackIs
<1>. SUFFICES ASSUME Browse.it = (nrec - 1) % N PROVE FALSE
  OBVIOUS
<1>7. last > 0
  <2>. SUFFICES ASSUME last = 0 PROVE FALSE
    BY <1>2
  <2>1. Back(rmIter, 0) = rmIter
    BY <1>1, ModSmall DEF Back, Slots
  <2>. QED
    BY <1>3, <2>1
<1>8. (x - last) % N = (nrec - 1) % N
  BY <1>3, <1>6
<1>9. x - last <= nrec - 1 - N
  <2>. SUFFICES ASSUME (nrec - 1) - (x - last) < N PROVE FALSE
    BY <1>1, <1>2, <1>4
  <2>1. (x - last) - (nrec - 1) < N
    BY <1>1, <1>2, <1>4, <1>7
  <2>2. x - last \in Int /\ nrec - 1 \in Int
    BY <1>1, <1>4
  <2>3. x - last = nrec - 1
    BY <1>8, <2>1, <2>2, ModEq
  <2>. QED
    BY <1>1, <1>4, <1>7, <2>3
<1>10. x - b \in 0 .. last - 1 /\ x - (x - b) = b
  BY <1>1, <1>2, <1>4, <1>5, <1>9
<1>11. Back(rmIter, x - b) = beg
  BY <1>5, <1>6, <1>10
<1>. QED
  BY <1>3, <1>10, <1>11

LEMMA StepStarted ==
  ASSUME Horizon + Window < N, Base, Base', Started, [Next]_vars
  PROVE  Started'
<1>. USE DEF vars, db, post, rmap, hist
<1>0. /\ Ready /\ Found /\ Trails
      /\ slot \in [Slots -> Records] /\ queue \in Seq(Slots) /\ rmIter \in Slots \cup {None}
      /\ queue # << >> => turn = "post" /\ rt = "READY"
      /\ beg \in Slots /\ end \in Slots /\ nrec \in Nat /\ Prepared \in Int
      /\ oldest \in Int /\ oldest = Prepared - Horizon + 1
      /\ On => rmIter \in Slots /\ Within(rmIter)
  BY Places, PreparedIs DEF Started, Base, Types, Posting, Ready
<1>a. N \in Nat /\ N > 1 /\ Horizon \in Nat \ {0} /\ Window \in Nat
  BY SizesAssumption
\* Steps that neither append, nor flag for the RMAP sender, nor prepare.
<1>1. ASSUME On' => On, turn' # "iterate",
             \A k \in Slots : slot'[k].id = slot[k].id /\ slot'[k].rmap = slot[k].rmap,
             UNCHANGED <<nrec, oldest, rmIter, rmFlags, rmDs, rmGot>>,
             rt' = "READY" /\ rmapStatus' = "READY" => rt = "READY" /\ rmapStatus = "READY",
             rt' = "READY" => rt = "READY" /\ (Prepared # 0 \/ UNCHANGED <<turn, queue, rtIter, beg>>)
      PROVE  Started'
  BY <1>0, <1>1, ReadyKept, FoundKept, BehindKept DEF Started
<1>2. CASE UNCHANGED vars
  <2>1. UNCHANGED <<slot, beg, nrec, turn, rt, rtIter, queue, rmapStatus, rmIter, rmFlags, rmDs, oldest, rmGot>>
    BY <1>2
  <2>2. Ready'
    BY <1>0, <2>1, ReadyKept DEF On
  <2>3. Found'
    BY <1>0, <2>1, FoundKept
  <2>4. Trails'
    BY <1>0, <2>1 DEF Trails, Connected, On
  <2>. QED
    BY <2>2, <2>3, <2>4 DEF Started
<1>3. CASE Store
  <2>1. /\ nrec' = nrec + 1 /\ end = nrec % N
        /\ slot' = [slot EXCEPT ![end] = [id |-> nrec', sent |-> FALSE, rmap |-> FALSE]]
    BY <1>3, StoreIs
  <2>2. /\ turn = "store" /\ UNCHANGED <<turn, post, rmap, oldest, rmGot>>
        /\ On => nrec < Prepared + Window
    BY <1>3 DEF Store, On, Prepared
  <2>3. \A k \in Slots : k # end => slot'[k] = slot[k]
    BY <1>0, <2>1
  <2>4. Prepared' = Prepared
    BY <2>2 DEF Prepared
  <2>5. \A k : Within(k) => (k \in Slots /\ (nrec' < N => k <= nrec'))
    BY <1>0, <1>a, <2>1 DEF Within, Slots
  <2>6. Ready'
    <3>1. On => Prepared' \in Nat /\ Prepared' <= nrec' /\ nrec' <= Prepared' + Window /\ rmIter' # None
      BY <1>0, <1>a, <2>1, <2>2, <2>4 DEF Ready
    <3>2. rmIter' = None \/ Within(rmIter)'
      BY <1>0, <2>2, <2>5 DEF Ready, Within
    <3>3. ~(rt = "READY" /\ Prepared = 0)
      BY <1>0, <2>2 DEF Ready
    <3>. QED
      BY <2>2, <2>4, <3>1, <3>2, <3>3 DEF Ready, On
  <2>7. Found'
    <3>1. Fresh(nrec)'
      <4>1. nrec' - 1 = nrec
        BY <1>0, <2>1
      <4>2. slot'[end].id = nrec' /\ ~slot'[end].rmap
        BY <1>0, <2>1
      <4>. QED
        BY <2>1, <4>1, <4>2 DEF Fresh
    <3>2. ASSUME rt = "READY", Prepared > 0, Fresh(Prepared)
          PROVE  Fresh(Prepared)'
      <4>1. Prepared \in Nat /\ Prepared <= nrec /\ nrec < Prepared + Window
        BY <1>0, <2>2, <3>2 DEF Ready, On
      <4>2. (Prepared - 1) % N # end
        <5>. SUFFICES ASSUME (Prepared - 1) % N = nrec % N PROVE FALSE
          BY <2>1
        <5>1. nrec - (Prepared - 1) < N /\ (Prepared - 1) - nrec < N
          BY <1>0, <1>a, <4>1
        <5>2. Prepared - 1 = nrec
          BY <1>0, <5>1, ModEq
        <5>. QED
          BY <1>0, <4>1, <5>2
      <4>3. (Prepared - 1) % N \in Slots
        BY <1>0, ModIs
      <4>4. slot'[(Prepared - 1) % N] = slot[(Prepared - 1) % N]
        BY <2>3, <4>2, <4>3
      <4>. QED
        BY <2>4, <3>2, <4>4 DEF Fresh
    <3>. QED
      BY <1>0, <2>2, <2>4, <3>1, <3>2 DEF Found
  <2>8. Trails'
    <3>1. ASSUME Connected PROVE slot'[rmIter] = slot[rmIter]
      <4>1. rmIter \in Slots /\ slot[rmIter].id > 0 /\ slot[rmIter].id >= oldest /\ On
        BY <1>0, <3>1 DEF Connected, Trails
      <4>c. slot \in [Slots -> Records]
        BY <1>0 DEF Base, Types
      <4>d. slot[rmIter].id \in Nat
        BY <4>1, <4>c DEF Records
      <4>2. slot[rmIter].id \in Nat /\ slot[rmIter].id <= nrec
        BY <1>0, <4>1, <4>d DEF Base, Ring
      <4>a. (slot[rmIter].id - 1) % N = rmIter
        BY <4>1 DEF Base, Ring
      <4>3. nrec < Prepared + Window /\ Prepared \in Nat
        BY <1>0, <2>2, <4>1 DEF Ready
      <4>. DEFINE i == slot[rmIter].id
      <4>b. i \in Nat /\ i > 0 /\ i >= oldest /\ i <= nrec /\ (i - 1) % N = rmIter
        BY <4>1, <4>2, <4>a
      <4>. HIDE DEF i
      <4>4. nrec - (i - 1) < N /\ (i - 1) - nrec < N
        BY <1>0, <1>a, <4>b, <4>3
      <4>5. rmIter # end
        <5>. SUFFICES ASSUME (i - 1) % N = nrec % N PROVE FALSE
          BY <2>1, <4>b
        <5>1. i - 1 = nrec
          BY <1>0, <4>b, <4>4, ModEq
        <5>. QED
          BY <1>0, <4>b, <5>1
      <4>. QED
        BY <2>3, <4>1, <4>5
    <3>. QED
      BY <1>0, <2>2, <3>1 DEF Trails, Connected, On
  <2>. QED
    BY <2>6, <2>7, <2>8 DEF Started
<1>4. CASE Prepare
  <2>. USE <1>4 DEF Prepare
  <2>1. Prepared' = nrec
    BY <1>0, <1>a DEF Prepared
  <2>2. end = nrec % N /\ Within(end) /\ end # None
    <3>1. nrec < N => nrec % N = nrec
      BY <1>0, <1>a, ModSmall DEF Slots
    <3>. QED
      BY <1>0, <1>a, <3>1 DEF Within, Base, Ring, None, Slots
  <2>3. Ready'
    <3>1. Prepared' \in Nat /\ Prepared' <= nrec' /\ nrec' <= Prepared' + Window /\ rmIter' # None
      BY <1>0, <1>a, <2>1, <2>2
    <3>2. Within(rmIter)'
      BY <2>2 DEF Within
    <3>3. nrec = 0 => end = beg
      BY <1>a, <2>2, ModSmall DEF Base, Ring, Slots
    <3>4. queue' = << >> /\ turn' = "post" /\ rtIter' = end /\ nrec' = nrec /\ beg' = beg
      BY <1>0
    <3>. QED
      BY <2>1, <3>1, <3>2, <3>3, <3>4 DEF Ready
  <2>4. Found'
    <3>1. Fresh(nrec)' <=> Fresh(nrec)
      BY DEF Fresh
    <3>2. Fresh(Prepared)' <=> Fresh(nrec)
      BY <2>1 DEF Fresh
    <3>. QED
      BY <1>0, <2>1, <2>2, <3>1, <3>2 DEF Found
  <2>5. Trails'
    BY <1>0 DEF Trails, Connected
  <2>. QED
    BY <2>3, <2>4, <2>5 DEF Started
<1>5. CASE Restart
  <2>. USE <1>5 DEF Restart
  <2>1. ~On'
    BY DEF On
  <2>2. Ready'
    BY <2>1 DEF Ready
  <2>3. Found'
    <3>1. Fresh(nrec)' <=> Fresh(nrec)
      BY DEF Fresh
    <3>. QED
      BY <1>0, <3>1 DEF Found
  <2>4. Trails'
    BY <1>0, <2>1 DEF Trails, Connected
  <2>. QED
    BY <2>2, <2>3, <2>4 DEF Started
<1>6. ASSUME NEW t1 \in Turns, NEW t2 \in Turns \ {"iterate"}, Pass(t1, t2), t1 = "post" => rt = "STOP"
      PROVE  Started'
  <2>1. rt = "READY" => Prepared # 0
    BY <1>0, <1>6 DEF Pass, Ready
  <2>. QED
    BY <1>1, <1>6, <2>1 DEF Pass, On
<1>7. CASE PostNothing
  BY <1>1, <1>7 DEF PostNothing, PostTurn, StopPost, On
<1>8. CASE Post
  <2>. USE <1>8 DEF Post, PostTurn
  <2>1. Prepared # 0
    <3>. SUFFICES ASSUME Prepared = 0 PROVE FALSE
      OBVIOUS
    <3>1. rtIter = beg /\ rtIter \in Slots
      BY <1>0 DEF Ready
    <3>2. PICK last \in 0 .. N :
            /\ Walk = [it |-> Back(rtIter, last), q |-> Queued(last)]
            /\ \A m \in 0 .. last - 1 : Back(rtIter, m) # beg
      BY <3>1, WalkIs
    <3>3. Back(rtIter, 0) = beg
      BY <3>1, ModSmall DEF Back, Slots
    <3>4. last = 0
      BY <3>2, <3>3
    <3>5. Queued(0) \in Seq(Slots) /\ Len(Queued(0)) = 0
      BY <3>1, QueuedIs, UnsentIs
    <3>. QED
      BY <3>2, <3>4, <3>5, EmptySeq
  <2>. QED
    BY <1>1, <2>1 DEF On
<1>9. CASE PostFails
  BY <1>1, <1>9 DEF PostFails, PostTurn, StopPost, On
<1>10. CASE MarkSent
  <2>1. queue # << >> /\ rt = "READY" /\ turn = "post" /\ Prepared # 0
    BY <1>0, <1>10 DEF MarkSent, Ready
  <2>2. \A k \in Slots : slot'[k].id = slot[k].id /\ slot'[k].rmap = slot[k].rmap
    BY <1>0, <1>10, Marked DEF Records
  <2>3. /\ UNCHANGED <<nrec, oldest, rmIter, rmFlags, rmDs, rmGot>>
        /\ turn' # "iterate"
        /\ (rt' = rt /\ rmapStatus' = rmapStatus) \/ rt' = "STOP"
    BY <1>10, <2>1 DEF MarkSent, StopPost
  <2>. QED
    BY <1>1, <2>1, <2>2, <2>3 DEF On
<1>11. CASE RmapNoLink
  <2>1. rt = "READY" => Prepared # 0
    BY <1>0, <1>11 DEF RmapNoLink, RmapTurn, Ready
  <2>. QED
    BY <1>1, <1>11, <2>1 DEF RmapNoLink, RmapTurn, On
<1>12. CASE RmapSelect
  <2>. USE <1>12 DEF RmapSelect, RmapTurn
  <2>1. On /\ Within(rmIter) /\ (rt = "READY" => Prepared # 0) /\ "connected" \notin rmFlags
    BY <1>0 DEF On, Ready
  <2>2. CASE Browse.found
    <3>1. /\ rmIter' = Browse.it /\ rmFlags' = rmFlags \cup {"connected"} /\ turn' = "iterate"
          /\ rmapStatus' = rmapStatus /\ rmDs' = Browse.ds
      BY <2>2
    <3>2. /\ Within(Browse.it) /\ slot[Browse.it].id > 0 /\ Browse.ds = slot[Browse.it]
          /\ ~Old(Browse.it) /\ Browse.it \in Slots
      BY <2>1, <2>2, RmapIs
    <3>3. slot[Browse.it].id >= oldest
      BY <1>0, <3>2 DEF Old, Records
    <3>4. Ready'
      <4>1. Browse.it # None
        BY <3>2 DEF None, Slots
      <4>2. /\ Prepared \in Nat /\ Prepared <= nrec /\ nrec <= Prepared + Window
            /\ Prepared' = Prepared /\ nrec' = nrec
        BY <1>0, <2>1 DEF Ready, Prepared
      <4>3. Within(rmIter)'
        BY <3>1, <3>2 DEF Within
      <4>. QED
        BY <2>1, <3>1, <4>1, <4>2, <4>3 DEF Ready
    <3>5. Found'
      <4>1. Fresh(nrec)' <=> Fresh(nrec)
        BY DEF Fresh
      <4>. QED
        BY <1>0, <3>1, <4>1 DEF Found
    <3>6. Trails'
      <4>1. On'
        BY <3>1 DEF On
      <4>2. Connected'
        BY <3>1, <4>1 DEF Connected
      <4>. QED
        BY <1>0, <3>1, <3>2, <3>3, <4>2 DEF Trails
    <3>. QED
      BY <3>4, <3>5, <3>6 DEF Started
  <2>3. CASE ~Browse.found
    <3>1. /\ rmIter' = None /\ rmFlags' = {} /\ turn' = "store" /\ rmapStatus' = "STOP"
      BY <2>3
    <3>2. rt # "READY"
      BY <1>0, <2>1, <2>3, FirstIsFound
    <3>3. ~On'
      BY <3>1, <3>2 DEF On
    <3>4. Ready'
      BY <3>1, <3>2, <3>3 DEF Ready
    <3>5. Found'
      <4>1. Fresh(nrec)' <=> Fresh(nrec)
        BY DEF Fresh
      <4>. QED
        BY <1>0, <3>1, <3>2, <4>1 DEF Found
    <3>6. Trails'
      BY <1>0, <3>1, <3>3 DEF Trails, Connected
    <3>. QED
      BY <3>4, <3>5, <3>6 DEF Started
  <2>. QED
    BY <2>2, <2>3
<1>13. CASE RmapNothing
  <2>1. rmapStatus = "READY" /\ (rt = "READY" => Prepared # 0)
    BY <1>0, <1>13 DEF RmapNothing, RmapTurn, Iterating, Ready, Trails
  <2>. QED
    BY <1>1, <1>13, <2>1 DEF RmapNothing, On
<1>14. CASE RmapSend
  <2>. USE <1>14 DEF RmapSend
  <2>1. Connected /\ On /\ rmapStatus = "READY" /\ rmIter # beg /\ turn # "post" /\ Within(rmIter)
    BY <1>0 DEF Iterating, RmapTurn, Trails, Connected, On
  <2>2. rt = "READY" => Prepared # 0
    BY <1>0, <2>1 DEF Ready
  <2>3. /\ Within(Browse.it) /\ Browse.it \in Slots /\ Browse.it # None
        /\ Browse.it # (nrec - 1) % N
    BY <1>0, <2>1, RmapIs, NewestIsNotFlagged DEF None, Slots
  <2>4. /\ rmIter' = Browse.it /\ rmDs' = Browse.ds /\ turn' = "store"
        /\ UNCHANGED <<beg, end, nrec, rt, rtIter, queue, oldest>>
    OBVIOUS
  <2>5. /\ \A k \in Slots : slot'[k].id = slot[k].id
        /\ \A k \in Slots : k # Browse.it => slot'[k] = slot[k]
    <3>1. CASE slot' = [slot EXCEPT ![Browse.it].rmap = TRUE]
      BY <1>0, <2>3, <3>1 DEF Records
    <3>2. CASE slot' = slot
      BY <3>2
    <3>. QED
      BY <3>1, <3>2
  <2>6. Prepared' = Prepared
    BY <2>4 DEF Prepared
  <2>7. Fresh(nrec) => Fresh(nrec)'
    <3>1. (nrec - 1) % N \in Slots
      BY <1>0, ModIs
    <3>2. slot'[(nrec - 1) % N] = slot[(nrec - 1) % N]
      BY <2>3, <2>5, <3>1
    <3>. QED
      BY <2>4, <3>2 DEF Fresh
  <2>8. rmGot' \subseteq 1 .. MaxRec
    <3>1. rmDs.id \in 1 .. MaxRec
      BY <1>0, <2>1, BoundsAssumption DEF Trails, Base, Types, Records
    <3>. QED
      BY <1>0, <3>1 DEF Trails
  <2>9. Ready'
    <3>1. Prepared \in Nat /\ Prepared <= nrec /\ nrec <= Prepared + Window
      BY <1>0, <2>1 DEF Ready
    <3>2. Within(rmIter)'
      BY <2>3, <2>4 DEF Within
    <3>. QED
      BY <2>2, <2>3, <2>4, <2>6, <3>1, <3>2 DEF Ready
  <2>10. CASE Browse.found
    <3>1. rmFlags' = rmFlags /\ rmapStatus' = rmapStatus
      BY <2>10
    <3>2. /\ slot[Browse.it].id > 0 /\ Browse.ds = slot[Browse.it] /\ ~Old(Browse.it)
      BY <2>1, <2>10, RmapIs
    <3>3. slot[Browse.it].id >= oldest
      BY <1>0, <2>3, <3>2 DEF Old, Records
    <3>4. Found'
      BY <1>0, <2>1, <2>4, <2>7, <3>1 DEF Found, Connected
    <3>5. Trails'
      BY <2>3, <2>4, <2>5, <2>8, <3>2, <3>3 DEF Trails
    <3>. QED
      BY <2>9, <3>4, <3>5 DEF Started
  <2>11. CASE ~Browse.found
    <3>1. rmFlags' = {} /\ rmapStatus' = "STOP"
      BY <2>11
    <3>2. Found'
      BY <1>0, <2>4, <2>7, <3>1 DEF Found
    <3>3. Trails'
      BY <2>4, <2>8, <3>1 DEF Trails, Connected
    <3>. QED
      BY <2>9, <3>2, <3>3 DEF Started
  <2>. QED
    BY <2>10, <2>11
<1>. QED
  BY <1>2, <1>3, <1>4, <1>5, <1>6, <1>7, <1>8, <1>9, <1>10, <1>11, <1>12, <1>13, <1>14
    DEF Next, Loop, Turns

\* Both senders begin their walks at a slot in use.
THEOREM StartedHolds == Horizon + Window < N => (Spec => []Started)
<1>. SUFFICES ASSUME Horizon + Window < N PROVE Spec => []Started
  OBVIOUS
<1>1. Init => Started
  BY DEF Init, Started, Ready, Found, Trails, On, Connected
<1>2. Base /\ Base' /\ Started /\ [Next]_vars => Started'
  BY StepStarted
<1>. QED
  BY <1>1, <1>2, BaseHolds, PTL DEF Spec

(***************************************************************************)
(* No sender walks back from the null iterator, although the two are       *)
(* started and stopped by different tasks and the search that ends without *)
(* a record nulls the iterator (send_data_with_RMAP, datalogger.c): the    *)
(* first search after a preparation finds the newest record, which is      *)
(* flagged only once a newer one has been stored.                          *)
(***************************************************************************)
THEOREM NeverWalksFromNull == Spec => []WalksFromTheRing
<1>1. CASE Horizon + Window < N
  <2>1. Base /\ Started => WalksFromTheRing
    BY DEF Base, Posting, Started, Ready, On, WalksFromTheRing
  <2>2. Spec => []Started
    BY <1>1, StartedHolds
  <2>. QED
    BY <2>1, <2>2, BaseHolds, PTL
<1>2. CASE ~(Horizon + Window < N)
  <2>1. WalksFromTheRing
    BY <1>2 DEF WalksFromTheRing
  <2>. QED
    BY <2>1, PTL
<1>. QED
  BY <1>1, <1>2

(***************************************************************************)
(* The senders keep the types of their state (datalogger.c:2061-2660): the *)
(* queue never holds more than QUEUE_LEN records, and an iterator in use   *)
(* points to a slot of the ring, as long as the partition has room for the *)
(* records of a day and of a transmission.                                 *)
(***************************************************************************)
THEOREM TypeCorrect == Horizon + Window < N => (Spec => []TypeOK)
<1>. SUFFICES ASSUME Horizon + Window < N PROVE Spec => []TypeOK
  OBVIOUS
<1>1. Base /\ Started => TypeOK
  <2>. SUFFICES ASSUME Base, Started PROVE TypeOK
    OBVIOUS
  <2>1. got \subseteq 1 .. MaxRec
    BY BoundsAssumption DEF Base, Types
  <2>. QED
    BY <2>1, Places DEF TypeOK, Base, Types, Records, Within, Started, Trails
<1>2. Spec => []Started
  BY StartedHolds
<1>. QED
  BY <1>1, <1>2, BaseHolds, PTL
-----------------------------------------------------------------------------
(***************************************************************************)
(* Sim900, for every number of batches, size of the ring and number of     *)
(* faults: the types; how often a batch is posted; that what is accepted   *)
(* is stored; that the driver keeps in step.  Most lemmas are about the    *)
(* place of the exchange in Script (Number), from which its row follows;   *)
(* Concludes is the step that depends on it.                               *)
(***************************************************************************)

(* The table of exchanges. *)

\* The names of the exchanges, in order.
LEMMA ScriptIs ==
  /\ DOMAIN Script = 1 .. 30
  /\ Script[1].name = "ready" /\ Script[2].name = "pin" /\ Script[3].name = "creg"
  /\ Script[4].name = "ready2" /\ Script[5].name = "cgatt" /\ Script[6].name = "ready3"
  /\ Script[7].name = "csq" /\ Script[8].name = "ask" /\ Script[9].name = "asked"
  /\ Script[10].name = "contype" /\ Script[11].name = "imsi" /\ Script[12].name = "imsi2"
  /\ Script[13].name = "apn" /\ Script[14].name = "open" /\ Script[15].name = "check"
  /\ Script[16].name = "checked" /\ Script[17].name = "at" /\ Script[18].name = "init"
  /\ Script[19].name = "cid" /\ Script[20].name = "url" /\ Script[21].name = "data"
  /\ Script[22].name = "body" /\ Script[23].name = "action" /\ Script[24].name = "urc"
  /\ Script[25].name = "status" /\ Script[26].name = "read" /\ Script[27].name = "length"
  /\ Script[28].name = "content" /\ Script[29].name = "term" /\ Script[30].name = "close"
BY DEF Script, X, CheckLine, Ask, QueryOperator, SetAPN, Open, HttpPost, HttpRead,
       HttpClose, BearerClose

\* How often an exchange is tried, and where its failure leads.
LEMMA RowsAre ==
  ASSUME NEW i \in 1 .. 30
  PROVE  Script[i].tries \in 1 .. 3 /\ Script[i].fails \in {"ready", "term", "close"}
<1>. DEFINE P(n) == Script[n].tries \in 1 .. 3 /\ Script[n].fails \in {"ready", "term", "close"}
<1>1. P(1) /\ P(2) /\ P(3) /\ P(4) /\ P(5) /\ P(6) /\ P(7) /\ P(8) /\ P(9) /\ P(10)
  BY DEF Script, X, CheckLine, Ask, QueryOperator, SetAPN, Open, HttpPost, HttpRead,
         HttpClose, BearerClose
<1>2. P(11) /\ P(12) /\ P(13) /\ P(14) /\ P(15) /\ P(16) /\ P(17) /\ P(18) /\ P(19) /\ P(20)
  BY DEF Script, X, CheckLine, Ask, QueryOperator, SetAPN, Open, HttpPost, HttpRead,
         HttpClose, BearerClose
<1>3. P(21) /\ P(22) /\ P(23) /\ P(24) /\ P(25) /\ P(26) /\ P(27) /\ P(28) /\ P(29) /\ P(30)
  BY DEF Script, X, CheckLine, Ask, QueryOperator, SetAPN, Open, HttpPost, HttpRead,
         HttpClose, BearerClose
<1>. HIDE DEF P
<1>4. P(i)
  BY <1>1, <1>2, <1>3
<1>. QED
  BY <1>4 DEF P

\* What is sent by the steps that change the state of the modem.
LEMMA SendsAre ==
  ASSUME NEW i \in 1 .. 30
  PROVE  /\ (Script[i].sends = "ACTION") <=> (i = 23)
         /\ (Script[i].sends = "body") <=> (i = 22)
         /\ (Script[i].sends = "DATA") <=> (i = 21)
         /\ (Script[i].sends = "INIT") <=> (i = 18)
         /\ i \in {24, 25} => Script[i].sends = NoAnswer
<1>. DEFINE P(n) == Script[n].sends
<1>1. /\ P(1) = "AT" /\ P(2) = "CPIN" /\ P(3) = "CREG" /\ P(4) = "AT" /\ P(5) = "CGATT"
      /\ P(6) = "AT" /\ P(7) = "CSQ" /\ P(8) = "STATUS" /\ P(9) = "none" /\ P(10) = "SET"
      /\ P(11) = "CIMI" /\ P(12) = "none" /\ P(13) = "SET" /\ P(14) = "OPEN"
      /\ P(15) = "STATUS" /\ P(16) = "none" /\ P(17) = "AT" /\ P(18) = "INIT"
      /\ P(19) = "PARA" /\ P(20) = "URL" /\ P(21) = "DATA" /\ P(22) = "body"
      /\ P(23) = "ACTION" /\ P(24) = "none" /\ P(25) = "none" /\ P(26) = "READ"
      /\ P(27) = "none" /\ P(28) = "none" /\ P(29) = "TERM" /\ P(30) = "CLOSE"
  BY DEF Script, X, CheckLine, Ask, QueryOperator, SetAPN, Open, HttpPost, HttpRead,
         HttpClose, BearerClose, NoAnswer
<1>. HIDE DEF P
<1>2. (P(i) = "ACTION") <=> (i = 23)
  BY <1>1
<1>3. (P(i) = "body") <=> (i = 22)
  BY <1>1
<1>4. (P(i) = "DATA") <=> (i = 21)
  BY <1>1
<1>5. (P(i) = "INIT") <=> (i = 18)
  BY <1>1
<1>6. i \in {24, 25} => P(i) = NoAnswer
  BY <1>1 DEF NoAnswer
<1>. QED
  BY <1>2, <1>3, <1>4, <1>5, <1>6 DEF P

\* What the exchanges of a post wait for, and go on with.
LEMMA PostRows ==
  /\ Script[18].awaits = Returns        /\ Script[18].passes = {"OK"}
  /\ Script[21].awaits = {"DOWNLOAD"}   /\ Script[21].passes = {"DOWNLOAD"}
  /\ Script[23].awaits = Returns        /\ Script[23].passes = {"OK"}
  /\ Script[24].awaits = {"HTTPACTION"} /\ Script[24].passes = {"HTTPACTION"}
  /\ Script[25].awaits = Lines          /\ Script[25].passes = {"200"}
BY DEF Script, X, CheckLine, Ask, QueryOperator, SetAPN, Open, HttpPost, HttpRead,
       HttpClose, BearerClose

\* Every step is in the table once.
LEMMA IndexIs ==
  ASSUME NEW s \in Steps
  PROVE  Index[s] \in 1 .. 30 /\ Script[Index[s]].name = s
<1>1. PICK i \in DOMAIN Script : Script[i].name = s
  BY DEF Steps
<1>2. Index[s] = CHOOSE j \in DOMAIN Script : Script[j].name = s
  BY DEF Index
<1>3. Index[s] \in DOMAIN Script /\ Script[Index[s]].name = s
  BY <1>1, <1>2, Zenon
<1>. QED
  BY <1>3, ScriptIs

\* No name is in the table twice.
LEMMA NamesDiffer ==
  ASSUME NEW i \in 1 .. 30, NEW j \in 1 .. 30, Script[i].name = Script[j].name
  PROVE  i = j
<1>. DEFINE P(n) == Script[n].name
<1>1. \A n \in 1 .. 30 : \A m \in 1 .. n - 1 : P(n) # P(m)
  <2>. HIDE DEF P
  <2>. QED
    BY ScriptIs DEF P
<1>2. P(i) = P(j)
  OBVIOUS
<1>. HIDE DEF P
<1>3. ~(i < j)
  <2>. SUFFICES ASSUME i < j PROVE FALSE
    OBVIOUS
  <2>1. i \in 1 .. j - 1
    OBVIOUS
  <2>. QED
    BY <1>1, <1>2, <2>1
<1>4. ~(j < i)
  <2>. SUFFICES ASSUME j < i PROVE FALSE
    OBVIOUS
  <2>1. j \in 1 .. i - 1
    OBVIOUS
  <2>. QED
    BY <1>1, <1>2, <2>1
<1>. QED
  BY <1>3, <1>4

\* Whatever fails in a post, the service is closed.
LEMMA PostRowsFail ==
  ASSUME NEW i \in 17 .. 28
  PROVE  Script[i].fails = "term"
<1>. DEFINE P(n) == Script[n].fails = "term"
<1>1. /\ P(17) /\ P(18) /\ P(19) /\ P(20) /\ P(21) /\ P(22) /\ P(23) /\ P(24) /\ P(25) /\ P(26)
      /\ P(27) /\ P(28)
  BY DEF Script, X, CheckLine, Ask, QueryOperator, SetAPN, Open, HttpPost, HttpRead,
         HttpClose, BearerClose
<1>. HIDE DEF P
<1>2. P(i)
  BY <1>1
<1>. QED
  BY <1>2 DEF P

\* Closing goes on whatever the answer.
LEMMA EndRows ==
  /\ Script[1].sends # NoAnswer
  /\ Script[29].awaits = Returns /\ Script[29].passes = Any
  /\ Script[30].awaits = Returns /\ Script[30].passes = Any
BY DEF Script, X, CheckLine, Ask, QueryOperator, SetAPN, Open, HttpPost, HttpRead,
       HttpClose, BearerClose, NoAnswer

\* The places in the table of the steps that are named elsewhere.
Number == Index[step]

\* The exchanges the driver jumps to.
LEMMA Numbers ==
  /\ {"ready", "contype", "check", "at", "term", "close"} \subseteq Steps
  /\ Index["ready"] = 1 /\ Index["contype"] = 10 /\ Index["check"] = 15
  /\ Index["at"] = 17 /\ Index["term"] = 29 /\ Index["close"] = 30
<1>1. \A i \in 1 .. 30 : Script[i].name \in Steps /\ Index[Script[i].name] = i
  <2>. SUFFICES ASSUME NEW i \in 1 .. 30
                PROVE  Script[i].name \in Steps /\ Index[Script[i].name] = i
    OBVIOUS
  <2>1. Script[i].name \in Steps
    BY ScriptIs DEF Steps
  <2>. QED
    BY <2>1, IndexIs, NamesDiffer
<1>. QED
  BY <1>1, ScriptIs

\* The place of an exchange is known from its name.
LEMMA PlaceIs ==
  ASSUME NEW s \in Steps
  PROVE  /\ Index[s] \in 1 .. 30
         /\ (s = "ready" <=> Index[s] = 1) /\ (s = "ask" <=> Index[s] = 8)
         /\ (s = "asked" <=> Index[s] = 9) /\ (s = "check" <=> Index[s] = 15)
         /\ (s = "checked" <=> Index[s] = 16) /\ (s = "init" <=> Index[s] = 18)
         /\ (s = "cid" <=> Index[s] = 19) /\ (s = "url" <=> Index[s] = 20)
         /\ (s = "data" <=> Index[s] = 21) /\ (s = "body" <=> Index[s] = 22)
         /\ (s = "action" <=> Index[s] = 23) /\ (s = "urc" <=> Index[s] = 24)
         /\ (s = "status" <=> Index[s] = 25) /\ (s = "read" <=> Index[s] = 26)
         /\ (s = "length" <=> Index[s] = 27) /\ (s = "content" <=> Index[s] = 28)
         /\ (s = "term" <=> Index[s] = 29) /\ (s = "close" <=> Index[s] = 30)
<1>1. Index[s] \in 1 .. 30 /\ Script[Index[s]].name = s
  BY IndexIs
<1>2. \A i \in 1 .. 30 : (Script[i].name = s) <=> (Index[s] = i)
  BY <1>1, NamesDiffer
<1>3. /\ (s = "ready" <=> Index[s] = 1) /\ (s = "ask" <=> Index[s] = 8)
      /\ (s = "asked" <=> Index[s] = 9) /\ (s = "check" <=> Index[s] = 15)
      /\ (s = "checked" <=> Index[s] = 16) /\ (s = "init" <=> Index[s] = 18)
  BY <1>2, ScriptIs
<1>4. /\ (s = "cid" <=> Index[s] = 19) /\ (s = "url" <=> Index[s] = 20)
      /\ (s = "data" <=> Index[s] = 21) /\ (s = "body" <=> Index[s] = 22)
      /\ (s = "action" <=> Index[s] = 23) /\ (s = "urc" <=> Index[s] = 24)
  BY <1>2, ScriptIs
<1>5. /\ (s = "status" <=> Index[s] = 25) /\ (s = "read" <=> Index[s] = 26)
      /\ (s = "length" <=> Index[s] = 27) /\ (s = "content" <=> Index[s] = 28)
      /\ (s = "term" <=> Index[s] = 29) /\ (s = "close" <=> Index[s] = 30)
  BY <1>2, ScriptIs
<1>. QED
  BY <1>1, <1>3, <1>4, <1>5

LEMMA NumberIs ==
  ASSUME step \in Steps
  PROVE  /\ Number \in 1 .. 30 /\ Row = Script[Number]
         /\ (step = "ready" <=> Number = 1) /\ (step = "ask" <=> Number = 8)
         /\ (step = "asked" <=> Number = 9) /\ (step = "check" <=> Number = 15)
         /\ (step = "checked" <=> Number = 16) /\ (step = "init" <=> Number = 18)
         /\ (step = "cid" <=> Number = 19) /\ (step = "url" <=> Number = 20)
         /\ (step = "data" <=> Number = 21) /\ (step = "body" <=> Number = 22)
         /\ (step = "action" <=> Number = 23) /\ (step = "urc" <=> Number = 24)
         /\ (step = "status" <=> Number = 25) /\ (step = "read" <=> Number = 26)
         /\ (step = "length" <=> Number = 27) /\ (step = "content" <=> Number = 28)
         /\ (step = "term" <=> Number = 29) /\ (step = "close" <=> Number = 30)
BY PlaceIs DEF Number, Row

\* The next exchange of the table.
LEMMA FollowingIs ==
  ASSUME step \in Steps, Number # 30
  PROVE  Following \in Steps /\ Index[Following] = Number + 1
<1>1. Number \in 1 .. 30 /\ Number + 1 \in 1 .. 30
  BY NumberIs
<1>2. Following = Script[Number + 1].name
  BY DEF Following, Number
<1>3. Following \in Steps
  BY <1>1, <1>2, ScriptIs DEF Steps
<1>. QED
  BY <1>1, <1>2, <1>3, IndexIs, NamesDiffer

\* What a change of the exchange sets.
LEMMA GoesIs ==
  ASSUME NEW s \in Steps, Goes(s)
  PROVE  /\ step' = s /\ Number' = Index[s] /\ try' = 1 /\ try' \in 1 .. Row'.tries
         /\ phase' = IF Script[Number'].sends = NoAnswer THEN "flush" ELSE "put"
<1>1. step' = s /\ try' = 1 /\ Number' = Index[s] /\ Row' = Script[Index[s]]
      /\ phase' = IF Script[Index[s]].sends = NoAnswer THEN "flush" ELSE "put"
  BY DEF Goes, Number, Row
<1>2. Script[Index[s]].tries \in 1 .. 3
  BY IndexIs, RowsAre
<1>. QED
  BY <1>1, <1>2

-----------------------------------------------------------------------------
(* The types. *)

Commands == [name : {Script[i].sends : i \in 1 .. 30}, post : 0 .. Posts]

DriverTypes ==
  /\ step \in Steps /\ try \in 1 .. Row.tries /\ phase \in {"put", "flush", "wait"}
  /\ line \in Bearers \cup {"other"} /\ checks \in 0 .. Checks - 1
  /\ batch \in 1 .. Posts + 1 /\ accepted \in BOOLEAN
  /\ batch > Posts =>
       ~accepted /\ (step = "close" \/ (step = "ready" /\ phase = "put"))

RingTypes ==
  /\ cells \in Seq(Words) /\ Len(cells) <= Cells /\ unread \in 0 .. Len(cells)

ModemTypes ==
  /\ wire \in Seq(Words) /\ cmds \in Seq(Commands)
  /\ bearer \in Bearers /\ http \in BOOLEAN /\ url \in BOOLEAN /\ text \in 0 .. Posts
  /\ mode \in {"command", "data"} /\ (acting = {} \/ \E k \in 0 .. Posts : acting = {k})
  /\ server \in [1 .. Posts -> Nat]

FaultTypes ==
  late \in 0 .. MaxLate /\ behind \in 0 .. MaxBehind /\ refused \in 0 .. MaxRefused

CycleTypes == DriverTypes /\ RingTypes /\ ModemTypes /\ FaultTypes

\* Where an answer, or the lack of one, leads.
LEMMA ConcludesIs ==
  ASSUME DriverTypes, phase # "put", NEW answer \in Row.awaits \cup {NoAnswer},
         Concludes(answer)
  PROVE  /\ DriverTypes' /\ try' = 1
         /\ phase' = IF Script[Number'].sends = NoAnswer THEN "flush" ELSE "put"
         /\ Number' \in {1, 10, 15, 17, 29, 30} \/ (Number' = Number + 1 /\ answer \in Row.passes)
         /\ \/ accepted' = accepted /\ batch' = batch /\ Number # 29
            \/ /\ Number = 25 /\ answer \in Row.passes
               /\ accepted' = TRUE /\ batch' = batch /\ Number' = 26
            \/ /\ Number = 29 /\ accepted' = FALSE
               /\ batch' = IF accepted THEN batch + 1 ELSE batch
<1>. USE PostsAssumption
<1>0. /\ step \in Steps /\ Number \in 1 .. 30 /\ Row = Script[Number]
      /\ line \in Bearers \cup {"other"} /\ checks \in 0 .. Checks - 1 /\ Checks \in Nat \ {0}
      /\ batch \in 1 .. Posts + 1 /\ accepted \in BOOLEAN /\ Posts \in Nat \ {0}
      /\ batch > Posts => ~accepted /\ step = "close"
  BY NumberIs DEF DriverTypes
\* Steps that change neither the batch nor what is known of it.
<1>1. ASSUME NEW s \in Steps, Goes(s), line' \in Bearers \cup {"other"},
             checks' \in 0 .. Checks - 1, accepted' = accepted, batch' = batch,
             Number # 29,
             batch > Posts => s = "ready",
             \/ Index[s] \in {1, 10, 15, 17, 29, 30}
             \/ Index[s] = Number + 1 /\ answer \in Row.passes
      PROVE  /\ DriverTypes' /\ try' = 1
             /\ phase' = IF Script[Number'].sends = NoAnswer THEN "flush" ELSE "put"
             /\ \/ Number' \in {1, 10, 15, 17, 29, 30}
                \/ Number' = Number + 1 /\ answer \in Row.passes
             /\ accepted' = accepted /\ batch' = batch
  <2>1. /\ step' = s /\ Number' = Index[s] /\ try' = 1 /\ try' \in 1 .. Row'.tries
        /\ phase' = IF Script[Number'].sends = NoAnswer THEN "flush" ELSE "put"
    BY <1>1, GoesIs
  <2>2. s = "ready" => phase' = "put"
    <3>1. s = "ready" => Number' = 1
      BY <2>1, Numbers
    <3>2. Script[1].sends # NoAnswer
      BY EndRows
    <3>. QED
      BY <2>1, <3>1, <3>2
  <2>. QED
    BY <1>0, <1>1, <2>1, <2>2 DEF DriverTypes
<1>2. Number \in {29, 30} => answer \in Row.passes
  BY <1>0, EndRows DEF Any, Lines
<1>3. CASE answer \notin Row.passes
  <2>1. Goes(Row.fails) /\ checks' = 0 /\ line' = line /\ batch' = batch /\ accepted' = accepted
    BY <1>3 DEF Concludes
  <2>2. Row.fails \in Steps /\ Index[Row.fails] \in {1, 29, 30}
    BY <1>0, RowsAre, Numbers
  <2>3. Number # 29 /\ Number # 30 /\ ~(batch > Posts)
    BY <1>0, <1>2, <1>3, NumberIs
  <2>. QED
    BY <1>0, <1>1, <2>1, <2>2, <2>3
<1>4. ASSUME answer \in Row.passes, Number # 25, Number # 29, Number # 30, NEW s \in Steps, Goes(s),
             line' \in Bearers \cup {"other"}, checks' \in 0 .. Checks - 1,
             accepted' = accepted, batch' = batch,
             Index[s] \in {1, 10, 15, 17, 29, 30} \/ Index[s] = Number + 1
      PROVE  /\ DriverTypes' /\ try' = 1
             /\ phase' = IF Script[Number'].sends = NoAnswer THEN "flush" ELSE "put"
             /\ \/ Number' \in {1, 10, 15, 17, 29, 30}
                \/ Number' = Number + 1 /\ answer \in Row.passes
             /\ accepted' = accepted /\ batch' = batch
  <2>1. ~(batch > Posts)
    BY <1>0, <1>4, NumberIs
  <2>. QED
    BY <1>0, <1>1, <1>4, <2>1
<1>5. Number # 30 => Following \in Steps /\ Index[Following] = Number + 1
  BY <1>0, FollowingIs
<1>. USE DEF Concludes, Succeeds
<1>6. CASE answer \in Row.passes /\ Number = 9
  <2>1. Asked /\ line' = line /\ checks' = checks /\ batch' = batch /\ accepted' = accepted
    BY <1>0, <1>6, NumberIs
  <2>2. Goes("contype") \/ Goes("ready") \/ Goes("at")
    BY <2>1 DEF Asked
  <2>. QED
    BY <1>0, <1>4, <1>6, <2>1, <2>2, Numbers
<1>7. CASE answer \in Row.passes /\ Number = 16
  <2>1. Checked /\ line' = line /\ batch' = batch /\ accepted' = accepted
    BY <1>0, <1>7, NumberIs
  <2>2. /\ Goes("check") \/ Goes("ready") \/ Goes("at")
        /\ checks' \in 0 .. Checks - 1
    BY <1>0, <2>1 DEF Checked
  <2>. QED
    BY <1>0, <1>4, <1>7, <2>1, <2>2, Numbers
<1>8. CASE answer \in Row.passes /\ Number \in {8, 15}
  <2>1. /\ line' \in Shown(answer) /\ Goes(Following)
        /\ checks' = checks /\ batch' = batch /\ accepted' = accepted
    BY <1>0, <1>8, NumberIs
  <2>2. line' \in Bearers \cup {"other"}
    BY <1>0, <2>1 DEF Shown, Bearers
  <2>. QED
    BY <1>0, <1>4, <1>5, <1>8, <2>1, <2>2
<1>9. CASE answer \in Row.passes /\ Number \notin {8, 9, 15, 16, 25, 29, 30}
  <2>1. /\ line' = line /\ Goes(Following)
        /\ checks' = checks /\ batch' = batch /\ accepted' = accepted
    BY <1>0, <1>9, NumberIs
  <2>. QED
    BY <1>0, <1>4, <1>5, <1>9, <2>1
<1>10. CASE answer \in Row.passes /\ Number = 30
  <2>1. /\ line' = line /\ Goes("ready")
        /\ checks' = checks /\ batch' = batch /\ accepted' = accepted
    BY <1>0, <1>10, NumberIs
  <2>. QED
    BY <1>0, <1>1, <1>10, <2>1, Numbers
<1>11. CASE answer \in Row.passes /\ Number = 25
  <2>1. /\ line' = line /\ Goes(Following) /\ accepted' = TRUE
        /\ checks' = checks /\ batch' = batch
    BY <1>0, <1>11, NumberIs
  <2>2. /\ step' \in Steps /\ Number' = 26 /\ try' = 1 /\ try' \in 1 .. Row'.tries
        /\ phase' = IF Script[Number'].sends = NoAnswer THEN "flush" ELSE "put"
    BY <1>5, <1>11, <2>1, GoesIs
  <2>3. ~(batch' > Posts)
    BY <1>0, <1>11, <2>1, NumberIs
  <2>4. phase' \in {"put", "flush", "wait"} /\ accepted' \in BOOLEAN
    BY <2>1, <2>2
  <2>5. DriverTypes'
    BY <1>0, <2>1, <2>2, <2>3, <2>4 DEF DriverTypes
  <2>6. /\ Number = 25 /\ answer \in Row.passes
        /\ accepted' = TRUE /\ batch' = batch /\ Number' = 26
    BY <1>11, <2>1, <2>2
  <2>7. Number' = Number + 1
    BY <1>11, <2>6
  <2>. HIDE DEF Concludes, Succeeds
  <2>. QED
    BY <2>2, <2>5, <2>6, <2>7
<1>12. CASE answer \in Row.passes /\ Number = 29
  <2>1. PostEnds /\ line' = line /\ checks' = checks
    BY <1>0, <1>12, NumberIs
  <2>2. /\ accepted' = FALSE /\ batch' = IF accepted THEN batch + 1 ELSE batch
        /\ Goes(IF accepted /\ batch < Posts THEN "at" ELSE "close")
    BY <2>1 DEF PostEnds
  <2>3. ~(batch > Posts)
    BY <1>0, <1>12, NumberIs
  <2>4. /\ step' = IF accepted /\ batch < Posts THEN "at" ELSE "close"
        /\ step' \in Steps /\ try' = 1 /\ try' \in 1 .. Row'.tries
        /\ phase' = IF Script[Number'].sends = NoAnswer THEN "flush" ELSE "put"
        /\ Number' \in {17, 30}
    BY <2>2, GoesIs, Numbers
  <2>5. batch' \in 1 .. Posts + 1 /\ (batch' > Posts => step' = "close")
    BY <1>0, <2>2, <2>3, <2>4
  <2>6. phase' \in {"put", "flush", "wait"} /\ accepted' \in BOOLEAN
    BY <2>2, <2>4
  <2>7. DriverTypes'
    BY <1>0, <2>1, <2>2, <2>4, <2>5, <2>6 DEF DriverTypes
  <2>. QED
    BY <1>12, <2>2, <2>4, <2>7
<1>. QED
  BY <1>0, <1>3, <1>6, <1>7, <1>8, <1>9, <1>10, <1>11, <1>12
-----------------------------------------------------------------------------
(* The types are kept. *)

\* What the modem says are words.
LEMMA Spoken ==
  /\ \A w \in {"OK", "ERROR", "READY", "locked", "CREG", "CGATT", "CSQ", "unregistered", "IMSI",
               "DOWNLOAD", "200", "601", "length", "content", "HTTPACTION", "HTTPREAD"} :
       w \in Words
  /\ Bearers \subseteq Words
BY DEF Words, Lines, Returns

\* What is said goes on the line, a word or a few.
LEMMA SayOne ==
  ASSUME wire \in Seq(Words), NEW a \in Words, Says(<< a >>)
  PROVE  wire' \in Seq(Words)
BY DEF Says

LEMMA SayTwo ==
  ASSUME wire \in Seq(Words), NEW a \in Words, NEW b \in Words, Says(<< a, b >>)
  PROVE  wire' \in Seq(Words)
BY DEF Says

LEMMA SayFour ==
  ASSUME wire \in Seq(Words), NEW a \in Words, NEW b \in Words, NEW c \in Words, NEW d \in Words,
         Says(<< a, b, c, d >>)
  PROVE  wire' \in Seq(Words)
BY DEF Says

\* One lemma for each action of the driver, the line and the modem.
LEMMA PutTypes ==
  ASSUME CycleTypes, Put
  PROVE  CycleTypes'
<1>. USE PostsAssumption, FaultsAssumption
<1>0. step \in Steps /\ Number \in 1 .. 30 /\ Row = Script[Number]
  BY NumberIs DEF CycleTypes, DriverTypes
<1>1. DriverTypes'
  BY <1>0 DEF CycleTypes, DriverTypes, Put, More, Row
<1>2. RingTypes'
  BY DEF CycleTypes, RingTypes, Put, ring
<1>3. ModemTypes'
  <2>1. Row.sends = "body" => batch \in 0 .. Posts
    <3>1. Row.sends = "body" => step # "close"
      BY <1>0, SendsAre, NumberIs
    <3>. QED
      BY <3>1 DEF CycleTypes, DriverTypes, Put, More
  <2>2. [name |-> Row.sends, post |-> IF Row.sends = "body" THEN batch ELSE 0] \in Commands
    BY <1>0, <2>1 DEF Commands
  <2>3. cmds' \in Seq(Commands)
    BY <2>2 DEF CycleTypes, ModemTypes, Put
  <2>. QED
    BY <2>3 DEF CycleTypes, ModemTypes, Put, modem
<1>4. FaultTypes'
  BY DEF CycleTypes, FaultTypes, Put, Unanswered
<1>. QED
  BY <1>1, <1>2, <1>3, <1>4 DEF CycleTypes

LEMMA FlushTypes ==
  ASSUME CycleTypes, Flush
  PROVE  CycleTypes'
<1>1. DriverTypes'
  BY DEF CycleTypes, DriverTypes, Flush, Row
<1>2. RingTypes'
  BY LenProperties DEF CycleTypes, RingTypes, Flush, Drops
<1>3. ModemTypes'
  BY DEF CycleTypes, ModemTypes, Flush, modem
<1>4. FaultTypes'
  BY DEF CycleTypes, FaultTypes, Flush, faults
<1>. QED
  BY <1>1, <1>2, <1>3, <1>4 DEF CycleTypes

LEMMA ReadTypes ==
  ASSUME CycleTypes, Read
  PROVE  CycleTypes'
<1>. DEFINE word == cells[Len(cells) - unread + 1]
<1>1. DriverTypes'
  <2>1. CASE word \in Row.awaits
    <3>1. Concludes(word) /\ phase # "put"
      BY <2>1 DEF Read
    <3>. HIDE DEF word
    <3>. QED
      BY <2>1, <3>1, ConcludesIs DEF CycleTypes
  <2>2. CASE word \notin Row.awaits
    <3>1. UNCHANGED driver
      BY <2>2 DEF Read
    <3>. QED
      BY <3>1 DEF CycleTypes, DriverTypes, driver, Row
  <2>. QED
    BY <2>1, <2>2
<1>2. RingTypes'
  BY LenProperties DEF CycleTypes, RingTypes, Read
<1>3. ModemTypes'
  BY DEF CycleTypes, ModemTypes, Read, modem
<1>4. FaultTypes'
  BY DEF CycleTypes, FaultTypes, Read, faults
<1>. QED
  BY <1>1, <1>2, <1>3, <1>4 DEF CycleTypes

LEMMA TimesOutTypes ==
  ASSUME CycleTypes, TimesOut
  PROVE  CycleTypes'
<1>. USE PostsAssumption, FaultsAssumption
<1>0. /\ step \in Steps /\ Number \in 1 .. 30 /\ Row = Script[Number] /\ Row.tries \in 1 .. 3
      /\ phase = "wait"
  BY NumberIs, RowsAre DEF CycleTypes, DriverTypes, TimesOut
<1>1. DriverTypes'
  <2>1. CASE try < Row.tries
    <3>1. /\ try' = try + 1 /\ phase' \in {"put", "flush"}
          /\ UNCHANGED <<step, line, checks, batch, accepted>> /\ Row' = Row
      BY <2>1 DEF TimesOut, Row
    <3>2. try' \in 1 .. Row'.tries
      BY <1>0, <2>1, <3>1 DEF CycleTypes, DriverTypes
    <3>. QED
      BY <1>0, <3>1, <3>2 DEF CycleTypes, DriverTypes
  <2>2. CASE ~(try < Row.tries)
    <3>1. Concludes(NoAnswer) /\ phase # "put"
      BY <2>2 DEF TimesOut
    <3>. QED
      BY <3>1, ConcludesIs DEF CycleTypes
  <2>. QED
    BY <2>1, <2>2
<1>2. RingTypes'
  BY DEF CycleTypes, RingTypes, TimesOut, ring
<1>3. ModemTypes'
  BY DEF CycleTypes, ModemTypes, TimesOut, modem
<1>4. FaultTypes'
  <2>1. /\ UNCHANGED <<behind, refused>>
        /\ Unanswered(cmds # <<>> \/ acting # {} \/ (mode = "data" /\ step # "data"))
    BY DEF TimesOut
  <2>2. late' = late \/ (late < MaxLate /\ late' = late + 1)
    BY <2>1 DEF Unanswered
  <2>. QED
    BY <2>1, <2>2 DEF CycleTypes, FaultTypes
<1>. QED
  BY <1>1, <1>2, <1>3, <1>4 DEF CycleTypes

LEMMA ReceiveTypes ==
  ASSUME CycleTypes, ReceiveWord
  PROVE  CycleTypes'
<1>. USE PostsAssumption, FaultsAssumption
<1>0. /\ cells \in Seq(Words) /\ Len(cells) \in 0 .. Cells /\ unread \in 0 .. Len(cells)
      /\ wire \in Seq(Words) /\ wire # <<>> /\ Cells \in Nat \ {0}
  BY LenProperties DEF CycleTypes, RingTypes, ModemTypes, ReceiveWord
<1>1. DriverTypes'
  <2>1. UNCHANGED <<step, try, line, checks, batch, accepted>> /\ Row' = Row
    BY DEF ReceiveWord, Row
  <2>2. phase' = phase \/ (phase = "flush" /\ phase' = "wait")
    BY DEF ReceiveWord
  <2>. QED
    BY <2>1, <2>2 DEF CycleTypes, DriverTypes
<1>2. Head(wire) \in Words /\ Tail(wire) \in Seq(Words)
  BY <1>0, HeadTailProperties
<1>3. RingTypes'
  <2>1. /\ Len(cells) = Cells => cells # << >>
        /\ Len(cells) = Cells => Tail(cells) \in Seq(Words) /\ Len(Tail(cells)) = Cells - 1
    BY <1>0, HeadTailProperties, EmptySeq
  <2>. DEFINE kept == IF Len(cells) = Cells THEN Tail(cells) ELSE cells
  <2>2. kept \in Seq(Words) /\ Len(kept) = IF Len(cells) = Cells THEN Cells - 1 ELSE Len(cells)
    BY <1>0, <2>1
  <2>3. cells' = kept \o << Head(wire) >>
    BY DEF ReceiveWord
  <2>. HIDE DEF kept
  <2>4. cells' \in Seq(Words)
    BY <1>2, <2>2, <2>3
  <2>5. Len(cells') = Len(kept) + 1
    BY <1>2, <2>2, <2>3
  <2>6. Len(cells') = IF Len(cells) = Cells THEN Cells ELSE Len(cells) + 1
    BY <1>0, <2>2, <2>5
  <2>7. unread' \in {0, Len(cells'), IF unread = Cells THEN Cells ELSE unread + 1}
    BY DEF ReceiveWord, Unread
  <2>8. unread' \in 0 .. Len(cells')
    BY <1>0, <2>6, <2>7
  <2>. QED
    BY <1>0, <2>4, <2>6, <2>8 DEF RingTypes
<1>4. ModemTypes'
  BY <1>2 DEF CycleTypes, ModemTypes, ReceiveWord, modem
<1>5. FaultTypes'
  <2>1. /\ UNCHANGED <<late, refused>>
        /\ behind' = behind \/ (behind < MaxBehind /\ behind' = behind + 1)
    BY DEF ReceiveWord
  <2>. QED
    BY <2>1 DEF CycleTypes, FaultTypes
<1>. QED
  BY <1>1, <1>3, <1>4, <1>5 DEF CycleTypes

\* A refusal is counted.
LEMMA RefusesIs ==
  ASSUME FaultTypes, UNCHANGED <<late, behind>>, Refuses \/ UNCHANGED refused
  PROVE  FaultTypes'
BY FaultsAssumption DEF FaultTypes, Refuses

\* What each kind of command leaves.
LEMMA PlainTypes ==
  ASSUME CycleTypes, NEW c, Plain(c)
  PROVE  /\ wire' \in Seq(Words) /\ UNCHANGED modem
         /\ Refuses \/ UNCHANGED refused
<1>. wire \in Seq(Words)
  BY DEF CycleTypes, ModemTypes
<1>1. UNCHANGED modem
  BY DEF Plain
<1>2. Refuses \/ UNCHANGED refused
  BY DEF Plain
<1>3. \/ Says(<<"OK">>) \/ Says(<<"READY", "OK">>) \/ Says(<<"locked", "OK">>)
      \/ \E w \in {"CREG", "CGATT", "CSQ"} : Says(<<w, "OK">>)
      \/ Says(<<"unregistered", "OK">>) \/ Says(<<"IMSI", "OK">>)
  BY DEF Plain
<1>4. wire' \in Seq(Words)
  BY <1>3, Spoken, SayOne, SayTwo
<1>. QED
  BY <1>1, <1>2, <1>4

LEMMA OnBearerTypes ==
  ASSUME CycleTypes, NEW c, OnBearer(c)
  PROVE  /\ wire' \in Seq(Words) /\ bearer' \in Bearers
         /\ UNCHANGED <<http, url, text, mode, acting>>
         /\ Refuses \/ UNCHANGED refused
<1>. wire \in Seq(Words) /\ bearer \in Bearers
  BY DEF CycleTypes, ModemTypes
<1>1. UNCHANGED <<http, url, text, mode, acting>> /\ (Refuses \/ UNCHANGED refused)
  BY DEF OnBearer
<1>2. Says(<<bearer, "OK">>) \/ Says(<<"OK">>) \/ Says(<<"ERROR">>)
  BY DEF OnBearer
<1>3. bearer' \in Bearers
  BY DEF OnBearer, Bearers
<1>4. wire' \in Seq(Words)
  BY <1>2, Spoken, SayOne, SayTwo
<1>. QED
  BY <1>1, <1>3, <1>4

LEMMA OnHttpTypes ==
  ASSUME CycleTypes, NEW c, OnHttp(c)
  PROVE  /\ wire' \in Seq(Words) /\ UNCHANGED <<bearer, refused>>
         /\ http' \in BOOLEAN /\ url' \in BOOLEAN /\ text' \in 0 .. Posts
         /\ mode' \in {"command", "data"}
         /\ acting' = {} \/ \E k \in 0 .. Posts : acting' = {k}
<1>. USE PostsAssumption
<1>0. /\ wire \in Seq(Words) /\ text \in 0 .. Posts /\ mode \in {"command", "data"}
      /\ http \in BOOLEAN /\ url \in BOOLEAN
      /\ acting = {} \/ \E k \in 0 .. Posts : acting = {k}
  BY DEF CycleTypes, ModemTypes
<1>1. UNCHANGED <<bearer, refused>>
  BY DEF OnHttp
<1>2. http' = TRUE \/ http' = FALSE \/ http' = http
  BY DEF OnHttp
<1>3. url' = TRUE \/ url' = FALSE \/ url' = url
  BY DEF OnHttp
<1>4. text' = 0 \/ text' = text
  BY DEF OnHttp
<1>5. mode' = "data" \/ mode' = mode
  BY DEF OnHttp
<1>6. acting' = {} \/ acting' = {text} \/ acting' = acting
  BY DEF OnHttp
<1>7. \/ Says(<<"OK">>) \/ Says(<<"ERROR">>) \/ Says(<<"DOWNLOAD">>)
      \/ Says(<<"HTTPREAD", "length", "content", "OK">>)
  BY DEF OnHttp
<1>8. wire' \in Seq(Words)
  BY <1>0, <1>7, Spoken, SayOne, SayFour
<1>9. acting' = {} \/ \E k \in 0 .. Posts : acting' = {k}
  BY <1>0, <1>6
<1>10. http' \in BOOLEAN /\ url' \in BOOLEAN
  BY <1>0, <1>2, <1>3
<1>. QED
  BY <1>0, <1>1, <1>4, <1>5, <1>8, <1>9, <1>10

LEMMA ProcessTypes ==
  ASSUME CycleTypes, Process
  PROVE  CycleTypes'
<1>. USE PostsAssumption, FaultsAssumption
<1>. DEFINE c == Head(cmds)
<1>0. c \in Commands /\ Tail(cmds) \in Seq(Commands) /\ wire \in Seq(Words)
  BY HeadTailProperties DEF CycleTypes, ModemTypes, Process
<1>1. DriverTypes'
  <2>1. UNCHANGED driver
    BY DEF Process
  <2>. QED
    BY <2>1 DEF CycleTypes, DriverTypes, driver, Row
<1>2. RingTypes'
  BY DEF CycleTypes, RingTypes, Process, ring
<1>3. \/ /\ mode' = "command" /\ text' = c.post /\ Says(<<"OK">>)
         /\ UNCHANGED <<bearer, http, url, acting, refused>>
      \/ UNCHANGED <<wire, modem, refused>>
      \/ Plain(c.name) \/ OnBearer(c.name) \/ OnHttp(c.name)
  BY DEF Process
<1>4. UNCHANGED server /\ cmds' = Tail(cmds) /\ UNCHANGED <<late, behind>>
  BY DEF Process
<1>5. /\ wire' \in Seq(Words)
      /\ bearer' \in Bearers /\ http' \in BOOLEAN /\ url' \in BOOLEAN /\ text' \in 0 .. Posts
      /\ mode' \in {"command", "data"}
      /\ acting' = {} \/ \E k \in 0 .. Posts : acting' = {k}
      /\ Refuses \/ UNCHANGED refused
  <2>0. /\ bearer \in Bearers /\ http \in BOOLEAN /\ url \in BOOLEAN /\ text \in 0 .. Posts
        /\ mode \in {"command", "data"}
        /\ acting = {} \/ \E k \in 0 .. Posts : acting = {k}
    BY DEF CycleTypes, ModemTypes
  <2>1. CASE /\ mode' = "command" /\ text' = c.post /\ Says(<<"OK">>)
             /\ UNCHANGED <<bearer, http, url, acting, refused>>
    <3>1. wire' \in Seq(Words)
      BY <1>0, <2>1, Spoken, SayOne
    <3>2. text' \in 0 .. Posts
      BY <1>0, <2>1 DEF Commands
    <3>3. http' \in BOOLEAN /\ url' \in BOOLEAN
      BY <2>0, <2>1
    <3>4. acting' = {} \/ \E k \in 0 .. Posts : acting' = {k}
      BY <2>0, <2>1
    <3>. QED
      BY <2>0, <2>1, <3>1, <3>2, <3>3, <3>4
  <2>2. CASE UNCHANGED <<wire, modem, refused>>
    <3>1. http' \in BOOLEAN /\ url' \in BOOLEAN
      BY <2>0, <2>2 DEF modem
    <3>. QED
      BY <1>0, <2>0, <2>2, <3>1 DEF modem
  <2>3. CASE Plain(c.name)
    <3>1. /\ wire' \in Seq(Words) /\ UNCHANGED modem
          /\ Refuses \/ UNCHANGED refused
      BY <2>3, PlainTypes
    <3>2. http' \in BOOLEAN /\ url' \in BOOLEAN
      BY <2>0, <3>1 DEF modem
    <3>. QED
      BY <2>0, <3>1, <3>2 DEF modem
  <2>4. CASE OnBearer(c.name)
    <3>1. /\ wire' \in Seq(Words) /\ bearer' \in Bearers
          /\ UNCHANGED <<http, url, text, mode, acting>>
          /\ Refuses \/ UNCHANGED refused
      BY <2>4, OnBearerTypes
    <3>2. http' \in BOOLEAN /\ url' \in BOOLEAN
      BY <2>0, <3>1
    <3>. QED
      BY <2>0, <3>1, <3>2
  <2>5. CASE OnHttp(c.name)
    <3>1. /\ wire' \in Seq(Words) /\ UNCHANGED <<bearer, refused>>
          /\ http' \in BOOLEAN /\ url' \in BOOLEAN /\ text' \in 0 .. Posts
          /\ mode' \in {"command", "data"}
          /\ acting' = {} \/ \E k \in 0 .. Posts : acting' = {k}
      BY <2>5, OnHttpTypes
    <3>. QED
      BY <2>0, <3>1
  <2>. QED
    BY <1>3, <2>1, <2>2, <2>3, <2>4, <2>5
<1>6. ModemTypes'
  BY <1>0, <1>4, <1>5 DEF CycleTypes, ModemTypes
<1>7. FaultTypes'
  BY <1>4, <1>5, RefusesIs DEF CycleTypes
<1>. QED
  BY <1>1, <1>2, <1>6, <1>7 DEF CycleTypes

LEMMA DataEndsTypes ==
  ASSUME CycleTypes, DataEnds
  PROVE  CycleTypes'
<1>. USE PostsAssumption, FaultsAssumption
<1>1. DriverTypes'
  <2>1. UNCHANGED driver
    BY DEF DataEnds
  <2>. QED
    BY <2>1 DEF CycleTypes, DriverTypes, driver, Row
<1>2. RingTypes'
  BY DEF CycleTypes, RingTypes, DataEnds, ring
<1>3. wire' \in Seq(Words)
  BY Spoken, SayOne DEF CycleTypes, ModemTypes, DataEnds
<1>4. ModemTypes'
  BY <1>3 DEF CycleTypes, ModemTypes, DataEnds
<1>5. FaultTypes'
  BY DEF CycleTypes, FaultTypes, DataEnds, faults
<1>. QED
  BY <1>1, <1>2, <1>4, <1>5 DEF CycleTypes

\* What a post that is done leaves.
LEMMA ActionEndsIs ==
  ASSUME CycleTypes, ActionEnds
  PROVE  \E k \in 0 .. Posts :
           /\ acting = {k} /\ acting' = {}
           /\ UNCHANGED <<driver, ring, cmds, bearer, http, url, text, mode, late, behind>>
           /\ \/ k # 0 /\ Stores(k) /\ Says(<<"HTTPACTION", "200">>) /\ UNCHANGED refused
              \/ /\ k # 0 /\ Refuses /\ (Stores(k) \/ UNCHANGED server)
                 /\ Says(<<"HTTPACTION", "601">>)
              \/ Says(<<"HTTPACTION", "601">>) /\ UNCHANGED <<server, refused>>
<1>1. PICK k \in 0 .. Posts : acting = {k}
  BY DEF CycleTypes, ModemTypes, ActionEnds
<1>2. (CHOOSE a \in acting : TRUE) = k
  BY <1>1
<1>. QED
  BY <1>1, <1>2 DEF ActionEnds

LEMMA ActionEndsTypes ==
  ASSUME CycleTypes, ActionEnds
  PROVE  CycleTypes'
<1>. USE PostsAssumption, FaultsAssumption
<1>0. PICK k \in 0 .. Posts :
           /\ acting = {k} /\ acting' = {}
           /\ UNCHANGED <<driver, ring, cmds, bearer, http, url, text, mode, late, behind>>
           /\ \/ k # 0 /\ Stores(k) /\ Says(<<"HTTPACTION", "200">>) /\ UNCHANGED refused
              \/ /\ k # 0 /\ Refuses /\ (Stores(k) \/ UNCHANGED server)
                 /\ Says(<<"HTTPACTION", "601">>)
              \/ Says(<<"HTTPACTION", "601">>) /\ UNCHANGED <<server, refused>>
  BY ActionEndsIs
<1>1. DriverTypes'
  BY <1>0 DEF CycleTypes, DriverTypes, driver, Row
<1>2. RingTypes'
  BY <1>0 DEF CycleTypes, RingTypes, ring
<1>3. wire' \in Seq(Words)
  BY <1>0, Spoken, SayTwo DEF CycleTypes, ModemTypes
<1>4. server' \in [1 .. Posts -> Nat]
  <2>1. server' = server \/ server' = [server EXCEPT ![k] = @ + 1]
    BY <1>0 DEF Stores
  <2>2. server \in [1 .. Posts -> Nat]
    BY DEF CycleTypes, ModemTypes
  <2>. QED
    BY <2>1, <2>2
<1>5. ModemTypes'
  BY <1>0, <1>3, <1>4 DEF CycleTypes, ModemTypes
<1>6. FaultTypes'
  BY <1>0, RefusesIs DEF CycleTypes
<1>. QED
  BY <1>1, <1>2, <1>5, <1>6 DEF CycleTypes

LEMMA ConnectsTypes ==
  ASSUME CycleTypes, Connects
  PROVE  CycleTypes'
<1>1. DriverTypes'
  BY DEF CycleTypes, DriverTypes, Connects, driver, Row
<1>2. RingTypes'
  BY DEF CycleTypes, RingTypes, Connects, ring
<1>3. bearer' \in Bearers
  BY DEF Connects, Bearers
<1>4. ModemTypes'
  BY <1>3 DEF CycleTypes, ModemTypes, Connects
<1>5. FaultTypes'
  BY RefusesIs DEF CycleTypes, Connects
<1>. QED
  BY <1>1, <1>2, <1>4, <1>5 DEF CycleTypes

\* Every step keeps the types.
LEMMA CycleTypesKept ==
  ASSUME CycleTypes, [CycleNext]_cycleVars
  PROVE  CycleTypes'
<1>1. CASE UNCHANGED cycleVars
  <2>1. DriverTypes'
    BY <1>1 DEF CycleTypes, DriverTypes, cycleVars, driver, Row
  <2>2. RingTypes'
    BY <1>1 DEF CycleTypes, RingTypes, cycleVars, ring
  <2>3. ModemTypes'
    BY <1>1 DEF CycleTypes, ModemTypes, cycleVars, modem
  <2>4. FaultTypes'
    BY <1>1 DEF CycleTypes, FaultTypes, cycleVars, faults
  <2>. QED
    BY <2>1, <2>2, <2>3, <2>4 DEF CycleTypes
<1>. QED
  BY <1>1, PutTypes, FlushTypes, ReadTypes, TimesOutTypes, ReceiveTypes, ProcessTypes,
     DataEndsTypes, ActionEndsTypes, ConnectsTypes DEF CycleNext, Driver, Modem

\* They hold at the start of a cycle.
LEMMA CycleStarts ==
  ASSUME CycleInit
  PROVE  CycleTypes
<1>. USE PostsAssumption, FaultsAssumption DEF CycleInit
<1>1. DriverTypes
  <2>1. step \in Steps /\ Number \in 1 .. 30 /\ Row.tries \in 1 .. 3
    BY Numbers, RowsAre DEF Number, Row
  <2>2. accepted \in BOOLEAN
    OBVIOUS
  <2>3. ~(batch > Posts)
    <3>1. batch = 1 /\ Posts \in Nat \ {0}
      OBVIOUS
    <3>. QED
      BY <3>1
  <2>. QED
    BY <2>1, <2>2, <2>3 DEF DriverTypes
<1>2. RingTypes
  BY DEF RingTypes
<1>3. ModemTypes
  <2>1. http \in BOOLEAN /\ url \in BOOLEAN
    OBVIOUS
  <2>2. bearer \in Bearers /\ wire \in Seq(Words) /\ cmds \in Seq(Commands)
    BY DEF Bearers
  <2>3. text \in 0 .. Posts /\ server \in [1 .. Posts -> Nat]
    OBVIOUS
  <2>. QED
    BY <2>1, <2>2, <2>3 DEF ModemTypes
<1>4. FaultTypes
  BY DEF FaultTypes
<1>. QED
  BY <1>1, <1>2, <1>3, <1>4 DEF CycleTypes

LEMMA CycleTypesHold == CycleSpec => []CycleTypes
BY CycleStarts, CycleTypesKept, PTL DEF CycleSpec

\* The types of the driver, the receive ring and the modem, whatever the
\* number of batches, the size of the ring and the faults: sim900.c.
THEOREM CycleTypeCorrect == CycleSpec => []CycleTypeOK
<1>1. CycleTypes => CycleTypeOK
  <2>. SUFFICES ASSUME CycleTypes PROVE CycleTypeOK
    OBVIOUS
  <2>1. \A i \in DOMAIN cmds : cmds[i].post \in 0 .. Posts
    <3>1. cmds \in Seq(Commands) /\ DOMAIN cmds = 1 .. Len(cmds)
      BY DEF CycleTypes, ModemTypes
    <3>2. \A i \in DOMAIN cmds : cmds[i] \in Commands
      BY <3>1
    <3>. QED
      BY <3>2 DEF Commands
  <2>2. acting \subseteq 0 .. Posts /\ Cardinality(acting) <= 1
    <3>1. acting = {} \/ \E k \in 0 .. Posts : acting = {k}
      BY DEF CycleTypes, ModemTypes
    <3>2. CASE acting = {}
      BY <3>2, FS_EmptySet
    <3>3. ASSUME NEW k \in 0 .. Posts, acting = {k}
          PROVE  acting \subseteq 0 .. Posts /\ Cardinality(acting) <= 1
      <4>1. Cardinality(acting) = 1
        BY <3>3, FS_Singleton
      <4>. QED
        BY <3>3, <4>1
    <3>. QED
      BY <3>1, <3>2, <3>3
  <2>3. /\ step \in Steps /\ try \in 1 .. Row.tries /\ phase \in {"put", "flush", "wait"}
        /\ line \in Bearers \cup {"other"} /\ checks \in 0 .. Checks - 1
        /\ batch \in 1 .. Posts + 1 /\ accepted \in BOOLEAN
    BY DEF CycleTypes, DriverTypes
  <2>4. {cells, wire} \subseteq Seq(Words) /\ Len(cells) <= Cells /\ unread \in 0 .. Len(cells)
    BY DEF CycleTypes, RingTypes, ModemTypes
  <2>5. /\ bearer \in Bearers /\ http \in BOOLEAN /\ url \in BOOLEAN /\ text \in 0 .. Posts
        /\ mode \in {"command", "data"} /\ server \in [1 .. Posts -> Nat]
        /\ late \in 0 .. MaxLate /\ behind \in 0 .. MaxBehind /\ refused \in 0 .. MaxRefused
    BY DEF CycleTypes, ModemTypes, FaultTypes
  <2>. QED
    BY <2>1, <2>2, <2>3, <2>4, <2>5 DEF CycleTypeOK
<1>. QED
  BY <1>1, CycleTypesHold, PTL

-----------------------------------------------------------------------------
(* What is to be read, and where a post goes on. *)

\* The words that will be read.
Visible ==
  (IF phase = "wait" /\ unread > 0 THEN << cells[Len(cells)] >> ELSE << >>) \o wire

\* A post goes on with the next exchange, or the service is closed.
LEMMA PostConcludes ==
  ASSUME step \in Steps, Number \in 17 .. 28, NEW answer, Concludes(answer)
  PROVE  Number' = IF answer \in Row.passes THEN Number + 1 ELSE 29
<1>1. CASE answer \in Row.passes
  <2>1. Goes(Following)
    BY <1>1, NumberIs DEF Concludes, Succeeds
  <2>. QED
    BY <1>1, <2>1, FollowingIs, GoesIs
<1>2. CASE answer \notin Row.passes
  <2>1. Goes(Row.fails)
    BY <1>2 DEF Concludes
  <2>2. Row.fails = "term"
    BY NumberIs, PostRowsFail
  <2>3. Goes("term")
    BY <2>1, <2>2
  <2>4. Number' = 29
    BY <2>3, Numbers, GoesIs
  <2>. QED
    BY <1>2, <2>4
<1>. QED
  BY <1>1, <1>2

\* Sequences of a few words.
LEMMA Tails ==
  /\ \A x : Tail(<< x >>) = << >> /\ << x >> # << >>
  /\ \A x, y : Tail(<< x, y >>) = << y >>
  /\ \A x, y, z : Tail(<< x, y, z >>) = << y, z >>
OBVIOUS

LEMMA Pushed ==
  ASSUME NEW q \in Seq(Words), NEW a \in Words
  PROVE  /\ << a >> \o q \in Seq(Words) /\ << a >> \o q # << >>
         /\ (<< a >> \o q)[1] = a /\ Tail(<< a >> \o q) = q
         /\ \A i \in DOMAIN q : i + 1 \in DOMAIN (<< a >> \o q) /\ (<< a >> \o q)[i + 1] = q[i]
<1>1. << a >> \o q \in Seq(Words) /\ Len(<< a >> \o q) = Len(q) + 1 /\ (<< a >> \o q)[1] = a
  OBVIOUS
<1>2. << a >> \o q # << >>
  BY <1>1
<1>3. \A i \in DOMAIN q : i + 1 \in DOMAIN (<< a >> \o q) /\ (<< a >> \o q)[i + 1] = q[i]
  OBVIOUS
<1>4. Tail(<< a >> \o q) = q
  OBVIOUS
<1>. QED
  BY <1>1, <1>2, <1>3, <1>4

\* What a read leaves to be read, and what a command or the modem adds.
LEMMA VisibleIs ==
  ASSUME CycleTypes
  PROVE  /\ Visible \in Seq(Words)
         /\ phase # "wait" \/ unread = 0 => Visible = wire
         /\ phase = "wait" /\ unread > 0 =>
              /\ cells[Len(cells)] \in Words /\ Visible = << cells[Len(cells)] >> \o wire
<1>1. /\ wire \in Seq(Words) /\ cells \in Seq(Words)
      /\ unread \in 0 .. Len(cells) /\ Len(cells) \in Nat
  BY LenProperties DEF CycleTypes, RingTypes, ModemTypes
<1>2. CASE phase # "wait" \/ unread = 0
  <2>1. Visible = << >> \o wire
    BY <1>1, <1>2 DEF Visible
  <2>. QED
    BY <1>1, <1>2, <2>1
<1>3. CASE phase = "wait" /\ unread > 0
  <2>1. cells[Len(cells)] \in Words
    BY <1>1, <1>3, ElementOfSeq
  <2>2. Visible = << cells[Len(cells)] >> \o wire
    BY <1>3 DEF Visible
  <2>. QED
    BY <1>1, <1>3, <2>1, <2>2, Pushed
<1>. QED
  BY <1>1, <1>2, <1>3

-----------------------------------------------------------------------------
(***************************************************************************)
(* How often a batch is posted, whatever is late, lost or refused.  Each   *)
(* batch has an account: its copies on the server, the post the modem is   *)
(* at and the ACTIONs on their way that may post it (AtMost) are no more   *)
(* than the faults, and one for the post that needed none (Past).  For the *)
(* batch to be posted that one is not spent before ACTION is sent; then it *)
(* is accepted, or the driver still may read that it is (Hopeful, Now).  A *)
(* batch that is left is posted no more: the TERM behind its text has been *)
(* dealt with, or is on its way (Left), and as a text covers the DATA      *)
(* before it (Texts), TERM will be taken for a command.                    *)
(***************************************************************************)

Costs == late + behind + refused

\* Of the commands on their way only the last w may be ACTIONs that post batch k.
Idle(k, w) ==
  \A i \in 1 .. Len(cmds) - w :
    cmds[i].name = "ACTION" => text # k /\ \A j \in 1 .. i - 1 : cmds[j].post # k

Held(k) == IF acting = {k} THEN 1 ELSE 0

\* The copies of batch k, with those that the commands on their way may add, are c at most.
AtMost(k, c) == \E w \in 0 .. Len(cmds) : Idle(k, w) /\ server[k] + Held(k) + w <= c

\* Whatever text the modem has asked for before the n-th command is past comes by then.
Covered(n) ==
  /\ mode = "data" => \E j \in 1 .. n : cmds[j].name = "body"
  /\ \A h \in 1 .. n : cmds[h].name = "DATA" => \E j \in h + 1 .. n : cmds[j].name = "body"

\* Batch k is not posted any more, or will not be once a TERM has been dealt with.
Gone(k) == text # k /\ acting # {k} /\ \A j \in 1 .. Len(cmds) : cmds[j].post # k
Leaving(k) ==
  \E i \in 1 .. Len(cmds) :
    /\ cmds[i].name = "TERM" /\ Covered(i - 1)
    /\ \A j \in i .. Len(cmds) : cmds[j].post # k
Left(k) == Gone(k) \/ Leaving(k)

\* Nothing is asked for without a session.
Session == ~http => text = 0 /\ acting = {} /\ mode = "command"

\* The texts are of batches posted so far; a post that has sent its text
\* has none to come for an earlier DATA.
Texts ==
  /\ \A j \in 1 .. Len(cmds) : cmds[j].post <= batch
  /\ text <= batch /\ acting \subseteq 0 .. batch
  /\ Number \in 23 .. 28 \/ (Number = 22 /\ phase # "put") \/ accepted => Covered(Len(cmds))

\* One ACTION of this post was sent, and nothing has gone wrong since.
Stale == {"HTTPACTION", "200", "601"}
Due(k, words) ==
  \/ words = << >> /\ acting = {k}
  \/ words = << "HTTPACTION", "200" >> /\ acting = {}
Hopeful(k) ==
  /\ phase # "put" /\ (phase = "wait" => unread <= 1)
  /\ \/ /\ Number = 23 /\ Len(cmds) = 1 /\ cmds[1].name = "ACTION" /\ text = k
        /\ Visible \in Seq(Stale)
     \/ /\ Number = 23 /\ cmds = << >>
        /\ \E q \in Seq(Stale), v \in Seq(Words) : Due(k, v) /\ Visible = q \o (<< "OK" >> \o v)
     \/ Number = 24 /\ cmds = << >> /\ Due(k, Visible)
     \/ Number = 25 /\ cmds = << >> /\ Visible = << "200" >> /\ acting = {}

\* The account of each batch: of those before, of the one to be posted, of those after.
Past  == \A k \in 1 .. Posts : k < batch => Left(k) /\ AtMost(k, 1 + Costs)
Now   == batch <= Posts =>
           \/ AtMost(batch, Costs)
           \/ AtMost(batch, 1 + Costs) /\ (accepted \/ Hopeful(batch))
Later == \A k \in 1 .. Posts : k > batch => Gone(k) /\ server[k] = 0

\* A batch that was accepted is left before the next one is posted.
Accepting ==
  accepted => Number \in 26 .. 29 /\ (Number = 29 /\ phase # "put" => Left(batch))

Accounted == Session /\ Texts /\ Past /\ Now /\ Later /\ Accepting

-----------------------------------------------------------------------------
(* The commands on their way. *)

\* What is known of the commands.
LEMMA CommandsAre ==
  ASSUME CycleTypes
  PROVE  /\ cmds \in Seq(Commands) /\ Len(cmds) \in Nat /\ (cmds = << >> <=> Len(cmds) = 0)
         /\ \A i \in 1 .. Len(cmds) : cmds[i] \in Commands /\ cmds[i].post \in 0 .. Posts
         /\ text \in 0 .. Posts /\ server \in [1 .. Posts -> Nat]
<1>1. cmds \in Seq(Commands) /\ text \in 0 .. Posts /\ server \in [1 .. Posts -> Nat]
  BY DEF CycleTypes, ModemTypes
<1>2. Len(cmds) \in Nat /\ (cmds = << >> <=> Len(cmds) = 0)
  BY <1>1, LenProperties, EmptySeq
<1>3. \A i \in 1 .. Len(cmds) : cmds[i] \in Commands
  BY <1>1
<1>4. \A c \in Commands : c.post \in 0 .. Posts
  BY DEF Commands
<1>. QED
  BY <1>1, <1>2, <1>3, <1>4

\* A command is put behind the others.
LEMMA PutIs ==
  ASSUME CycleTypes, Put
  PROVE  /\ Len(cmds') = Len(cmds) + 1
         /\ \A i \in 1 .. Len(cmds) : cmds'[i] = cmds[i]
         /\ cmds'[Len(cmds) + 1].name = Row.sends
         /\ cmds'[Len(cmds) + 1].post = IF Row.sends = "body" THEN batch ELSE 0
         /\ cmds' # << >>
<1>. DEFINE c == [name |-> Row.sends, post |-> IF Row.sends = "body" THEN batch ELSE 0]
<1>1. cmds' = Append(cmds, c)
  BY DEF Put
<1>2. c.name = Row.sends /\ c.post = IF Row.sends = "body" THEN batch ELSE 0
  OBVIOUS
<1>. HIDE DEF c
<1>3. cmds \in Seq(Commands \cup {c})
  BY CommandsAre
<1>4. /\ Len(cmds') = Len(cmds) + 1 /\ cmds'[Len(cmds) + 1] = c
      /\ \A i \in 1 .. Len(cmds) : cmds'[i] = cmds[i]
  BY <1>1, <1>3
<1>5. cmds' # << >>
  BY <1>1, <1>3
<1>. QED
  BY <1>2, <1>4, <1>5

\* The first command is dealt with.
LEMMA TailIs ==
  ASSUME CycleTypes, Process
  PROVE  /\ Len(cmds) >= 1 /\ Len(cmds') = Len(cmds) - 1
         /\ \A i \in 1 .. Len(cmds) - 1 : cmds'[i] = cmds[i + 1]
         /\ Head(cmds) = cmds[1]
<1>1. cmds \in Seq(Commands) /\ cmds # << >> /\ cmds' = Tail(cmds)
  BY CommandsAre DEF Process
<1>. QED
  BY <1>1

\* What the modem does with a command.
Dealt(c) ==
  \/ mode = "data" /\ c.name = "body" /\ mode' = "command" /\ text' = c.post
     /\ UNCHANGED <<http, acting>>
  \/ /\ UNCHANGED <<http, text, mode, acting>>
     /\ c.name = "body" => mode # "data"
     /\ c.name = "TERM" => mode = "data" \/ ~http
     /\ c.name = "ACTION" => mode = "data" \/ ~http \/ acting # {}
  \/ c.name = "INIT" /\ http' = TRUE /\ UNCHANGED <<text, mode, acting>>
  \/ c.name = "DATA" /\ http /\ mode' = "data" /\ UNCHANGED <<http, text, acting>>
  \/ c.name = "ACTION" /\ mode = "command" /\ http /\ acting = {} /\ acting' = {text}
     /\ UNCHANGED <<http, text, mode>> /\ Says(<<"OK">>)
  \/ c.name = "TERM" /\ mode = "command" /\ mode' = mode
     /\ http' = FALSE /\ text' = 0 /\ acting' = {}

\* What is unchanged when a command is dealt with, and what may change.
LEMMA ProcessIs ==
  ASSUME CycleTypes, Process
  PROVE  /\ UNCHANGED <<driver, ring, server, late, behind>>
         /\ refused' = refused \/ refused' = refused + 1
         /\ Dealt(cmds[1])
<1>. DEFINE c == Head(cmds)
<1>1. /\ UNCHANGED <<driver, ring, server, late, behind>>
      /\ c = cmds[1] /\ mode \in {"command", "data"}
  BY TailIs DEF Process, CycleTypes, ModemTypes
<1>2. \/ /\ mode = "data" /\ c.name = "body"
         /\ mode' = "command" /\ text' = c.post /\ UNCHANGED <<bearer, http, url, acting, refused>>
      \/ /\ (mode = "data" /\ c.name # "body") \/ (mode = "command" /\ c.name = "body")
         /\ UNCHANGED <<wire, modem, refused>>
      \/ /\ mode = "command" /\ c.name # "body"
         /\ Plain(c.name) \/ OnBearer(c.name) \/ OnHttp(c.name)
  BY <1>1 DEF Process
<1>3. refused' = refused \/ refused' = refused + 1
  <2>1. CASE UNCHANGED refused
    BY <2>1
  <2>2. CASE Plain(c.name) \/ OnBearer(c.name) \/ OnHttp(c.name)
    <3>1. Refuses \/ refused' = refused
      BY <2>2, PlainTypes, OnBearerTypes, OnHttpTypes
    <3>. QED
      BY <3>1 DEF Refuses
  <2>. QED
    BY <1>2, <2>1, <2>2
<1>. HIDE DEF c
<1>4. CASE mode = "data" /\ c.name = "body" /\ mode' = "command" /\ text' = c.post
           /\ UNCHANGED <<bearer, http, url, acting, refused>>
  BY <1>1, <1>3, <1>4 DEF Dealt
<1>5. CASE /\ (mode = "data" /\ c.name # "body") \/ (mode = "command" /\ c.name = "body")
           /\ UNCHANGED <<wire, modem, refused>>
  BY <1>1, <1>3, <1>5 DEF Dealt, modem
<1>6. CASE mode = "command" /\ c.name # "body" /\ Plain(c.name)
  <2>1. UNCHANGED modem /\ c.name \notin {"TERM", "ACTION"}
    BY <1>6 DEF Plain
  <2>. QED
    BY <1>1, <1>3, <1>6, <2>1 DEF Dealt, modem
<1>7. CASE mode = "command" /\ c.name # "body" /\ OnBearer(c.name)
  <2>1. UNCHANGED <<http, url, text, mode, acting>> /\ c.name \notin {"TERM", "ACTION"}
    BY <1>7 DEF OnBearer
  <2>. QED
    BY <1>1, <1>3, <1>7, <2>1 DEF Dealt
<1>8. CASE mode = "command" /\ c.name # "body" /\ OnHttp(c.name)
  BY <1>1, <1>3, <1>8 DEF Dealt, OnHttp
<1>. QED
  BY <1>2, <1>4, <1>5, <1>6, <1>7, <1>8

\* The numbers of faults and batches.
LEMMA CostsAre ==
  ASSUME CycleTypes
  PROVE  /\ late \in Nat /\ behind \in Nat /\ refused \in Nat /\ Costs \in Nat
         /\ batch \in Nat /\ batch >= 1 /\ Posts \in Nat
BY PostsAssumption, FaultsAssumption DEF CycleTypes, FaultTypes, DriverTypes, Costs

\* The text does not become that of a batch unless it was on its way.
LEMMA TextFrom ==
  ASSUME CycleTypes, Process, NEW k \in 1 .. Posts, text # k, cmds[1].post # k
  PROVE  text' # k
<1>1. Dealt(cmds[1])
  BY ProcessIs
<1>2. text' \in {text, cmds[1].post, 0}
  BY <1>1 DEF Dealt
<1>. QED
  BY <1>2

\* An ACTION that will not post the batch will not do so after the command before it.
LEMMA IdleProcessed ==
  ASSUME CycleTypes, Process, NEW k \in 1 .. Posts, NEW w \in 0 .. Len(cmds), Idle(k, w),
         NEW v \in 0 .. Len(cmds'), v = w \/ (w = Len(cmds) /\ v = w - 1)
  PROVE  Idle(k, v)'
<1>. SUFFICES ASSUME NEW i \in 1 .. Len(cmds') - v, cmds'[i].name = "ACTION"
              PROVE  text' # k /\ \A j \in 1 .. i - 1 : cmds'[j].post # k
  BY DEF Idle
<1>1. /\ Len(cmds) \in Nat /\ Len(cmds) >= 1 /\ Len(cmds') = Len(cmds) - 1
      /\ \A j \in 1 .. Len(cmds) - 1 : cmds'[j] = cmds[j + 1]
  BY TailIs, CommandsAre
<1>2. i + 1 \in 1 .. Len(cmds) - w /\ i \in 1 .. Len(cmds) - 1
  BY <1>1
<1>3. cmds[i + 1].name = "ACTION"
  BY <1>1, <1>2
<1>4. text # k /\ \A j \in 1 .. (i + 1) - 1 : cmds[j].post # k
  BY <1>2, <1>3, Zenon DEF Idle
<1>5. \A j \in 1 .. i : cmds[j].post # k
  BY <1>2, <1>4
<1>6. text' # k
  <2>1. cmds[1].post # k
    BY <1>2, <1>5
  <2>. QED
    BY <1>4, <2>1, TextFrom
<1>7. ASSUME NEW j \in 1 .. i - 1 PROVE cmds'[j].post # k
  <2>1. j + 1 \in 1 .. i /\ j \in 1 .. Len(cmds) - 1
    BY <1>1, <1>2
  <2>. QED
    BY <1>1, <1>5, <2>1
<1>. QED
  BY <1>6, <1>7

\* Dealing with a command adds nothing to the account.
LEMMA AtMostProcessed ==
  ASSUME CycleTypes, Process, NEW k \in 1 .. Posts, NEW c \in Nat, AtMost(k, c)
  PROVE  AtMost(k, c)'
<1>1. PICK w \in 0 .. Len(cmds) : Idle(k, w) /\ server[k] + Held(k) + w <= c
  BY DEF AtMost
<1>2. /\ Len(cmds) \in Nat /\ Len(cmds) >= 1 /\ Len(cmds') = Len(cmds) - 1
      /\ server' = server /\ server[k] \in Nat /\ Held(k) \in {0, 1} /\ Held(k)' \in {0, 1}
  BY TailIs, CommandsAre, ProcessIs DEF Held
<1>3. CASE w = Len(cmds) /\ Held(k)' <= Held(k) + 1
  <2>. DEFINE v == w - 1
  <2>1. v \in 0 .. Len(cmds') /\ server[k] + Held(k)' + v <= c
    BY <1>1, <1>2, <1>3
  <2>2. Idle(k, v)'
    BY <1>1, <1>3, <2>1, IdleProcessed
  <2>. QED
    BY <1>2, <2>1, <2>2 DEF AtMost
<1>4. CASE w # Len(cmds)
  <2>1. w \in 0 .. Len(cmds') /\ 1 \in 1 .. Len(cmds) - w
    BY <1>2, <1>4
  <2>2. Idle(k, w)'
    BY <1>1, <2>1, IdleProcessed
  <2>3. Held(k)' <= Held(k)
    <3>. SUFFICES ASSUME acting' = {k}, acting # {k} PROVE FALSE
      BY <1>2 DEF Held
    <3>1. Dealt(cmds[1])
      BY ProcessIs
    <3>2. cmds[1].name = "ACTION" /\ text = k
      BY <3>1 DEF Dealt
    <3>. QED
      BY <1>1, <2>1, <3>2 DEF Idle
  <2>4. server[k] + Held(k)' + w <= c
    BY <1>1, <1>2, <2>3
  <2>. QED
    BY <1>2, <2>1, <2>2, <2>4 DEF AtMost
<1>. QED
  BY <1>2, <1>3, <1>4

\* An account has room for more.
LEMMA AtMostMore ==
  ASSUME CycleTypes, NEW k \in 1 .. Posts, NEW c \in Nat, AtMost(k, c), NEW d \in Nat, c <= d
  PROVE  AtMost(k, d)
<1>1. PICK w \in 0 .. Len(cmds) : Idle(k, w) /\ server[k] + Held(k) + w <= c
  BY DEF AtMost
<1>2. server[k] \in Nat /\ Held(k) \in {0, 1} /\ w \in Nat
  BY CommandsAre DEF Held
<1>3. server[k] + Held(k) + w <= d
  BY <1>1, <1>2
<1>. QED
  BY <1>1, <1>3 DEF AtMost

\* A command that is sent adds one at most, and nothing if it is the only
\* one and is no ACTION for this batch.
LEMMA AtMostPut ==
  ASSUME CycleTypes, Put, NEW k \in 1 .. Posts, NEW c \in Nat, AtMost(k, c)
  PROVE  /\ AtMost(k, c + 1)'
         /\ cmds = << >> /\ (Row.sends # "ACTION" \/ text # k) => AtMost(k, c)'
<1>1. PICK w \in 0 .. Len(cmds) : Idle(k, w) /\ server[k] + Held(k) + w <= c
  BY DEF AtMost
<1>2. /\ Len(cmds) \in Nat /\ Len(cmds') = Len(cmds) + 1 /\ (cmds = << >> <=> Len(cmds) = 0)
      /\ \A i \in 1 .. Len(cmds) : cmds'[i] = cmds[i]
      /\ cmds'[Len(cmds) + 1].name = Row.sends
      /\ UNCHANGED <<server, text, acting>> /\ server[k] \in Nat /\ Held(k) \in {0, 1}
  BY PutIs, CommandsAre DEF Put, modem, Held
<1>3. Held(k)' = Held(k)
  BY <1>2 DEF Held
<1>4. AtMost(k, c + 1)'
  <2>. DEFINE v == w + 1
  <2>1. v \in 0 .. Len(cmds') /\ server[k] + Held(k) + v <= c + 1
    BY <1>1, <1>2
  <2>2. Idle(k, v)'
    <3>. SUFFICES ASSUME NEW i \in 1 .. Len(cmds') - v, cmds'[i].name = "ACTION"
                  PROVE  text # k /\ \A j \in 1 .. i - 1 : cmds'[j].post # k
      BY <1>2 DEF Idle
    <3>1. /\ i \in 1 .. Len(cmds) - w /\ i \in 1 .. Len(cmds)
          /\ \A j \in 1 .. i - 1 : j \in 1 .. Len(cmds)
      BY <1>2
    <3>. QED
      BY <1>1, <1>2, <3>1, Zenon DEF Idle
  <2>. HIDE DEF v
  <2>. QED
    BY <1>2, <1>3, <2>1, <2>2 DEF AtMost
<1>5. ASSUME cmds = << >>, Row.sends # "ACTION" \/ text # k
      PROVE  AtMost(k, c)'
  <2>1. 0 \in 0 .. Len(cmds') /\ Len(cmds') = 1 /\ cmds'[1].name = Row.sends
    BY <1>2, <1>5
  <2>2. Idle(k, 0)'
    BY <1>2, <1>5, <2>1 DEF Idle
  <2>3. server[k] + Held(k) + 0 <= c
    BY <1>1, <1>2
  <2>. QED
    BY <1>2, <1>3, <2>1, <2>2, <2>3 DEF AtMost
<1>. QED
  BY <1>4, <1>5

\* Most steps do not touch it.
LEMMA AtMostSame ==
  ASSUME NEW k, NEW c, UNCHANGED <<cmds, text, acting, server>>, AtMost(k, c)
  PROVE  AtMost(k, c)'
BY DEF AtMost, Idle, Held

\* A text given up leaves it as it is.
LEMMA AtMostDataEnds ==
  ASSUME CycleTypes, DataEnds, NEW k \in 1 .. Posts, NEW c, AtMost(k, c)
  PROVE  AtMost(k, c)'
<1>1. cmds = << >> /\ UNCHANGED <<cmds, acting, server>> /\ Len(cmds) = 0
  BY CommandsAre DEF DataEnds
<1>. QED
  BY <1>1 DEF AtMost, Idle, Held

\* A post that is done is one copy more, and one fewer to come.
LEMMA AtMostActionEnds ==
  ASSUME CycleTypes, ActionEnds, NEW k \in 1 .. Posts, NEW c \in Nat
  PROVE  /\ AtMost(k, c) => AtMost(k, c)'
         /\ acting = {k} /\ server' = server /\ AtMost(k, c + 1) => AtMost(k, c)'
<1>1. PICK a \in 0 .. Posts : /\ acting = {a} /\ acting' = {} /\ UNCHANGED <<cmds, text>>
                              /\ (a # 0 /\ Stores(a)) \/ server' = server
  BY ActionEndsIs
<1>2. /\ server \in [1 .. Posts -> Nat] /\ server[k] \in Nat /\ Posts \in Nat
      /\ Held(k)' = 0 /\ Held(k) = (IF k = a THEN 1 ELSE 0)
  BY <1>1, CommandsAre, CostsAre DEF Held
<1>3. server'[k] = server[k] \/ (k = a /\ server'[k] = server[k] + 1)
  BY <1>1, <1>2 DEF Stores
<1>4. server'[k] + Held(k)' <= server[k] + Held(k)
  BY <1>2, <1>3
<1>5. server'[k] \in Nat
  BY <1>2, <1>3
<1>6. ASSUME NEW w \in 0 .. Len(cmds), Idle(k, w) PROVE w \in 0 .. Len(cmds') /\ Idle(k, w)'
  BY <1>1, <1>6 DEF Idle
<1>7. ASSUME AtMost(k, c) PROVE AtMost(k, c)'
  <2>1. PICK w \in 0 .. Len(cmds) : Idle(k, w) /\ server[k] + Held(k) + w <= c
    BY <1>7 DEF AtMost
  <2>2. server'[k] + Held(k)' + w <= c
    <3>1. w \in Nat /\ Len(cmds) \in Nat
      BY CommandsAre
    <3>. QED
      BY <1>2, <1>3, <2>1, <3>1
  <2>. QED
    BY <1>6, <2>1, <2>2 DEF AtMost
<1>8. ASSUME acting = {k}, server' = server, AtMost(k, c + 1) PROVE AtMost(k, c)'
  <2>1. PICK w \in 0 .. Len(cmds) : Idle(k, w) /\ server[k] + Held(k) + w <= c + 1
    BY <1>8 DEF AtMost
  <2>2. k = a /\ w \in Nat
    <3>1. Len(cmds) \in Nat
      BY CommandsAre
    <3>. QED
      BY <1>1, <1>8, <3>1
  <2>3. server'[k] + Held(k)' + w <= c
    BY <1>2, <1>8, <2>1, <2>2
  <2>. QED
    BY <1>6, <2>1, <2>3 DEF AtMost
<1>. QED
  BY <1>7, <1>8

\* A text that is sent, or goes before, covers what was asked for.
LEMMA CoveredPut ==
  ASSUME CycleTypes, Put, NEW n \in 0 .. Len(cmds), Covered(n)
  PROVE  Covered(n)'
<1>1. /\ Len(cmds) \in Nat /\ \A i \in 1 .. Len(cmds) : cmds'[i] = cmds[i]
      /\ mode' = mode
  BY PutIs, CommandsAre DEF Put, modem
<1>2. \A i \in 1 .. n : i \in 1 .. Len(cmds)
  BY <1>1
<1>3. mode' = "data" => \E j \in 1 .. n : cmds'[j].name = "body"
  BY <1>1, <1>2, Zenon DEF Covered
<1>4. ASSUME NEW h \in 1 .. n, cmds'[h].name = "DATA"
      PROVE  \E j \in h + 1 .. n : cmds'[j].name = "body"
  <2>1. PICK j \in h + 1 .. n : cmds[j].name = "body"
    BY <1>1, <1>2, <1>4, Zenon DEF Covered
  <2>2. j \in 1 .. n
    OBVIOUS
  <2>. QED
    BY <1>1, <1>2, <2>1, <2>2, Zenon
<1>. QED
  BY <1>3, <1>4 DEF Covered

\* What is put behind covered commands, but for another DATA, is covered.
LEMMA CoveredBehind ==
  ASSUME CycleTypes, Put, Row.sends # "DATA", Covered(Len(cmds)) \/ Row.sends = "body"
  PROVE  Covered(Len(cmds))'
<1>1. /\ Len(cmds) \in Nat /\ Len(cmds') = Len(cmds) + 1
      /\ cmds'[Len(cmds) + 1].name = Row.sends
  BY PutIs, CommandsAre
<1>2. CASE Row.sends = "body"
  <2>1. Len(cmds') \in 1 .. Len(cmds') /\ cmds'[Len(cmds')].name = "body"
    BY <1>1, <1>2
  <2>2. ASSUME NEW h \in 1 .. Len(cmds'), cmds'[h].name = "DATA"
        PROVE  Len(cmds') \in h + 1 .. Len(cmds')
    BY <1>1, <2>1, <2>2
  <2>. QED
    BY <2>1, <2>2, Zenon DEF Covered
<1>3. CASE Covered(Len(cmds))
  <2>2. PICK n : n = Len(cmds)
    OBVIOUS
  <2>3. Covered(n)'
    <3>1. n \in 0 .. Len(cmds) /\ Covered(n)
      BY <1>1, <1>3, <2>2
    <3>. QED
      BY <3>1, CoveredPut
  <2>4. \A h \in 1 .. n + 1 : h \in 1 .. n \/ (h = n + 1 /\ cmds'[h].name # "DATA")
    BY <1>1, <2>2
  <2>5. mode' = "data" => \E j \in 1 .. n + 1 : cmds'[j].name = "body"
    BY <1>1, <2>2, <2>3 DEF Covered
  <2>6. ASSUME NEW h \in 1 .. n + 1, cmds'[h].name = "DATA"
        PROVE  \E j \in h + 1 .. n + 1 : cmds'[j].name = "body"
    <3>1. h \in 1 .. n
      BY <2>4, <2>6
    <3>2. PICK j \in h + 1 .. n : cmds'[j].name = "body"
      BY <2>3, <2>6, <3>1 DEF Covered
    <3>3. j \in h + 1 .. n + 1
      BY <1>1, <2>2
    <3>. QED
      BY <3>2, <3>3
  <2>7. Len(cmds') = n + 1
    BY <1>1, <2>2
  <2>. QED
    BY <2>5, <2>6, <2>7 DEF Covered
<1>. QED
  BY <1>2, <1>3

\* Commands stay covered when the first is dealt with.
LEMMA CoveredProcessed ==
  ASSUME CycleTypes, Process, NEW n \in 1 .. Len(cmds), Covered(n), NEW m \in Nat, n = m + 1
  PROVE  Covered(m)'
<1>1. /\ Len(cmds) \in Nat /\ \A i \in 1 .. Len(cmds) - 1 : cmds'[i] = cmds[i + 1]
      /\ Dealt(cmds[1])
  BY TailIs, CommandsAre, ProcessIs
<1>2. ASSUME NEW i \in 2 .. n PROVE i - 1 \in 1 .. m /\ cmds'[i - 1] = cmds[i]
  <2>1. i - 1 \in 1 .. Len(cmds) - 1 /\ (i - 1) + 1 = i
    BY <1>1, <1>2
  <2>. QED
    BY <1>1, <2>1
<1>3. mode' = "data" => \E j \in 1 .. m : cmds'[j].name = "body"
  <2>. SUFFICES ASSUME mode' = "data" PROVE \E i \in 2 .. n : cmds[i].name = "body"
    BY <1>2
  <2>1. cmds[1].name = "DATA" \/ (mode = "data" /\ cmds[1].name # "body")
    BY <1>1 DEF Dealt
  <2>2. CASE cmds[1].name = "DATA"
    <3>1. 1 \in 1 .. n /\ 1 + 1 = 2
      OBVIOUS
    <3>. QED
      BY <2>2, <3>1 DEF Covered
  <2>3. CASE mode = "data" /\ cmds[1].name # "body"
    <3>1. PICK j \in 1 .. n : cmds[j].name = "body"
      BY <2>3 DEF Covered
    <3>2. j \in 2 .. n
      BY <2>3, <3>1
    <3>. QED
      BY <3>1, <3>2
  <2>. QED
    BY <2>1, <2>2, <2>3
<1>4. ASSUME NEW h \in 1 .. m, cmds'[h].name = "DATA"
      PROVE  \E j \in h + 1 .. m : cmds'[j].name = "body"
  <2>1. h \in 1 .. Len(cmds) - 1 /\ h + 1 \in 1 .. n
    BY <1>1
  <2>2. cmds[h + 1].name = "DATA"
    BY <1>1, <1>4, <2>1
  <2>3. PICK j \in (h + 1) + 1 .. n : cmds[j].name = "body"
    BY <2>1, <2>2, Zenon DEF Covered
  <2>4. j \in 2 .. n /\ j - 1 \in h + 1 .. m
    OBVIOUS
  <2>. QED
    BY <1>2, <2>3, <2>4
<1>. QED
  BY <1>3, <1>4 DEF Covered

\* They stay covered when the modem gives up waiting.
LEMMA CoveredSame ==
  ASSUME cmds' = cmds, mode' = mode \/ mode' = "command", NEW n, Covered(n)
  PROVE  Covered(n)'
<1>1. mode' = "data" => mode = "data"
  OBVIOUS
<1>. QED
  BY <1>1, Zenon DEF Covered

\* A batch that is left stays so.
LEMMA LeftPut ==
  ASSUME CycleTypes, Put, NEW k \in 1 .. Posts, Row.sends = "body" => batch # k
  PROVE  /\ Gone(k) => Gone(k)'
         /\ Left(k) => Left(k)'
<1>1. /\ Len(cmds) \in Nat /\ Len(cmds') = Len(cmds) + 1
      /\ \A i \in 1 .. Len(cmds) : cmds'[i] = cmds[i]
      /\ cmds'[Len(cmds) + 1].post # k /\ UNCHANGED <<text, acting, mode>>
  BY PutIs, CommandsAre DEF Put, modem
<1>2. \A j \in 1 .. Len(cmds') : j \in 1 .. Len(cmds) \/ j = Len(cmds) + 1
  BY <1>1
<1>3. ASSUME Gone(k) PROVE Gone(k)'
  BY <1>1, <1>2, <1>3 DEF Gone
<1>4. ASSUME Leaving(k) PROVE Leaving(k)'
  <2>1. PICK i \in 1 .. Len(cmds) : /\ cmds[i].name = "TERM" /\ Covered(i - 1)
                                    /\ \A j \in i .. Len(cmds) : cmds[j].post # k
    BY <1>4 DEF Leaving
  <2>2. i - 1 \in 0 .. Len(cmds) /\ i \in 1 .. Len(cmds')
    BY <1>1
  <2>3. Covered(i - 1)'
    BY <2>1, <2>2, CoveredPut
  <2>4. ASSUME NEW j \in i .. Len(cmds') PROVE cmds'[j].post # k
    <3>1. (j \in i .. Len(cmds) /\ j \in 1 .. Len(cmds)) \/ j = Len(cmds) + 1
      BY <1>1
    <3>. QED
      BY <1>1, <2>1, <3>1
  <2>. QED
    BY <1>1, <2>1, <2>2, <2>3, <2>4 DEF Leaving
<1>. QED
  BY <1>3, <1>4 DEF Left

\* It stays left when a command is dealt with, TERM above all.
LEMMA LeftProcessed ==
  ASSUME CycleTypes, Session, Process, NEW k \in 1 .. Posts
  PROVE  /\ Gone(k) => Gone(k)'
         /\ Left(k) => Left(k)'
<1>1. /\ Len(cmds) \in Nat /\ Len(cmds) >= 1 /\ Len(cmds') = Len(cmds) - 1
      /\ \A i \in 1 .. Len(cmds) - 1 : cmds'[i] = cmds[i + 1]
      /\ Dealt(cmds[1])
  BY TailIs, CommandsAre, ProcessIs
<1>2. ASSUME NEW i \in 1 .. Len(cmds), \A j \in i .. Len(cmds) : cmds[j].post # k
      PROVE  \A j \in 1 .. Len(cmds') : j + 1 >= i => cmds'[j].post # k
  BY <1>1, <1>2
<1>3. ASSUME Gone(k) PROVE Gone(k)'
  <2>1. text' # k
    BY <1>1, <1>3, TextFrom DEF Gone
  <2>2. acting' # {k}
    BY <1>1, <1>3 DEF Gone, Dealt
  <2>3. \A j \in 1 .. Len(cmds') : cmds'[j].post # k
    <3>1. 1 \in 1 .. Len(cmds) /\ \A j \in 1 .. Len(cmds') : j + 1 >= 1
      BY <1>1
    <3>. QED
      BY <1>2, <1>3, <3>1 DEF Gone
  <2>. QED
    BY <2>1, <2>2, <2>3 DEF Gone
<1>4. ASSUME Leaving(k) PROVE Left(k)'
  <2>1. PICK i \in 1 .. Len(cmds) : /\ cmds[i].name = "TERM" /\ Covered(i - 1)
                                    /\ \A j \in i .. Len(cmds) : cmds[j].post # k
    BY <1>4 DEF Leaving
  <2>2. CASE i = 1
    <3>1. mode # "data"
      BY <2>1, <2>2 DEF Covered
    <3>2. text' = 0 /\ acting' = {}
      BY <1>1, <2>1, <2>2, <3>1 DEF Dealt, Session
    <3>3. \A j \in 1 .. Len(cmds') : cmds'[j].post # k
      <4>1. \A j \in 1 .. Len(cmds') : j + 1 >= i
        BY <1>1, <2>2
      <4>. QED
        BY <1>2, <2>1, <4>1
    <3>. QED
      BY <3>2, <3>3 DEF Left, Gone
  <2>3. CASE i # 1
    <3>1. PICK h : h = i - 1
      OBVIOUS
    <3>2. /\ h \in 1 .. Len(cmds') /\ h \in 1 .. Len(cmds) /\ h - 1 \in Nat /\ h = (h - 1) + 1
          /\ h \in 1 .. Len(cmds) - 1 /\ h + 1 = i
      BY <1>1, <2>3, <3>1
    <3>3. cmds'[h].name = "TERM"
      BY <1>1, <2>1, <3>2
    <3>4. Covered(h - 1)'
      BY <2>1, <3>1, <3>2, CoveredProcessed
    <3>5. \A j \in h .. Len(cmds') : cmds'[j].post # k
      <4>1. \A j \in h .. Len(cmds') : j \in 1 .. Len(cmds') /\ j + 1 >= i
        BY <1>1, <3>2
      <4>. QED
        BY <1>2, <2>1, <4>1
    <3>. QED
      BY <3>2, <3>3, <3>4, <3>5 DEF Left, Leaving
  <2>. QED
    BY <2>2, <2>3
<1>5. Left(k) => Left(k)'
  BY <1>3, <1>4, Zenon DEF Left
<1>. QED
  BY <1>3, <1>5

\* It stays left when nothing comes or goes, or the modem gives something up.
LEMMA LeftSame ==
  ASSUME cmds' = cmds, mode' = mode \/ mode' = "command", text' \in {text, 0},
         acting' \in {acting, {}}, NEW k \in 1 .. Posts
  PROVE  /\ Gone(k) => Gone(k)'
         /\ Left(k) => Left(k)'
<1>1. Gone(k) => Gone(k)'
  BY DEF Gone
<1>2. ASSUME Leaving(k) PROVE Leaving(k)'
  <2>1. PICK i \in 1 .. Len(cmds) : /\ cmds[i].name = "TERM" /\ Covered(i - 1)
                                    /\ \A j \in i .. Len(cmds) : cmds[j].post # k
    BY <1>2 DEF Leaving
  <2>2. Covered(i - 1)'
    BY <2>1, CoveredSame
  <2>. QED
    BY <2>1, <2>2 DEF Leaving
<1>. QED
  BY <1>1, <1>2 DEF Left

-----------------------------------------------------------------------------
(* Each step keeps the accounts. *)

\* The faults of the next state are a number.
LEMMA CostsNext ==
  ASSUME CycleTypes'
  PROVE  \E d \in Nat : d = Costs'
<1>1. PICK x, y, z : x = late' /\ y = behind' /\ z = refused'
  OBVIOUS
<1>2. x \in Nat /\ y \in Nat /\ z \in Nat
  BY <1>1, FaultsAssumption DEF CycleTypes, FaultTypes
<1>3. Costs' = x + y + z
  BY <1>1, Zenon DEF Costs
<1>4. x + y + z \in Nat
  BY <1>2
<1>. QED
  BY <1>3, <1>4, Zenon

\* A step that sends nothing and has no command dealt with.
LEMMA SameTexts ==
  ASSUME CycleTypes, Accounted, UNCHANGED <<batch, accepted, cmds>>, Number' = Number,
         phase' # "put" => phase # "put",
         text' \in {text, 0}, acting' \in {acting, {}}, mode' \in {mode, "command"}
  PROVE  /\ Texts'
         /\ \A k \in 1 .. Posts : (Gone(k) => Gone(k)') /\ (Left(k) => Left(k)')
<1>1. \A k \in 1 .. Posts : (Gone(k) => Gone(k)') /\ (Left(k) => Left(k)')
  BY LeftSame
<1>2. /\ \A j \in 1 .. Len(cmds) : cmds[j].post <= batch
      /\ text' <= batch /\ acting' \subseteq 0 .. batch
  BY CostsAre DEF Accounted, Texts
<1>3. PICK n : n = Len(cmds)
  OBVIOUS
<1>4. Covered(n) => Covered(n)'
  BY CoveredSame
<1>5. Number' \in 23 .. 28 \/ (Number' = 22 /\ phase' # "put") \/ accepted' => Covered(n)
  BY <1>3 DEF Accounted, Texts
<1>6. Texts'
  BY <1>2, <1>3, <1>4, <1>5, Zenon DEF Texts
<1>. QED
  BY <1>1, <1>6

\* A step that sends nothing, ends no exchange, and with which the account of
\* the batch to be posted stays in order.
LEMMA SameAccounts ==
  ASSUME CycleTypes, CycleTypes', Accounted, Session', Texts',
         UNCHANGED <<batch, accepted>>, Number' = Number, phase' # "put" => phase # "put",
         \A k \in 1 .. Posts : (Gone(k) => Gone(k)') /\ (Left(k) => Left(k)'),
         Costs <= Costs',
         \A k \in 1 .. Posts : \A c \in Nat : AtMost(k, c) => AtMost(k, c)',
         \A k \in 1 .. Posts : acting # {k} => server'[k] = server[k],
         NEW b, b = batch,
         b <= Posts /\ AtMost(b, 1 + Costs) /\ Hopeful(b) =>
           Hopeful(b)' \/ Costs + 1 <= Costs' \/ \E d \in Nat : d <= Costs' /\ AtMost(b, d)'
  PROVE  Accounted'
<1>1. /\ Costs \in Nat /\ batch \in Nat /\ batch >= 1 /\ Posts \in Nat /\ b' = b
      /\ batch' = b /\ b \in Nat
  BY CostsAre
<1>0. PICK y \in Nat : Costs' = y /\ Costs <= y
  BY CostsNext, Zenon
<1>3. ASSUME NEW k \in 1 .. Posts, NEW c \in Nat, AtMost(k, c), NEW d \in Nat, c <= d
      PROVE  AtMost(k, d)'
  <2>1. AtMost(k, d)
    BY <1>3, AtMostMore
  <2>. QED
    BY <2>1
<1>5. Past'
  <2>. SUFFICES ASSUME NEW k \in 1 .. Posts, k < batch PROVE Left(k)' /\ AtMost(k, 1 + Costs)'
    BY DEF Past
  <2>1. Left(k) /\ AtMost(k, 1 + Costs)
    BY DEF Accounted, Past
  <2>2. PICK c \in Nat : c = 1 + Costs
    BY <1>1
  <2>3. PICK d \in Nat : d = 1 + y
    BY <1>0
  <2>4. AtMost(k, d)'
    <3>1. c <= d
      BY <1>0, <1>1, <2>2, <2>3
    <3>. QED
      BY <1>3, <2>1, <2>2, <3>1
  <2>5. AtMost(k, 1 + Costs)'
    BY <1>0, <2>3, <2>4, Zenon
  <2>. QED
    BY <2>1, <2>5
<1>6. Now'
  <2>. SUFFICES ASSUME b <= Posts
                PROVE  AtMost(b, Costs)' \/ (AtMost(b, 1 + Costs)' /\ (accepted \/ Hopeful(b)'))
    BY <1>1 DEF Now
  <2>0. b \in 1 .. Posts
    BY <1>1
  <2>1. PICK c \in Nat : c = Costs
    BY <1>1
  <2>2. PICK d \in Nat : d = y
    BY <1>0
  <2>3. /\ c + 1 \in Nat /\ d + 1 \in Nat /\ c <= d /\ 1 + Costs = c + 1 /\ 1 + y = d + 1
        /\ c + 1 <= d + 1
    BY <1>0, <1>1, <2>1, <2>2
  <2>4. CASE AtMost(b, Costs)
    <3>1. AtMost(b, d)'
      BY <1>3, <2>0, <2>1, <2>3, <2>4
    <3>. QED
      BY <1>0, <2>2, <3>1, Zenon
  <2>5. CASE AtMost(b, 1 + Costs) /\ accepted
    <3>1. AtMost(b, d + 1)'
      BY <1>3, <2>0, <2>3, <2>5
    <3>2. AtMost(b, 1 + Costs)'
      BY <1>0, <2>3, <3>1, Zenon
    <3>. QED
      BY <2>5, <3>2
  <2>6. CASE AtMost(b, 1 + Costs) /\ Hopeful(b)
    <3>1. AtMost(b, d + 1)'
      BY <1>3, <2>0, <2>3, <2>6
    <3>2. AtMost(b, 1 + Costs)'
      BY <1>0, <2>3, <3>1, Zenon
    <3>3. CASE Hopeful(b)'
      BY <3>2, <3>3
    <3>4. CASE Costs + 1 <= Costs'
      <4>0. Costs + 1 <= y
        BY <1>0, <3>4, Zenon
      <4>1. c + 1 <= d
        BY <2>1, <2>2, <4>0
      <4>2. AtMost(b, d)'
        BY <1>3, <2>0, <2>3, <2>6, <4>1
      <4>. QED
        BY <1>0, <2>2, <4>2, Zenon
    <3>5. ASSUME NEW e \in Nat, e <= Costs', AtMost(b, e)' PROVE AtMost(b, Costs)'
      <4>1. PICK w \in 0 .. Len(cmds)' : Idle(b, w)' /\ server'[b] + Held(b)' + w <= e
        BY <3>5 DEF AtMost
      <4>2. server'[b] \in Nat /\ Held(b)' \in {0, 1} /\ Len(cmds)' \in Nat
        <5>1. server' \in [1 .. Posts -> Nat] /\ cmds' \in Seq(Commands)
          BY DEF CycleTypes, ModemTypes
        <5>2. Len(cmds') \in Nat
          BY <5>1, LenProperties
        <5>3. Held(b)' \in {0, 1}
          BY DEF Held
        <5>. QED
          BY <2>0, <5>1, <5>2, <5>3
      <4>3. e <= y
        BY <1>0, <3>5, Zenon
      <4>4. server'[b] + Held(b)' + w <= y
        BY <4>1, <4>2, <4>3
      <4>5. server'[b] + Held(b)' + w <= Costs'
        BY <1>0, <4>4, Zenon
      <4>. QED
        BY <4>1, <4>5, Zenon DEF AtMost
    <3>. QED
      BY <2>6, <3>3, <3>4, <3>5
  <2>. QED
    BY <1>1, <2>4, <2>5, <2>6 DEF Accounted, Now
<1>7. Later'
  BY <1>1 DEF Accounted, Later, Gone
<1>8. Accepting'
  <2>1. b \in 1 .. Posts /\ accepted => (Left(b) => Left(b)')
    OBVIOUS
  <2>2. accepted => batch <= Posts
    BY <1>1 DEF CycleTypes, DriverTypes
  <2>3. accepted => b \in 1 .. Posts
    BY <1>1, <2>2
  <2>4. accepted => Number \in 26 .. 29 /\ (Number = 29 /\ phase # "put" => Left(b))
    BY DEF Accounted, Accepting
  <2>5. accepted => Number' \in 26 .. 29 /\ (Number' = 29 /\ phase' # "put" => Left(b)')
    BY <2>1, <2>3, <2>4
  <2>. QED
    BY <1>1, <2>5 DEF Accepting
<1>. QED
  BY <1>5, <1>6, <1>7, <1>8 DEF Accounted

\* The hope stays when nothing that it rests on changes.
LEMMA HopeStays ==
  ASSUME NEW k, Hopeful(k), Number' = Number, phase' # "put", phase' = "wait" => unread' <= 1,
         UNCHANGED <<cmds, text, acting>>, Visible' = Visible
  PROVE  Hopeful(k)'
BY DEF Hopeful, Due

\* Faults are never taken back.
LEMMA CostsGrow ==
  ASSUME CycleTypes, late' = late \/ late' = late + 1, behind' = behind \/ behind' = behind + 1,
         refused' = refused \/ refused' = refused + 1
  PROVE  /\ Costs <= Costs'
         /\ late' = late + 1 \/ behind' = behind + 1 \/ refused' = refused + 1 =>
              Costs + 1 <= Costs'
<1>1. PICK x, y, z : x = late' /\ y = behind' /\ z = refused'
  OBVIOUS
<1>2. /\ late \in Nat /\ behind \in Nat /\ refused \in Nat
      /\ x = late \/ x = late + 1
      /\ y = behind \/ y = behind + 1
      /\ z = refused \/ z = refused + 1
  BY <1>1, CostsAre, Zenon
<1>3. Costs' = x + y + z /\ Costs = late + behind + refused
  BY <1>1, Zenon DEF Costs
<1>4. /\ late + behind + refused <= x + y + z
      /\ x = late + 1 \/ y = behind + 1 \/ z = refused + 1 =>
           (late + behind + refused) + 1 <= x + y + z
  BY <1>2
<1>. QED
  BY <1>1, <1>3, <1>4, Zenon

\* What the driver had not read was not hoped for.
LEMMA FlushAccounts ==
  ASSUME CycleTypes, CycleTypes', Accounted, Flush
  PROVE  Accounted'
<1>1. /\ phase = "flush" /\ phase' = "wait" /\ unread' = 0
      /\ UNCHANGED <<step, batch, accepted, cmds, server, wire, http, text, mode, acting>>
      /\ UNCHANGED <<late, behind, refused>>
  BY DEF Flush, Drops, modem, faults
<1>2. Number' = Number /\ Visible' = wire' /\ Visible = wire
  <2>1. Visible' = << >> \o wire'
    BY <1>1 DEF Visible
  <2>2. wire' \in Seq(Words)
    BY <1>1 DEF CycleTypes, ModemTypes
  <2>. QED
    BY <1>1, <2>1, <2>2, VisibleIs DEF Number
<1>3. Costs <= Costs'
  BY <1>1, CostsGrow
<1>4. Session'
  BY <1>1 DEF Accounted, Session
<1>5. \A k \in 1 .. Posts : \A c \in Nat : AtMost(k, c) => AtMost(k, c)'
  BY <1>1, AtMostSame
<1>6. PICK b : b = batch
  OBVIOUS
<1>7. Hopeful(b) => Hopeful(b)'
  BY <1>1, <1>2, HopeStays
<1>8. /\ Texts'
      /\ \A k \in 1 .. Posts : (Gone(k) => Gone(k)') /\ (Left(k) => Left(k)')
  BY <1>1, <1>2, SameTexts
<1>. QED
  BY <1>1, <1>2, <1>3, <1>4, <1>5, <1>6, <1>7, <1>8, SameAccounts

\* The bearer has no part in the accounts.
LEMMA ConnectsAccounts ==
  ASSUME CycleTypes, CycleTypes', Accounted, Connects
  PROVE  Accounted'
<1>1. /\ UNCHANGED <<step, phase, batch, accepted, cmds, server, cells, unread, wire>>
      /\ UNCHANGED <<http, text, mode, acting, late, behind>>
      /\ refused' = refused \/ refused' = refused + 1
  BY DEF Connects, driver, ring, Refuses
<1>2. Number' = Number /\ Visible' = Visible
  BY <1>1 DEF Number, Visible
<1>3. Costs <= Costs'
  BY <1>1, CostsGrow
<1>4. Session'
  BY <1>1 DEF Accounted, Session
<1>5. \A k \in 1 .. Posts : \A c \in Nat : AtMost(k, c) => AtMost(k, c)'
  BY <1>1, AtMostSame
<1>6. PICK b : b = batch
  OBVIOUS
<1>7. Hopeful(b) => Hopeful(b)'
  BY <1>1, <1>2, HopeStays DEF Hopeful
<1>8. /\ Texts'
      /\ \A k \in 1 .. Posts : (Gone(k) => Gone(k)') /\ (Left(k) => Left(k)')
  BY <1>1, <1>2, SameTexts
<1>. QED
  BY <1>1, <1>2, <1>3, <1>4, <1>5, <1>6, <1>7, <1>8, SameAccounts

\* Nothing happens.
LEMMA StutterAccounts ==
  ASSUME CycleTypes, CycleTypes', Accounted, UNCHANGED cycleVars
  PROVE  Accounted'
<1>1. /\ UNCHANGED <<step, phase, batch, accepted, cmds, server, cells, unread, wire>>
      /\ UNCHANGED <<http, text, mode, acting, late, behind, refused>>
  BY DEF cycleVars, driver, ring, modem, faults
<1>2. Number' = Number /\ Visible' = Visible
  BY <1>1 DEF Number, Visible
<1>3. Costs <= Costs'
  BY <1>1, CostsGrow
<1>4. Session'
  BY <1>1 DEF Accounted, Session
<1>5. \A k \in 1 .. Posts : \A c \in Nat : AtMost(k, c) => AtMost(k, c)'
  BY <1>1, AtMostSame
<1>6. PICK b : b = batch
  OBVIOUS
<1>7. Hopeful(b) => Hopeful(b)'
  BY <1>1, <1>2, HopeStays DEF Hopeful
<1>8. /\ Texts'
      /\ \A k \in 1 .. Posts : (Gone(k) => Gone(k)') /\ (Left(k) => Left(k)')
  BY <1>1, <1>2, SameTexts
<1>. QED
  BY <1>1, <1>2, <1>3, <1>4, <1>5, <1>6, <1>7, <1>8, SameAccounts

\* No text is given up that the driver hopes for.
LEMMA DataEndsAccounts ==
  ASSUME CycleTypes, CycleTypes', Accounted, DataEnds
  PROVE  Accounted'
<1>1. /\ UNCHANGED <<step, phase, batch, accepted, cmds, server>>
      /\ UNCHANGED <<http, acting, late, behind, refused>>
      /\ mode = "data" /\ mode' = "command" /\ text' = 0 /\ cmds = << >>
  BY DEF DataEnds, driver, faults
<1>2. Number' = Number
  BY <1>1 DEF Number
<1>3. Costs <= Costs'
  BY <1>1, CostsGrow
<1>4. Session'
  BY <1>1 DEF Accounted, Session
<1>5. \A k \in 1 .. Posts : \A c \in Nat : AtMost(k, c) => AtMost(k, c)'
  BY AtMostDataEnds
<1>6. PICK b : b = batch
  OBVIOUS
<1>7. ~Hopeful(b)
  <2>. SUFFICES ASSUME Hopeful(b) PROVE FALSE
    OBVIOUS
  <2>1. Number \in 23 .. 28
    BY DEF Hopeful
  <2>2. Covered(Len(cmds)) /\ Len(cmds) = 0
    BY <1>1, <2>1, CommandsAre DEF Accounted, Texts
  <2>. QED
    BY <1>1, <2>2 DEF Covered
<1>8. /\ Texts'
      /\ \A k \in 1 .. Posts : (Gone(k) => Gone(k)') /\ (Left(k) => Left(k)')
  BY <1>1, <1>2, SameTexts
<1>. QED
  BY <1>1, <1>2, <1>3, <1>4, <1>5, <1>6, <1>7, <1>8, SameAccounts

\* Words that come behind others.
LEMMA WordsBehind ==
  ASSUME CycleTypes, NEW words \in Seq(Words), Says(words), UNCHANGED <<phase, ring>>
  PROVE  Visible' = Visible \o words
<1>1. /\ wire \in Seq(Words) /\ wire' = wire \o words /\ UNCHANGED <<phase, cells, unread>>
  BY DEF Says, ring, CycleTypes, ModemTypes
<1>2. PICK v : v = IF phase = "wait" /\ unread > 0 THEN << cells[Len(cells)] >> ELSE << >>
  OBVIOUS
<1>3. v \in Seq(Words)
  <2>1. phase = "wait" /\ unread > 0 => cells[Len(cells)] \in Words
    BY VisibleIs
  <2>. QED
    BY <1>2, <2>1
<1>4. Visible = v \o wire /\ Visible' = v \o (wire \o words)
  BY <1>1, <1>2, Zenon DEF Visible
<1>5. (v \o wire) \o words = v \o (wire \o words)
  BY <1>1, <1>3, ConcatAssociative
<1>. QED
  BY <1>4, <1>5, Zenon

\* Words that are not answers to a command.
LEMMA StaleWords ==
  /\ Seq(Stale) \subseteq Seq(Words)
  /\ \A w \in {"200", "601"} : << "HTTPACTION", w >> \in Seq(Stale)
  /\ \A s, t \in Seq(Stale) : s \o t \in Seq(Stale)
<1>1. Stale \subseteq Words
  BY Spoken DEF Stale
<1>. QED
  BY <1>1 DEF Stale

\* The post is done: the hope goes on with its status, or it was refused.
LEMMA ActionEndsAccounts ==
  ASSUME CycleTypes, CycleTypes', Accounted, ActionEnds
  PROVE  Accounted'
<1>1. PICK a \in 0 .. Posts :
           /\ acting = {a} /\ acting' = {}
           /\ UNCHANGED <<driver, ring, cmds, bearer, http, url, text, mode, late, behind>>
           /\ \/ a # 0 /\ Stores(a) /\ Says(<<"HTTPACTION", "200">>) /\ UNCHANGED refused
              \/ /\ a # 0 /\ Refuses /\ (Stores(a) \/ UNCHANGED server)
                 /\ Says(<<"HTTPACTION", "601">>)
              \/ Says(<<"HTTPACTION", "601">>) /\ UNCHANGED <<server, refused>>
  BY ActionEndsIs
<1>2. /\ UNCHANGED <<step, phase, batch, accepted, cells, unread>> /\ Number' = Number
      /\ refused' = refused \/ refused' = refused + 1
      /\ acting = {a} /\ acting' = {} /\ acting # {}
      /\ UNCHANGED <<cmds, http, text, mode, late, behind, ring>>
  BY <1>1 DEF driver, ring, Number, Refuses
<1>3. Costs <= Costs' /\ (refused' = refused + 1 => Costs + 1 <= Costs')
  BY <1>2, CostsGrow
<1>4. Session'
  BY <1>2 DEF Accounted, Session
<1>5. \A k \in 1 .. Posts : \A c \in Nat : AtMost(k, c) => AtMost(k, c)'
  BY AtMostActionEnds
<1>6. \A k \in 1 .. Posts : acting # {k} => server'[k] = server[k]
  BY <1>1, CommandsAre DEF Stores
<1>7. PICK b : b = batch
  OBVIOUS
<1>8. \E w \in {"200", "601"} : Says(<<"HTTPACTION", w>>)
  BY <1>1
<1>9. PICK w \in {"200", "601"} : Visible' = Visible \o << "HTTPACTION", w >>
  BY <1>2, <1>8, StaleWords, WordsBehind
<1>10. ASSUME b <= Posts, AtMost(b, 1 + Costs), Hopeful(b)
       PROVE  Hopeful(b)' \/ Costs + 1 <= Costs' \/ \E d \in Nat : d <= Costs' /\ AtMost(b, d)'
  <2>1. CASE /\ Number = 23 /\ Len(cmds) = 1 /\ cmds[1].name = "ACTION" /\ text = b
             /\ Visible \in Seq(Stale)
    <3>1. Visible' \in Seq(Stale)
      BY <1>9, <2>1, StaleWords
    <3>2. Hopeful(b)'
      BY <1>2, <1>10, <2>1, <3>1 DEF Hopeful
    <3>. QED
      BY <3>2
  <2>2. CASE Number = 25 /\ cmds = << >> /\ Visible = << "200" >> /\ acting = {}
    BY <1>2, <2>2
  <2>3. CASE /\ acting = {b}
             /\ \/ Number = 23 /\ \E q \in Seq(Stale) : Visible = q \o (<< "OK" >> \o << >>)
                \/ Number = 24 /\ Visible = << >>
             /\ cmds = << >>
    <3>1. CASE refused' = refused + 1
      BY <1>3, <3>1
    <3>2. CASE server' = server
      <4>1. PICK c \in Nat : c = Costs
        BY CostsAre
      <4>2. 1 + Costs = c + 1 /\ b \in 1 .. Posts
        BY <1>7, <1>10, <4>1, CostsAre
      <4>3. AtMost(b, c)'
        BY <1>10, <2>3, <3>2, <4>2, AtMostActionEnds
      <4>. QED
        BY <1>3, <4>1, <4>3
    <3>3. CASE Says(<<"HTTPACTION", "200">>) /\ server' # server
      <4>1. Visible' = Visible \o << "HTTPACTION", "200" >>
        <5>1. << "HTTPACTION", "200" >> \in Seq(Words)
          BY StaleWords
        <5>. QED
          BY <1>2, <3>3, <5>1, WordsBehind
      <4>2. CASE Number = 23
        <5>1. PICK q \in Seq(Stale) : Visible = q \o << "OK" >>
          BY <2>3, <4>2
        <5>2. (q \o << "OK" >>) \o << "HTTPACTION", "200" >>
                = q \o (<< "OK" >> \o << "HTTPACTION", "200" >>)
          <6>1. /\ q \in Seq(Words) /\ << "OK" >> \in Seq(Words)
                /\ << "HTTPACTION", "200" >> \in Seq(Words)
            BY StaleWords, Spoken
          <6>. QED
            BY <6>1, ConcatAssociative
        <5>3. Visible' = q \o (<< "OK" >> \o << "HTTPACTION", "200" >>)
          BY <4>1, <5>1, <5>2
        <5>4. Due(b, << "HTTPACTION", "200" >>)' /\ << "HTTPACTION", "200" >> \in Seq(Words)
          BY <1>2, StaleWords DEF Due
        <5>5. Hopeful(b)'
          BY <1>2, <1>10, <2>3, <4>2, <5>3, <5>4 DEF Hopeful
        <5>. QED
          BY <5>5
      <4>3. CASE Number = 24
        <5>1. Visible' = << "HTTPACTION", "200" >>
          BY <2>3, <4>1, <4>3
        <5>2. Due(b, Visible)'
          BY <1>2, <5>1 DEF Due
        <5>3. Hopeful(b)'
          BY <1>2, <1>10, <2>3, <4>3, <5>2 DEF Hopeful
        <5>. QED
          BY <5>3
      <4>. QED
        BY <2>3, <4>2, <4>3
    <3>. QED
      BY <1>1, <3>1, <3>2, <3>3 DEF Refuses
  <2>. QED
    BY <1>2, <1>10, <2>1, <2>2, <2>3 DEF Hopeful, Due
<1>11. /\ Texts'
       /\ \A k \in 1 .. Posts : (Gone(k) => Gone(k)') /\ (Left(k) => Left(k)')
  BY <1>2, SameTexts
<1>. QED
  BY <1>2, <1>3, <1>4, <1>5, <1>6, <1>7, <1>10, <1>11, SameAccounts

\* A word is lost only with a fault.
LEMMA ReceiveAccounts ==
  ASSUME CycleTypes, CycleTypes', Accounted, ReceiveWord
  PROVE  Accounted'
<1>1. /\ wire # << >> /\ wire' = Tail(wire)
      /\ UNCHANGED <<step, batch, accepted, cmds, server, late, refused>>
      /\ UNCHANGED <<http, text, mode, acting>>
      /\ behind' = IF Behind THEN behind + 1 ELSE behind
      /\ phase' # "put" => phase # "put"
  BY DEF ReceiveWord, modem
<1>2. Number' = Number
  BY <1>1 DEF Number
<1>3. Costs <= Costs' /\ (Behind => Costs + 1 <= Costs')
  BY <1>1, CostsGrow
<1>4. Session'
  BY <1>1 DEF Accounted, Session
<1>5. \A k \in 1 .. Posts : \A c \in Nat : AtMost(k, c) => AtMost(k, c)'
  BY <1>1, AtMostSame
<1>6. PICK b : b = batch
  OBVIOUS
<1>7. ASSUME Hopeful(b), ~Behind PROVE Hopeful(b)'
  <2>1. /\ cells \in Seq(Words) /\ Len(cells) \in 0 .. Cells /\ unread \in 0 .. Len(cells)
        /\ wire \in Seq(Words) /\ Cells \in Nat \ {0} /\ phase \in {"put", "flush", "wait"}
    BY LenProperties, PostsAssumption DEF CycleTypes, DriverTypes, RingTypes, ModemTypes
  <2>2. phase = "wait" /\ unread = 0
    BY <1>7, <2>1 DEF Hopeful, Behind
  <2>3. phase' = "wait" /\ unread' = 1
    <3>1. \/ unread' = Unread /\ UNCHANGED phase
          \/ phase = "flush" /\ unread' = Len(cells') /\ phase' = "wait"
          \/ phase = "wait" /\ unread = Cells /\ unread' = 0 /\ UNCHANGED phase
      BY DEF ReceiveWord
    <3>. QED
      BY <2>1, <2>2, <3>1 DEF Unread
  <2>4. Head(wire) \in Words /\ Tail(wire) \in Seq(Words) /\ wire = << Head(wire) >> \o Tail(wire)
    BY <1>1, <2>1, HeadTailProperties
  <2>. DEFINE kept == IF Len(cells) = Cells THEN Tail(cells) ELSE cells
  <2>5. kept \in Seq(Words)
    <3>1. Len(cells) = Cells => cells # << >>
      BY <2>1, EmptySeq
    <3>. QED
      BY <2>1, <3>1, HeadTailProperties
  <2>6. cells' = kept \o << Head(wire) >>
    BY DEF ReceiveWord
  <2>. HIDE DEF kept
  <2>7. cells'[Len(cells')] = Head(wire)
    BY <2>4, <2>5, <2>6
  <2>8. Visible' = << Head(wire) >> \o Tail(wire)
    BY <1>1, <2>3, <2>7 DEF Visible
  <2>9. Visible' = Visible
    BY <2>2, <2>4, <2>8, VisibleIs
  <2>. QED
    BY <1>1, <1>2, <1>7, <2>3, <2>9, HopeStays
<1>8. /\ Texts'
      /\ \A k \in 1 .. Posts : (Gone(k) => Gone(k)') /\ (Left(k) => Left(k)')
  BY <1>1, <1>2, SameTexts
<1>. QED
  BY <1>1, <1>2, <1>3, <1>4, <1>5, <1>6, <1>7, <1>8, SameAccounts

\* The command the driver hopes for goes through.
LEMMA HopeProcessed ==
  ASSUME CycleTypes, CycleTypes', Accounted, Process, NEW b \in 1 .. Posts, b = batch,
         AtMost(b, 1 + Costs), Hopeful(b), Costs' = Costs
  PROVE  Hopeful(b)' \/ \E d \in Nat : d <= Costs' /\ AtMost(b, d)'
<1>1. /\ Len(cmds) \in Nat /\ Len(cmds) >= 1 /\ cmds # << >>
      /\ Len(cmds') = Len(cmds) - 1
      /\ Dealt(cmds[1]) /\ server' = server /\ server[b] \in Nat
      /\ UNCHANGED <<step, phase, cells, unread, ring>>
  BY TailIs, CommandsAre, ProcessIs DEF driver, ring
<1>2. /\ Number = 23 /\ Len(cmds) = 1 /\ cmds[1].name = "ACTION" /\ text = b
      /\ Visible \in Seq(Stale)
  BY <1>1 DEF Hopeful
<1>3. cmds' = << >> /\ Len(cmds') = 0
  <2>1. cmds' \in Seq(Commands) /\ Len(cmds') = 0
    BY <1>1, <1>2 DEF CycleTypes, ModemTypes
  <2>. QED
    BY <2>1, EmptySeq
<1>4. mode # "data" /\ http
  <2>1. Covered(1)
    BY <1>2 DEF Accounted, Texts
  <2>2. mode # "data"
    BY <1>2, <2>1 DEF Covered
  <2>3. text # 0
    BY <1>2
  <2>. QED
    BY <2>2, <2>3 DEF Accounted, Session
<1>5. CASE acting = {} /\ acting' = {text} /\ Says(<< "OK" >>)
  <2>1. Visible' = Visible \o << "OK" >>
    <3>1. << "OK" >> \in Seq(Words)
      BY Spoken
    <3>. QED
      BY <1>1, <1>5, <3>1, WordsBehind
  <2>2. Visible' = Visible \o (<< "OK" >> \o << >>) /\ Due(b, << >>)' /\ << >> \in Seq(Words)
    BY <1>2, <1>5, <2>1 DEF Due
  <2>3. Number' = 23 /\ phase' # "put" /\ (phase' = "wait" => unread' <= 1)
    BY <1>1, <1>2 DEF Hopeful, Number
  <2>4. Hopeful(b)'
    BY <1>2, <1>3, <2>2, <2>3 DEF Hopeful
  <2>. QED
    BY <2>4
<1>6. CASE acting # {} /\ acting' = acting
  <2>1. PICK w \in 0 .. Len(cmds) : Idle(b, w) /\ server[b] + Held(b) + w <= 1 + Costs
    BY DEF AtMost
  <2>2. w = 1
    <3>1. w # 0
      <4>. SUFFICES ASSUME w = 0 PROVE FALSE
        OBVIOUS
      <4>1. 1 \in 1 .. Len(cmds) - w
        BY <1>2
      <4>. QED
        BY <1>2, <2>1, <4>1 DEF Idle
    <3>. QED
      BY <1>2, <3>1
  <2>3. Held(b) \in {0, 1} /\ Held(b)' = Held(b) /\ Costs \in Nat
    BY <1>6, CostsAre DEF Held
  <2>4. server[b] + Held(b) + 0 <= Costs
    BY <1>1, <2>1, <2>2, <2>3
  <2>5. server'[b] + Held(b)' + 0 <= Costs
    BY <1>1, <2>3, <2>4
  <2>6. Idle(b, 0)'
    BY <1>3 DEF Idle
  <2>7. 0 \in 0 .. Len(cmds)'
    BY <1>3
  <2>8. PICK d \in Nat : d = Costs
    BY <2>3
  <2>9. AtMost(b, d)'
    BY <2>5, <2>6, <2>7, <2>8 DEF AtMost
  <2>10. d <= Costs'
    BY <2>8
  <2>. QED
    BY <2>9, <2>10
<1>7. UNCHANGED acting => acting # {}
  BY <1>1, <1>2, <1>4 DEF Dealt
<1>. QED
  BY <1>1, <1>2, <1>4, <1>5, <1>6 DEF Dealt

\* The command hoped for goes through, or a post goes on that was counted already.
LEMMA ProcessAccounts ==
  ASSUME CycleTypes, CycleTypes', Accounted, Process
  PROVE  Accounted'
<1>1. /\ Len(cmds) \in Nat /\ Len(cmds) >= 1 /\ cmds # << >>
      /\ Len(cmds') = Len(cmds) - 1
      /\ \A i \in 1 .. Len(cmds) - 1 : cmds'[i] = cmds[i + 1]
      /\ Dealt(cmds[1]) /\ UNCHANGED <<server, late, behind>>
      /\ UNCHANGED <<step, phase, batch, accepted>>
      /\ refused' = refused \/ refused' = refused + 1
  BY TailIs, CommandsAre, ProcessIs DEF driver
<1>2. Number' = Number
  BY <1>1 DEF Number
<1>3. Costs <= Costs' /\ (refused' = refused + 1 => Costs + 1 <= Costs')
  BY <1>1, CostsGrow
<1>4. Session'
  <2>1. http \in BOOLEAN /\ mode \in {"command", "data"}
    BY DEF CycleTypes, ModemTypes
  <2>. QED
    BY <1>1, <2>1 DEF Accounted, Session, Dealt
<1>5. \A k \in 1 .. Posts : \A c \in Nat : AtMost(k, c) => AtMost(k, c)'
  BY AtMostProcessed
<1>6. PICK b : b = batch
  OBVIOUS
<1>7. ASSUME b <= Posts, AtMost(b, 1 + Costs), Hopeful(b)
      PROVE  Hopeful(b)' \/ Costs + 1 <= Costs' \/ \E d \in Nat : d <= Costs' /\ AtMost(b, d)'
  <2>1. b \in 1 .. Posts
    BY <1>6, <1>7, CostsAre
  <2>2. CASE refused' = refused
    <3>1. Costs' = Costs
      BY <1>1, <2>2, Zenon DEF Costs
    <3>. QED
      BY <1>6, <1>7, <2>1, <3>1, HopeProcessed
  <2>. QED
    BY <1>1, <1>3, <2>2
<1>8. Texts'
  <2>0. cmds[1].post <= batch /\ batch \in Nat
    BY <1>1, CostsAre DEF Accounted, Texts
  <2>1. \A j \in 1 .. Len(cmds') : cmds'[j].post <= batch'
    <3>. SUFFICES ASSUME NEW j \in 1 .. Len(cmds') PROVE cmds'[j].post <= batch'
      OBVIOUS
    <3>1. j \in 1 .. Len(cmds) - 1 /\ j + 1 \in 1 .. Len(cmds)
      BY <1>1
    <3>2. cmds'[j] = cmds[j + 1] /\ cmds[j + 1].post <= batch
      BY <1>1, <3>1 DEF Accounted, Texts
    <3>. QED
      BY <1>1, <3>2
  <2>2. text' <= batch' /\ acting' \subseteq 0 .. batch'
    <3>1. text' \in {text, cmds[1].post, 0} /\ acting' \in {acting, {}, {text}}
      BY <1>1 DEF Dealt
    <3>2. text <= batch /\ acting \subseteq 0 .. batch /\ text \in Nat
      BY CommandsAre DEF Accounted, Texts
    <3>3. text' <= batch
      BY <2>0, <3>1, <3>2
    <3>4. acting' \subseteq 0 .. batch
      BY <2>0, <3>1, <3>2
    <3>. QED
      BY <1>1, <3>3, <3>4
  <2>3. PICK n : n = Len(cmds)
    OBVIOUS
  <2>4. PICK m : m = n - 1
    OBVIOUS
  <2>5. n \in 1 .. Len(cmds) /\ m \in Nat /\ n = m + 1 /\ m = Len(cmds')
    BY <1>1, <2>3, <2>4
  <2>6. Covered(n) => Covered(m)'
    BY <2>5, CoveredProcessed
  <2>7. Number \in 23 .. 28 \/ (Number = 22 /\ phase # "put") \/ accepted => Covered(n)
    BY <2>3 DEF Accounted, Texts
  <2>8. Number' \in 23 .. 28 \/ (Number' = 22 /\ phase' # "put") \/ accepted' => Covered(m)'
    BY <1>1, <1>2, <2>6, <2>7
  <2>. QED
    BY <2>1, <2>2, <2>5, <2>8, Zenon DEF Texts
<1>9. \A k \in 1 .. Posts : (Gone(k) => Gone(k)') /\ (Left(k) => Left(k)')
  BY LeftProcessed DEF Accounted
<1>. QED
  BY <1>1, <1>2, <1>3, <1>4, <1>5, <1>6, <1>7, <1>8, <1>9, SameAccounts

\* What the closing of the service sends.
LEMMA TermSent == Script[29].sends = "TERM"
BY DEF Script, X, CheckLine, Ask, QueryOperator, SetAPN, Open, HttpPost, HttpRead,
       HttpClose, BearerClose

\* ACTION is sent for the first time, or the last command was late.
LEMMA PutAccounts ==
  ASSUME CycleTypes, CycleTypes', Accounted, Put
  PROVE  Accounted'
<1>1. /\ phase = "put" /\ phase' = "flush" /\ wire = << >> /\ wire' = wire
      /\ UNCHANGED <<step, batch, accepted, server, behind, refused>>
      /\ UNCHANGED <<http, text, mode, acting>>
      /\ late' = IF cmds # << >> THEN late + 1 ELSE late
  BY DEF Put, modem, Unanswered
<1>2. /\ Len(cmds) \in Nat /\ Len(cmds') = Len(cmds) + 1 /\ (cmds = << >> <=> Len(cmds) = 0)
      /\ \A i \in 1 .. Len(cmds) : cmds'[i] = cmds[i]
      /\ cmds'[Len(cmds) + 1].name = Row.sends
      /\ cmds'[Len(cmds) + 1].post = IF Row.sends = "body" THEN batch ELSE 0
  BY PutIs, CommandsAre
<1>3. /\ Number' = Number /\ Number \in 1 .. 30 /\ Row = Script[Number]
      /\ Costs \in Nat /\ batch \in Nat /\ batch >= 1 /\ Posts \in Nat
  BY <1>1, NumberIs, CostsAre DEF CycleTypes, DriverTypes, Number
<1>4. /\ (Row.sends = "ACTION") <=> (Number = 23)
      /\ (Row.sends = "body") <=> (Number = 22)
      /\ (Row.sends = "DATA") <=> (Number = 21)
      /\ Number = 29 => Row.sends = "TERM"
  BY <1>3, SendsAre, TermSent
<1>5. Costs' = IF cmds # << >> THEN Costs + 1 ELSE Costs
  <2>1. late \in Nat /\ behind \in Nat /\ refused \in Nat
    BY CostsAre
  <2>2. PICK x : x = late'
    OBVIOUS
  <2>3. Costs' = x + behind + refused
    BY <1>1, <2>2, Zenon DEF Costs
  <2>4. Costs = late + behind + refused
    BY Zenon DEF Costs
  <2>5. x + behind + refused = IF cmds # << >> THEN (late + behind + refused) + 1
                                               ELSE late + behind + refused
    BY <1>1, <2>1, <2>2
  <2>. QED
    BY <2>3, <2>4, <2>5, Zenon
<1>6. PICK b \in Nat : b = batch
  BY <1>3
<1>7. PICK c \in Nat : c = Costs
  BY <1>3
<1>8. /\ 1 + Costs = c + 1
      /\ cmds = << >> => Costs' = c
      /\ cmds # << >> => Costs' = c + 1 /\ 1 + Costs' = (c + 1) + 1
      /\ cmds = << >> => 1 + Costs' = c + 1
  <2>1. PICK y : y = Costs'
    OBVIOUS
  <2>2. y = IF cmds # << >> THEN c + 1 ELSE c
    BY <1>5, <1>7, <2>1, Zenon
  <2>3. /\ 1 + Costs = c + 1
        /\ cmds = << >> => y = c
        /\ cmds # << >> => y = c + 1 /\ 1 + y = (c + 1) + 1
        /\ cmds = << >> => 1 + y = c + 1
    BY <1>7, <2>2
  <2>. QED
    BY <2>1, <2>3, Zenon
<1>9. Session'
  BY <1>1 DEF Accounted, Session
<1>10. Texts'
  <2>1. \A j \in 1 .. Len(cmds') : cmds'[j].post <= batch
    <3>. SUFFICES ASSUME NEW j \in 1 .. Len(cmds') PROVE cmds'[j].post <= batch
      OBVIOUS
    <3>1. j \in 1 .. Len(cmds) \/ j = Len(cmds) + 1
      BY <1>2
    <3>. QED
      BY <1>2, <1>3, <3>1 DEF Accounted, Texts
  <2>2. text' <= batch /\ acting' \subseteq 0 .. batch
    BY <1>1 DEF Accounted, Texts
  <2>3. ASSUME Number \in 23 .. 28 \/ Number = 22 \/ accepted
        PROVE  Covered(Len(cmds))'
    <3>1. Number \in 22 .. 29
      BY <2>3 DEF Accounted, Accepting
    <3>2. Row.sends # "DATA" /\ (Number # 22 => Covered(Len(cmds)))
      BY <1>3, <1>4, <2>3, <3>1 DEF Accounted, Texts
    <3>. QED
      BY <1>4, <3>2, CoveredBehind
  <2>. QED
    BY <1>1, <1>3, <2>1, <2>2, <2>3 DEF Texts
<1>11. ASSUME NEW k \in 1 .. Posts, k # batch
       PROVE  /\ Gone(k) => Gone(k)'
              /\ Left(k) => Left(k)'
  BY <1>11, LeftPut
<1>12. Past'
  <2>. SUFFICES ASSUME NEW k \in 1 .. Posts, k < b PROVE Left(k)' /\ AtMost(k, 1 + Costs)'
    BY <1>1, <1>6 DEF Past
  <2>1. Left(k) /\ AtMost(k, c + 1)
    <3>1. Left(k) /\ AtMost(k, 1 + Costs)
      BY <1>6 DEF Accounted, Past
    <3>. QED
      BY <1>8, <3>1, Zenon
  <2>2. Left(k)'
    BY <1>6, <1>11, <2>1
  <2>3. CASE cmds # << >>
    <3>1. AtMost(k, (c + 1) + 1)'
      BY <2>1, AtMostPut
    <3>. QED
      BY <1>8, <2>2, <2>3, <3>1, Zenon
  <2>4. CASE cmds = << >>
    <3>1. Gone(k)
      BY <1>2, <2>1, <2>4 DEF Left, Leaving
    <3>2. AtMost(k, c + 1)'
      BY <2>1, <2>4, <3>1, AtMostPut DEF Gone
    <3>. QED
      BY <1>8, <2>2, <2>4, <3>2, Zenon
  <2>. QED
    BY <2>3, <2>4
<1>13. Now'
  <2>. SUFFICES ASSUME b <= Posts
                PROVE  AtMost(b, Costs)' \/ (AtMost(b, 1 + Costs)' /\ (accepted \/ Hopeful(b)'))
    BY <1>1, <1>6 DEF Now
  <2>1. b \in 1 .. Posts
    BY <1>3, <1>6
  <2>2. AtMost(b, c) \/ (AtMost(b, c + 1) /\ accepted)
    BY <1>1, <1>6, <1>7, <1>8 DEF Accounted, Now, Hopeful
  <2>3. CASE cmds # << >>
    <3>1. AtMost(b, c + 1)' \/ (AtMost(b, (c + 1) + 1)' /\ accepted)
      BY <2>1, <2>2, AtMostPut
    <3>. QED
      BY <1>8, <2>3, <3>1, Zenon
  <2>4. CASE cmds = << >> /\ (Row.sends # "ACTION" \/ text # b)
    <3>1. AtMost(b, c)' \/ (AtMost(b, c + 1)' /\ accepted)
      BY <2>1, <2>2, <2>4, AtMostPut
    <3>2. ASSUME AtMost(b, c)' PROVE AtMost(b, Costs)'
      BY <1>8, <2>4, <3>2, Zenon
    <3>3. ASSUME AtMost(b, c + 1)' PROVE AtMost(b, 1 + Costs)'
      BY <1>8, <2>4, <3>3, Zenon
    <3>. QED
      BY <3>1, <3>2, <3>3
  <2>5. CASE cmds = << >> /\ Row.sends = "ACTION" /\ text = b
    <3>1. Number = 23 /\ ~accepted
      BY <1>4, <2>5 DEF Accounted, Accepting
    <3>2. AtMost(b, c + 1)'
      BY <2>1, <2>2, <3>1, AtMostPut
    <3>3. Len(cmds') = 1 /\ cmds'[1].name = "ACTION" /\ text' = b
      BY <1>1, <1>2, <2>5
    <3>4. Visible' = << >> \o << >>
      BY <1>1 DEF Visible
    <3>5. Visible' \in Seq(Stale)
      BY <3>4
    <3>6. Hopeful(b)'
      BY <1>1, <1>3, <3>1, <3>3, <3>5 DEF Hopeful
    <3>. QED
      BY <1>8, <2>5, <3>2, <3>6, Zenon
  <2>. QED
    BY <2>3, <2>4, <2>5
<1>14. Later'
  <2>. SUFFICES ASSUME NEW k \in 1 .. Posts, k > b PROVE Gone(k)' /\ server'[k] = 0
    BY <1>1, <1>6 DEF Later
  <2>1. Gone(k) /\ server[k] = 0
    BY <1>6 DEF Accounted, Later
  <2>. QED
    BY <1>1, <1>6, <1>11, <2>1
<1>15. Accepting'
  <2>1. ASSUME accepted, Number = 29 PROVE Left(batch)'
    <3>. DEFINE i == Len(cmds) + 1
    <3>0. batch >= 1
      BY <1>3
    <3>1. /\ i \in 1 .. Len(cmds') /\ i - 1 = Len(cmds) /\ cmds'[i].name = "TERM"
          /\ \A j \in i .. Len(cmds') : j = i
      BY <1>2, <1>4, <2>1
    <3>2. cmds'[i].post = 0
      BY <1>2, <1>4, <2>1
    <3>3. \A j \in i .. Len(cmds') : cmds'[j].post # batch
      BY <3>0, <3>1, <3>2
    <3>4. PICK n : n = Len(cmds)
      OBVIOUS
    <3>5. Covered(n)'
      <4>1. n \in 0 .. Len(cmds) /\ Covered(n)
        BY <1>2, <2>1, <3>4 DEF Accounted, Texts
      <4>. QED
        BY <4>1, CoveredPut
    <3>. HIDE DEF i
    <3>6. PICK h : h = i
      OBVIOUS
    <3>7. /\ h \in 1 .. Len(cmds)' /\ cmds'[h].name = "TERM" /\ Covered(h - 1)'
          /\ \A j \in h .. Len(cmds)' : cmds'[j].post # batch'
      BY <1>1, <3>1, <3>3, <3>4, <3>5, <3>6
    <3>8. Leaving(batch)'
      BY <3>7, Zenon DEF Leaving
    <3>. QED
      BY <3>8 DEF Left
  <2>. QED
    BY <1>1, <1>3, <2>1 DEF Accounted, Accepting
<1>. QED
  BY <1>9, <1>10, <1>12, <1>13, <1>14, <1>15 DEF Accounted

\* An exchange that ends leaves the accounts in order, if the hope for the
\* batch goes on, is fulfilled or is paid for.
LEMMA ConcludesAccounts ==
  ASSUME CycleTypes, CycleTypes', Accounted, phase = "wait",
         NEW answer \in Row.awaits \cup {NoAnswer}, Concludes(answer),
         UNCHANGED <<cmds, http, text, mode, acting, server>>, Costs <= Costs',
         NEW b, b = batch, Hopeful(b) => Hopeful(b)' \/ accepted' \/ Costs + 1 <= Costs'
  PROVE  Accounted'
<1>1. /\ phase' = IF Script[Number'].sends = NoAnswer THEN "flush" ELSE "put"
      /\ Number' \in {1, 10, 15, 17, 29, 30} \/ (Number' = Number + 1 /\ answer \in Row.passes)
      /\ \/ accepted' = accepted /\ batch' = batch /\ Number # 29
         \/ /\ Number = 25 /\ answer \in Row.passes
            /\ accepted' = TRUE /\ batch' = batch /\ Number' = 26
         \/ /\ Number = 29 /\ accepted' = FALSE
            /\ batch' = IF accepted THEN batch + 1 ELSE batch
  BY ConcludesIs DEF CycleTypes
<1>2. /\ step \in Steps /\ Number \in 1 .. 30
      /\ Costs \in Nat /\ b \in Nat /\ b >= 1 /\ Posts \in Nat
      /\ accepted \in BOOLEAN /\ accepted' \in BOOLEAN
  BY NumberIs, CostsAre DEF CycleTypes, DriverTypes
<1>3. PICK y \in Nat : Costs' = y /\ Costs <= y
  BY CostsNext, Zenon
<1>4. PICK c \in Nat : c = Costs
  BY <1>2
<1>5. c <= y /\ 1 + Costs = c + 1 /\ c + 1 <= y + 1 /\ 1 + y = y + 1
  BY <1>3, <1>4
<1>6. \A k \in 1 .. Posts : (Gone(k) => Gone(k)') /\ (Left(k) => Left(k)')
  BY LeftSame
<1>7. ASSUME NEW k \in 1 .. Posts, NEW e \in Nat, AtMost(k, e), NEW d \in Nat, e <= d
      PROVE  AtMost(k, d)'
  <2>1. AtMost(k, d)
    BY <1>7, AtMostMore
  <2>. QED
    BY <2>1, AtMostSame
\* What is true of y, or of one more, is true of Costs, or of one more.
<1>8. ASSUME NEW k PROVE /\ AtMost(k, y)' => AtMost(k, Costs)'
                         /\ AtMost(k, y + 1)' => AtMost(k, 1 + Costs)'
  <2>1. ASSUME AtMost(k, y)' PROVE AtMost(k, Costs)'
    BY <1>3, <2>1, Zenon
  <2>2. ASSUME AtMost(k, y + 1)' PROVE AtMost(k, 1 + Costs)'
    <3>1. y + 1 = 1 + Costs'
      BY <1>3, <1>5, Zenon
    <3>. QED
      BY <2>2, <3>1, Zenon
  <2>. QED
    BY <2>1, <2>2
<1>9. Session'
  BY DEF Accounted, Session
<1>10. Texts'
  <2>0. batch' \in {b, b + 1}
    BY <1>1
  <2>1. \A j \in 1 .. Len(cmds') : cmds'[j].post <= batch'
    <3>1. \A j \in 1 .. Len(cmds) : cmds[j].post \in Nat /\ cmds[j].post <= b
      BY CommandsAre DEF Accounted, Texts
    <3>. QED
      BY <1>2, <2>0, <3>1
  <2>2. text' <= batch' /\ acting' \subseteq 0 .. batch'
    <3>1. text \in Nat /\ text <= b /\ acting \subseteq 0 .. b
      BY CommandsAre DEF Accounted, Texts
    <3>. QED
      BY <1>2, <2>0, <3>1
  <2>3. ~(Number' = 22 /\ phase' # "put")
    BY <1>1, SendsAre DEF NoAnswer
  <2>4. Number' \in 23 .. 28 => Number \in 22 .. 27
    BY <1>1, <1>2
  <2>5. accepted' => accepted \/ Number = 25
    BY <1>1
  <2>6. PICK n : n = Len(cmds)
    OBVIOUS
  <2>7. Number' \in 23 .. 28 \/ accepted' => Covered(n)
    <3>1. Number \in 23 .. 28 \/ (Number = 22 /\ phase # "put") \/ accepted => Covered(n)
      BY <2>6 DEF Accounted, Texts
    <3>. QED
      BY <1>2, <2>4, <2>5, <3>1
  <2>8. Covered(n) => Covered(n)'
    BY CoveredSame
  <2>9. n = Len(cmds')
    BY <2>6
  <2>. QED
    BY <2>1, <2>2, <2>3, <2>7, <2>8, <2>9, Zenon DEF Texts
<1>11. ASSUME NEW k \in 1 .. Posts, Left(k), AtMost(k, 1 + Costs)
       PROVE  Left(k)' /\ AtMost(k, 1 + Costs)'
  <2>1. AtMost(k, y + 1)'
    <3>1. AtMost(k, c + 1)
      BY <1>5, <1>11
    <3>. QED
      BY <1>5, <1>7, <3>1
  <2>. QED
    BY <1>6, <1>8, <1>11, <2>1
<1>12. b <= Posts => AtMost(b, 1 + Costs)
  <2>1. ASSUME b <= Posts, AtMost(b, Costs) PROVE AtMost(b, 1 + Costs)
    <3>1. Costs <= 1 + Costs /\ 1 + Costs \in Nat /\ b \in 1 .. Posts
      BY <1>2, <2>1
    <3>. QED
      BY <1>2, <2>1, <3>1, AtMostMore
  <2>. QED
    BY <2>1 DEF Accounted, Now
<1>13. Past'
  <2>. SUFFICES ASSUME NEW k \in 1 .. Posts, k < batch' PROVE Left(k)' /\ AtMost(k, 1 + Costs)'
    BY DEF Past
  <2>1. CASE k < b
    BY <1>11, <2>1 DEF Accounted, Past
  <2>2. CASE ~(k < b)
    <3>1. k = b /\ Number = 29 /\ accepted
      BY <1>1, <1>2, <2>2
    <3>2. Left(k) /\ AtMost(k, 1 + Costs)
      BY <1>12, <3>1 DEF Accounted, Accepting
    <3>. QED
      BY <1>11, <3>2
  <2>. QED
    BY <2>1, <2>2
<1>14. Now'
  <2>. SUFFICES ASSUME batch' <= Posts
                PROVE  \/ AtMost(batch, Costs)'
                       \/ AtMost(batch, 1 + Costs)' /\ (accepted' \/ Hopeful(batch)')
    BY DEF Now
  <2>1. CASE batch' = b
    <3>1. b \in 1 .. Posts
      BY <1>2, <2>1
    <3>2. AtMost(b, 1 + Costs)'
      <4>1. AtMost(b, c + 1)
        BY <1>5, <1>12, <3>1
      <4>2. AtMost(b, y + 1)'
        BY <1>5, <1>7, <3>1, <4>1
      <4>. QED
        BY <1>8, <4>2
    <3>3. CASE AtMost(b, Costs)
      <4>1. AtMost(b, y)'
        BY <1>4, <1>5, <1>7, <3>1, <3>3
      <4>2. AtMost(b, Costs)'
        BY <1>8, <4>1
      <4>. QED
        BY <2>1, <4>2
    <3>4. CASE accepted'
      BY <2>1, <3>2, <3>4
    <3>5. CASE Hopeful(b)'
      BY <2>1, <3>2, <3>5
    <3>6. CASE Costs + 1 <= Costs'
      <4>1. Costs + 1 <= y
        BY <1>3, <3>6, Zenon
      <4>2. c + 1 <= y
        BY <1>4, <4>1
      <4>3. AtMost(b, c + 1)
        BY <1>5, <1>12, <3>1
      <4>4. AtMost(b, y)'
        BY <1>7, <3>1, <4>2, <4>3
      <4>5. AtMost(b, Costs)'
        BY <1>8, <4>4
      <4>. QED
        BY <2>1, <4>5
    <3>7. AtMost(b, Costs) \/ (accepted \/ Hopeful(b))
      BY <3>1 DEF Accounted, Now
    <3>8. accepted => accepted'
      <4>1. Number = 29 /\ accepted => batch' = b + 1
        BY <1>1, <1>2
      <4>2. ~(Number = 29 /\ accepted)
        BY <1>2, <2>1, <4>1
      <4>. QED
        BY <1>1, <1>2, <4>2
    <3>. QED
      BY <3>3, <3>4, <3>5, <3>6, <3>7, <3>8
  <2>2. CASE batch' # b
    <3>1. PICK k : k = b + 1
      OBVIOUS
    <3>2. k = batch' /\ k \in 1 .. Posts /\ k > b
      BY <1>1, <1>2, <2>2, <3>1
    <3>3. Gone(k) /\ server[k] = 0
      BY <3>2 DEF Accounted, Later
    <3>4. Idle(k, 0) /\ Held(k) = 0 /\ Len(cmds) \in Nat
      <4>1. Len(cmds) \in Nat /\ Held(k) = 0
        BY <3>3, CommandsAre DEF Gone, Held
      <4>2. \A i \in 1 .. Len(cmds) - 0 : \A j \in 1 .. i - 1 : j \in 1 .. Len(cmds)
        BY <4>1
      <4>3. Idle(k, 0)
        BY <3>3, <4>2, Zenon DEF Gone, Idle
      <4>. QED
        BY <4>1, <4>3
    <3>5. AtMost(k, 0)
      <4>1. 0 \in 0 .. Len(cmds) /\ server[k] + Held(k) + 0 <= 0
        BY <3>3, <3>4
      <4>. QED
        BY <3>4, <4>1 DEF AtMost
    <3>6. 0 <= y /\ 0 \in Nat
      OBVIOUS
    <3>7. AtMost(k, y)'
      BY <1>7, <3>2, <3>5, <3>6
    <3>8. AtMost(k, Costs)'
      BY <1>8, <3>7
    <3>. QED
      BY <3>2, <3>8
  <2>. QED
    BY <2>1, <2>2
<1>15. Later'
  <2>. SUFFICES ASSUME NEW k \in 1 .. Posts, k > batch' PROVE Gone(k)' /\ server'[k] = 0
    BY DEF Later
  <2>1. k > b
    BY <1>1, <1>2
  <2>2. Gone(k) /\ server[k] = 0
    BY <2>1 DEF Accounted, Later
  <2>. QED
    BY <1>6, <2>2
<1>16. Accepting'
  <2>. SUFFICES ASSUME accepted' PROVE Number' \in 26 .. 29 /\ ~(Number' = 29 /\ phase' # "put")
    BY DEF Accepting
  <2>1. ~(Number' = 29 /\ phase' # "put")
    BY <1>1, TermSent DEF NoAnswer
  <2>2. CASE Number' = 26
    BY <2>1, <2>2
  <2>3. CASE accepted /\ Number # 29
    <3>1. Number \in 26 .. 28 /\ Number \in 17 .. 28
      BY <2>3 DEF Accounted, Accepting
    <3>2. Number' \in {Number + 1, 29}
      BY <1>2, <3>1, PostConcludes
    <3>. QED
      BY <2>1, <3>1, <3>2
  <2>. QED
    BY <1>1, <1>2, <2>2, <2>3
<1>. QED
  BY <1>9, <1>10, <1>13, <1>14, <1>15, <1>16 DEF Accounted

\* The first word of what the driver hopes to read.
LEMMA HopeRead ==
  ASSUME CycleTypes, Read, NEW b, Hopeful(b),
         NEW word \in Words, NEW rest \in Seq(Words), Visible = << word >> \o rest, rest = wire
  PROVE  Hopeful(b)' \/ (word \in Row.awaits /\ accepted')
<1>1. /\ phase = "wait" /\ unread > 0 /\ unread' = unread - 1
      /\ UNCHANGED <<cells, wire, cmds, text, acting>>
  BY DEF Read, modem
<1>2. unread = 1 /\ unread' = 0 /\ unread \in Nat /\ Len(cells) \in Nat
  BY <1>1, LenProperties DEF CycleTypes, RingTypes, Hopeful
<1>3. /\ step \in Steps /\ Number \in 1 .. 30 /\ Row = Script[Number]
  BY NumberIs DEF CycleTypes, DriverTypes
<1>4. Visible' = rest
  <2>1. Visible' = << >> \o wire'
    BY <1>2 DEF Visible
  <2>. QED
    BY <1>1, <2>1
<1>5. IF word \in Row.awaits THEN Concludes(word) ELSE UNCHANGED driver
  <2>1. Visible = << cells[Len(cells)] >> \o wire
    BY <1>1, <1>2, VisibleIs
  <2>2. cells[Len(cells)] \in Words
    BY <1>1, VisibleIs
  <2>3. word = cells[Len(cells)]
    BY <2>1, <2>2, Pushed
  <2>4. Len(cells) - unread + 1 = Len(cells)
    BY <1>2
  <2>5. word = cells[Len(cells) - unread + 1]
    BY <2>3, <2>4, Zenon
  <2>. QED
    BY <2>5, Zenon DEF Read
<1>6. word = Visible[1] /\ Visible # << >> /\ rest = Tail(Visible) /\ Visible \in Seq(Words)
  BY Pushed
\* A word that is not awaited.
<1>7. word \notin Row.awaits => Number' = Number /\ phase' # "put"
  BY <1>1, <1>5 DEF driver, Number
\* A word that is awaited, and lets the driver go on.
<1>8. word \in Row.passes /\ word \in Row.awaits /\ Number \in {23, 24} =>
        Number' = Number + 1 /\ phase' = "flush"
  <2>. SUFFICES ASSUME word \in Row.passes, word \in Row.awaits, Number \in {23, 24}
                PROVE  Number' = Number + 1 /\ phase' = "flush"
    OBVIOUS
  <2>1. Number' = Number + 1
    BY <1>3, <1>5, PostConcludes
  <2>2. phase' = IF Script[Number'].sends = NoAnswer THEN "flush" ELSE "put"
    BY <1>1, <1>5, ConcludesIs DEF CycleTypes
  <2>3. Number' \in {24, 25}
    BY <2>1
  <2>4. Script[24].sends = NoAnswer /\ Script[25].sends = NoAnswer
    BY SendsAre
  <2>5. Script[Number'].sends = NoAnswer
    BY <2>3, <2>4
  <2>. QED
    BY <2>1, <2>2, <2>5
<1>9. CASE /\ Number = 23 /\ Len(cmds) = 1 /\ cmds[1].name = "ACTION" /\ text = b
           /\ Visible \in Seq(Stale)
  <2>1. word \in Stale /\ rest \in Seq(Stale)
    BY <1>6, <1>9, HeadTailProperties
  <2>2. word \notin Row.awaits
    BY <1>3, <1>9, <2>1, PostRows DEF Stale, Returns
  <2>3. Hopeful(b)'
    BY <1>1, <1>2, <1>4, <1>7, <1>9, <2>1, <2>2 DEF Hopeful
  <2>. QED
    BY <2>1, <2>2, <2>3
<1>10. CASE /\ Number = 23 /\ cmds = << >>
            /\ \E q \in Seq(Stale), v \in Seq(Words) :
                 Due(b, v) /\ Visible = q \o (<< "OK" >> \o v)
  <2>1. PICK q \in Seq(Stale), v \in Seq(Words) : Due(b, v) /\ Visible = q \o (<< "OK" >> \o v)
    BY <1>10
  <2>2. CASE q = << >>
    <3>1. Visible = << "OK" >> \o v
      <4>1. << "OK" >> \o v \in Seq(Words)
        BY Spoken, Pushed
      <4>. QED
        BY <2>1, <2>2, <4>1
    <3>2. word = "OK" /\ rest = v
      BY <1>6, <3>1, Pushed, Spoken
    <3>3. word \in Row.awaits /\ word \in Row.passes
      BY <1>3, <1>10, <3>2, PostRows DEF Returns
    <3>4. Number' = 24 /\ phase' = "flush"
      BY <1>8, <1>10, <3>3
    <3>5. Due(b, Visible)'
      BY <1>1, <1>4, <2>1, <3>2 DEF Due
    <3>6. Hopeful(b)'
      BY <1>1, <1>10, <3>4, <3>5 DEF Hopeful
    <3>. QED
      BY <1>10, <3>3, <3>6
  <2>3. CASE q # << >>
    <3>1. Head(q) \in Stale /\ Tail(q) \in Seq(Stale)
      BY <2>3, HeadTailProperties
    <3>2. q \in Seq(Words) /\ << "OK" >> \o v \in Seq(Words)
      BY StaleWords, Spoken, Pushed
    <3>3. word = Head(q) /\ rest = Tail(q) \o (<< "OK" >> \o v)
      <4>1. PICK h, t, x : h = Head(q) /\ t = Tail(q) /\ x = << "OK" >> \o v
        OBVIOUS
      <4>2. h \in Words /\ t \in Seq(Words) /\ x \in Seq(Words) /\ q = << h >> \o t
        BY <2>3, <3>2, <4>1, HeadTailProperties
      <4>3. Visible = << h >> \o (t \o x)
        <5>1. << h >> \in Seq(Words)
          BY <4>2
        <5>2. Visible = (<< h >> \o t) \o x
          BY <2>1, <4>1, <4>2, Zenon
        <5>3. (<< h >> \o t) \o x = << h >> \o (t \o x)
          BY <4>2, <5>1, ConcatAssociative
        <5>. QED
          BY <5>2, <5>3, Zenon
      <4>4. t \o x \in Seq(Words)
        BY <4>2
      <4>5. word = h /\ rest = t \o x
        BY <1>6, <4>2, <4>3, <4>4, Pushed
      <4>. QED
        BY <4>1, <4>5, Zenon
    <3>4. word \notin Row.awaits
      BY <1>3, <1>10, <3>1, <3>3, PostRows DEF Stale, Returns
    <3>5. Due(b, v)'
      BY <1>1, <2>1 DEF Due
    <3>6. Number' = 23 /\ cmds' = << >> /\ phase' # "put" /\ (phase' = "wait" => unread' <= 1)
      BY <1>1, <1>2, <1>7, <1>10, <3>4
    <3>7. Hopeful(b)'
      BY <1>4, <3>1, <3>3, <3>5, <3>6 DEF Hopeful
    <3>. QED
      BY <1>10, <3>4, <3>7
  <2>. QED
    BY <2>2, <2>3
<1>11. CASE Number = 24 /\ cmds = << >> /\ Due(b, Visible)
  <2>1. Visible = << "HTTPACTION", "200" >> /\ acting = {}
    BY <1>6, <1>11 DEF Due
  <2>2. word = "HTTPACTION" /\ rest = << "200" >>
    <3>1. word = "HTTPACTION"
      BY <1>6, <2>1
    <3>2. Tail(<< "HTTPACTION", "200" >>) = << "200" >>
      BY Tails, Zenon
    <3>3. rest = << "200" >>
      BY <1>6, <2>1, <3>2, Zenon
    <3>. QED
      BY <3>1, <3>3
  <2>3. word \in Row.awaits /\ word \in Row.passes
    BY <1>3, <1>11, <2>2, PostRows
  <2>4. Number' = 25 /\ phase' = "flush"
    BY <1>8, <1>11, <2>3
  <2>5. Hopeful(b)'
    BY <1>1, <1>4, <1>11, <2>1, <2>2, <2>4 DEF Hopeful
  <2>. QED
    BY <1>11, <2>3, <2>5
<1>12. CASE Number = 25 /\ cmds = << >> /\ Visible = << "200" >> /\ acting = {}
  <2>1. word = "200"
    BY <1>6, <1>12
  <2>2. word \in Row.awaits /\ word \in Row.passes /\ step = "status"
    BY <1>3, <1>12, <2>1, PostRows, NumberIs DEF Lines
  <2>3. accepted' = TRUE
    BY <1>5, <2>2 DEF Concludes, Succeeds
  <2>. QED
    BY <1>12, <2>2, <2>3
<1>. QED
  BY <1>9, <1>10, <1>11, <1>12, Zenon DEF Hopeful

\* A word is read: it is skipped, or it ends the exchange.
LEMMA ReadAccounts ==
  ASSUME CycleTypes, CycleTypes', Accounted, Read
  PROVE  Accounted'
<1>1. /\ phase = "wait" /\ unread > 0
      /\ UNCHANGED <<cmds, server, late, behind, refused>>
      /\ UNCHANGED <<http, text, mode, acting>>
  BY DEF Read, modem, faults
<1>2. PICK word : word = cells[Len(cells) - unread + 1]
  OBVIOUS
<1>3. IF word \in Row.awaits THEN Concludes(word) ELSE UNCHANGED driver
  BY <1>2, Zenon DEF Read
<1>4. PICK b : b = batch
  OBVIOUS
<1>5. ASSUME Hopeful(b) PROVE Hopeful(b)' \/ (word \in Row.awaits /\ accepted')
  <2>1. PICK last, rest : last = cells[Len(cells)] /\ rest = wire
    OBVIOUS
  <2>2. last \in Words /\ rest \in Seq(Words) /\ Visible = << last >> \o rest
    BY <1>1, <2>1, VisibleIs DEF CycleTypes, ModemTypes
  <2>3. Len(cells) - unread + 1 = Len(cells)
    BY <1>1, <1>5, LenProperties DEF CycleTypes, RingTypes, Hopeful
  <2>4. last = word
    BY <1>2, <2>1, <2>3, Zenon
  <2>. QED
    BY <1>5, <2>1, <2>2, <2>4, HopeRead
<1>6. Costs <= Costs'
  BY <1>1, CostsGrow
<1>7. CASE word \in Row.awaits
  BY <1>1, <1>3, <1>4, <1>5, <1>6, <1>7, ConcludesAccounts
<1>8. CASE word \notin Row.awaits
  <2>1. UNCHANGED <<step, phase, batch, accepted>> /\ Number' = Number
    BY <1>3, <1>8 DEF driver, Number
  <2>2. Session'
    BY <1>1 DEF Accounted, Session
  <2>3. \A k \in 1 .. Posts : \A c \in Nat : AtMost(k, c) => AtMost(k, c)'
    BY <1>1, AtMostSame
  <2>4. /\ Texts'
        /\ \A k \in 1 .. Posts : (Gone(k) => Gone(k)') /\ (Left(k) => Left(k)')
    BY <1>1, <2>1, SameTexts
  <2>. QED
    BY <1>1, <1>4, <1>5, <1>6, <1>8, <2>1, <2>2, <2>3, <2>4, SameAccounts
<1>. QED
  BY <1>7, <1>8

\* The driver gives up an answer that it hopes for only when it is late.
LEMMA TimesOutAccounts ==
  ASSUME CycleTypes, CycleTypes', Accounted, TimesOut
  PROVE  Accounted'
<1>1. /\ phase = "wait" /\ unread = 0 /\ wire = << >>
      /\ UNCHANGED <<cmds, server, behind, refused>>
      /\ UNCHANGED <<http, text, mode, acting>>
      /\ Unanswered(cmds # <<>> \/ acting # {} \/ (mode = "data" /\ step # "data"))
  BY DEF TimesOut, modem
<1>2. /\ late' = late \/ late' = late + 1
      /\ cmds # << >> \/ acting # {} => late' = late + 1
  BY <1>1 DEF Unanswered
<1>3. Costs <= Costs' /\ (late' = late + 1 => Costs + 1 <= Costs')
  BY <1>1, <1>2, CostsGrow
<1>4. PICK b : b = batch
  OBVIOUS
<1>5. ASSUME Hopeful(b) PROVE Costs + 1 <= Costs'
  <2>1. Visible = << >>
    BY <1>1, VisibleIs
  <2>2. ASSUME NEW q \in Seq(Stale), NEW v \in Seq(Words), Visible = q \o (<< "OK" >> \o v)
        PROVE  FALSE
    <3>1. q \in Seq(Words) /\ << "OK" >> \o v \in Seq(Words) /\ << "OK" >> \o v # << >>
      BY StaleWords, Spoken, Pushed
    <3>2. Len(q \o (<< "OK" >> \o v)) = Len(q) + Len(<< "OK" >> \o v)
      BY <3>1
    <3>3. Len(q) \in Nat /\ Len(<< "OK" >> \o v) \in Nat /\ Len(<< "OK" >> \o v) # 0
      BY <3>1, LenProperties, EmptySeq
    <3>4. Len(Visible) = 0
      BY <2>1
    <3>. QED
      BY <2>2, <3>2, <3>3, <3>4
  <2>3. cmds # << >> \/ acting # {}
    <3>. SUFFICES ASSUME cmds = << >>, acting = {} PROVE FALSE
      OBVIOUS
    <3>1. Len(cmds) = 0 /\ Visible # << "200" >> /\ Visible # << "HTTPACTION", "200" >>
      BY <2>1
    <3>2. ~Due(b, Visible)
      BY <2>1, <3>1 DEF Due
    <3>3. \/ Len(cmds) = 1
          \/ \E q \in Seq(Stale), v \in Seq(Words) : Visible = q \o (<< "OK" >> \o v)
          \/ Due(b, Visible) \/ Visible = << "200" >>
      BY <1>5, Zenon DEF Hopeful
    <3>4. Len(cmds) # 1
      BY <3>1
    <3>5. ~(\E q \in Seq(Stale), v \in Seq(Words) : Visible = q \o (<< "OK" >> \o v))
      BY <2>2
    <3>. QED
      BY <3>1, <3>2, <3>3, <3>4, <3>5, Zenon
  <2>. QED
    BY <1>2, <1>3, <2>3
<1>6. CASE try < Row.tries
  <2>1. UNCHANGED <<step, batch, accepted>> /\ Number' = Number
    BY <1>6 DEF TimesOut, Number
  <2>2. Session'
    BY <1>1 DEF Accounted, Session
  <2>3. \A k \in 1 .. Posts : \A c \in Nat : AtMost(k, c) => AtMost(k, c)'
    BY <1>1, AtMostSame
  <2>4. /\ Texts'
        /\ \A k \in 1 .. Posts : (Gone(k) => Gone(k)') /\ (Left(k) => Left(k)')
    BY <1>1, <2>1, SameTexts
  <2>. QED
    BY <1>1, <1>3, <1>4, <1>5, <2>1, <2>2, <2>3, <2>4, SameAccounts
<1>7. CASE ~(try < Row.tries)
  <2>1. Concludes(NoAnswer)
    BY <1>7 DEF TimesOut
  <2>2. PICK answer : answer = NoAnswer
    OBVIOUS
  <2>3. answer \in Row.awaits \cup {NoAnswer} /\ Concludes(answer)
    BY <2>1, <2>2
  <2>. QED
    BY <1>1, <1>3, <1>4, <1>5, <2>3, ConcludesAccounts
<1>. QED
  BY <1>6, <1>7

\* Every step keeps the accounts.
LEMMA AccountsKept ==
  ASSUME CycleTypes, CycleTypes', Accounted, [CycleNext]_cycleVars
  PROVE  Accounted'
BY StutterAccounts, PutAccounts, FlushAccounts, ReadAccounts, TimesOutAccounts,
   ReceiveAccounts, ProcessAccounts, DataEndsAccounts, ActionEndsAccounts, ConnectsAccounts
DEF CycleNext, Driver, Modem

\* They are in order at the start of a cycle, and so they always are.
LEMMA AccountsStart ==
  ASSUME CycleInit
  PROVE  Accounted
<1>. USE PostsAssumption DEF CycleInit
<1>1. Number = 1 /\ Len(cmds) = 0 /\ Costs = 0
  BY Numbers DEF Number, Costs
<1>2. Session
  BY DEF Session
<1>3. Texts
  <2>1. ~(Number \in 23 .. 28 \/ (Number = 22 /\ phase # "put") \/ accepted)
    BY <1>1
  <2>2. \A j \in 1 .. Len(cmds) : cmds[j].post <= batch
    BY <1>1
  <2>3. text <= batch /\ acting \subseteq 0 .. batch
    OBVIOUS
  <2>. QED
    BY <2>1, <2>2, <2>3 DEF Texts
<1>4. Past
  <2>1. \A k \in 1 .. Posts : ~(k < batch)
    OBVIOUS
  <2>. QED
    BY <2>1 DEF Past
<1>5. \A k \in 1 .. Posts : Gone(k) /\ server[k] = 0
  <2>. SUFFICES ASSUME NEW k \in 1 .. Posts PROVE Gone(k) /\ server[k] = 0
    OBVIOUS
  <2>1. server[k] = 0
    OBVIOUS
  <2>2. text # k /\ acting # {k}
    OBVIOUS
  <2>. QED
    BY <1>1, <2>1, <2>2 DEF Gone
<1>6. Now
  <2>. SUFFICES ASSUME batch <= Posts PROVE AtMost(batch, Costs)
    BY DEF Now
  <2>1. batch \in 1 .. Posts
    OBVIOUS
  <2>2. server[batch] = 0 /\ Held(batch) = 0
    BY <1>5, <2>1 DEF Gone, Held
  <2>3. Idle(batch, 0)
    BY <1>1 DEF Idle
  <2>4. 0 \in 0 .. Len(cmds) /\ server[batch] + Held(batch) + 0 <= Costs
    BY <1>1, <2>2
  <2>. QED
    BY <2>3, <2>4 DEF AtMost
<1>7. Later
  BY <1>5 DEF Later
<1>8. Accepting
  BY DEF Accepting
<1>. QED
  BY <1>2, <1>3, <1>4, <1>6, <1>7, <1>8 DEF Accounted

LEMMA AccountsHold == CycleSpec => []Accounted
BY CycleStarts, CycleTypesKept, CycleTypesHold, AccountsStart, AccountsKept, PTL DEF CycleSpec

\* Whatever is late, lost, refused or read out of time, however often, the
\* driver sends no batch to the server once more than there were such
\* faults: a repeated ACTION of sim900_http_post, or a batch posted again by
\* the datalogger, is always paid for by one of them.
THEOREM RepeatsHaveCauses == CycleSpec => []RepeatsAreBounded
<1>1. CycleTypes /\ Accounted => RepeatsAreBounded
  <2>. SUFFICES ASSUME CycleTypes, Accounted, NEW k \in 1 .. Posts
                PROVE  server[k] <= 1 + late + behind + refused
    BY DEF RepeatsAreBounded
  <2>1. /\ late \in Nat /\ behind \in Nat /\ refused \in Nat /\ Costs = late + behind + refused
        /\ batch \in Nat /\ server[k] \in Nat /\ Len(cmds) \in Nat /\ Held(k) \in {0, 1}
    BY CostsAre, CommandsAre DEF Costs, Held
  <2>2. ASSUME NEW c \in Nat, AtMost(k, c) PROVE server[k] <= c
    <3>1. PICK w \in 0 .. Len(cmds) : server[k] + Held(k) + w <= c
      BY <2>2 DEF AtMost
    <3>. QED
      BY <2>1, <3>1
  <2>3. Costs \in Nat /\ 1 + Costs \in Nat
    BY <2>1
  <2>4. CASE k < batch
    <3>1. server[k] <= 1 + Costs
      BY <2>2, <2>3, <2>4 DEF Accounted, Past
    <3>. QED
      BY <2>1, <3>1
  <2>5. CASE k = batch
    <3>1. AtMost(k, Costs) \/ AtMost(k, 1 + Costs)
      BY <2>5 DEF Accounted, Now
    <3>2. server[k] <= Costs \/ server[k] <= 1 + Costs
      BY <2>2, <2>3, <3>1
    <3>. QED
      BY <2>1, <3>2
  <2>6. CASE k > batch
    <3>1. server[k] = 0
      BY <2>6 DEF Accounted, Later
    <3>. QED
      BY <2>1, <3>1
  <2>. QED
    BY <2>1, <2>4, <2>5, <2>6
<1>. QED
  BY <1>1, CycleTypesHold, AccountsHold, PTL

-----------------------------------------------------------------------------
(***************************************************************************)
(* What is accepted is stored, however many answers are late, if the ring  *)
(* holds no more than two words or the driver reads in time.  A text that  *)
(* the modem takes is the one of the driver's post, because it is asked    *)
(* for one only by the DATA that the driver still waits for (Awaited);     *)
(* from then on only this batch is acted on (OwnPost), as a session has    *)
(* ended since any earlier ACTION (Sessions); and a status that an earlier *)
(* post left in the ring has been pushed out of it, by words of this one,  *)
(* before the driver reads a status (OwnStatus).                           *)
(***************************************************************************)

\* When the n-th command is past, no earlier post is still acted on.
Over(n) ==
  /\ acting # {} => \E j \in 1 .. n : cmds[j].name = "TERM"
  /\ \A i \in 1 .. n : cmds[i].name = "ACTION" => \E j \in i + 1 .. n : cmds[j].name = "TERM"

\* A text is asked for only then.
Sessions ==
  /\ \A h \in 1 .. Len(cmds) : cmds[h].name = "DATA" => Over(h - 1)
  /\ Number \in 23 .. 28 \/ (Number = 29 /\ phase = "put") \/ Over(Len(cmds))
  /\ mode = "data" => acting = {}

\* A word is not on the line, nor among the last n received; when the
\* driver has words to read, one more of them is of this exchange.
Hears == phase = "wait" /\ unread > 0
Aged(w, n) ==
  /\ \A i \in 1 .. Len(wire) : wire[i] # w
  /\ \A i \in 1 .. Len(cells) : i > Len(cells) - n => cells[i] # w
Unseen(w, n) == Aged(w, n) /\ (Hears => Aged(w, n + 1))

\* The modem's last word: a prompt, only if it still waits for a text.
Latest ==
  IF wire # << >> THEN wire[Len(wire)]
  ELSE IF cells # << >> THEN cells[Len(cells)] ELSE NoAnswer
Prompted == Latest = "DOWNLOAD" => mode = "data"

\* The driver looks at the last two words at most, and what it waits for without
\* a command of its own it does not ask for.
Calm ==
  /\ Cells > 2 /\ phase = "wait" => unread <= 1
  /\ phase = "put" => Number \notin {24, 25}

\* A text on its way will be taken, and the prompt the driver sees is that of its DATA.
NoText == \A j \in 1 .. Len(cmds) : cmds[j].name # "body"
Waiting == mode = "data" /\ NoText
Awaited ==
  /\ \A j \in 1 .. Len(cmds) : cmds[j].name = "body" =>
       mode = "data" /\ \A i \in 1 .. Len(cmds) : cmds[i].name = "body" => i = j
  /\ Number = 17 /\ phase # "put" => NoText \/ (wire = << >> /\ ~Hears)
  /\ Number \in 18 .. 21 => NoText
  /\ Number = 21 /\ phase # "put" => Waiting \/ Unseen("DOWNLOAD", 1)
  /\ Number = 22 /\ phase = "put" => Waiting

\* The text of this post is on its way, or it is the one the modem acts on.
Coming ==
  \E p \in 1 .. Len(cmds) :
    /\ cmds[p].name = "body" /\ cmds[p].post = batch
    /\ \A j \in p + 1 .. Len(cmds) : cmds[j].name = "ACTION"
Taken ==
  /\ text = batch /\ acting \subseteq {batch} /\ mode = "command"
  /\ \A j \in 1 .. Len(cmds) : cmds[j].name = "ACTION"
OwnPost == (Number = 22 /\ phase # "put") \/ Number \in 23 .. 25 => Coming \/ Taken

\* A 200 that the driver may read tells that this batch is stored.
OwnStatus ==
  /\ (Number = 23 /\ phase # "put") \/ Number = 24 => Unseen("200", 0) \/ server[batch] > 0
  /\ Number = 25 => Unseen("200", 1) \/ server[batch] > 0

Faithful == Calm /\ Prompted /\ Awaited /\ OwnPost /\ OwnStatus /\ SentIsStored

-----------------------------------------------------------------------------
(* Sessions. *)

\* What was over stays so, when the modem ends a post or the driver goes on.
LEMMA OverSame ==
  ASSUME cmds' = cmds, acting' = acting \/ acting' = {}, NEW n, Over(n)
  PROVE  Over(n)'
<1>1. acting' # {} => acting # {}
  OBVIOUS
<1>. QED
  BY <1>1, Zenon DEF Over

LEMMA SameSessions ==
  ASSUME CycleTypes, Sessions, cmds' = cmds, acting' = acting \/ acting' = {},
         mode' = mode \/ mode' = "command",
         Number \in 23 .. 28 \/ (Number = 29 /\ phase = "put") =>
           Number' \in 23 .. 28 \/ (Number' = 29 /\ phase' = "put")
  PROVE  Sessions'
<1>1. \A n : Over(n) => Over(n)'
  BY OverSame
<1>2. mode' = "data" => acting' = {}
  BY DEF Sessions
<1>3. ASSUME NEW h \in 1 .. Len(cmds'), cmds'[h].name = "DATA"
      PROVE  Over(h - 1)'
  <2>1. PICK n : n = h - 1
    OBVIOUS
  <2>2. Over(n)
    BY <1>3, <2>1 DEF Sessions
  <2>3. Over(n)'
    BY <1>1, <2>2
  <2>. QED
    BY <2>1, <2>3, Zenon
<1>4. Number' \in 23 .. 28 \/ (Number' = 29 /\ phase' = "put") \/ Over(Len(cmds))'
  <2>1. PICK n : n = Len(cmds)
    OBVIOUS
  <2>2. n = Len(cmds')
    BY <2>1
  <2>3. Over(n) => Over(n)'
    BY <1>1
  <2>4. Over(Len(cmds)) => Over(Len(cmds))'
    BY <2>1, <2>2, <2>3, Zenon
  <2>. QED
    BY <2>4 DEF Sessions
<1>. QED
  BY <1>2, <1>3, <1>4, Zenon DEF Sessions

\* One lemma for each action that sends, answers or ends an exchange.
LEMMA PutSessions ==
  ASSUME CycleTypes, Sessions, Put
  PROVE  Sessions'
<1>1. /\ Len(cmds) \in Nat /\ Len(cmds') = Len(cmds) + 1
      /\ \A i \in 1 .. Len(cmds) : cmds'[i] = cmds[i]
      /\ cmds'[Len(cmds) + 1].name = Row.sends
      /\ phase = "put" /\ phase' = "flush" /\ UNCHANGED <<step, mode, acting>>
  BY PutIs, CommandsAre DEF Put, modem
<1>2. /\ Number \in 1 .. 30 /\ Row = Script[Number] /\ Number' = Number
  BY <1>1, NumberIs DEF CycleTypes, DriverTypes, Number
<1>3. ASSUME NEW n \in 0 .. Len(cmds), Over(n) PROVE Over(n)'
  <2>1. \A i \in 1 .. n : cmds'[i] = cmds[i]
    BY <1>1
  <2>2. acting' # {} => \E j \in 1 .. n : cmds'[j].name = "TERM"
    BY <1>1, <1>3, <2>1, Zenon DEF Over
  <2>3. ASSUME NEW i \in 1 .. n, cmds'[i].name = "ACTION"
        PROVE  \E j \in i + 1 .. n : cmds'[j].name = "TERM"
    <3>1. PICK j \in i + 1 .. n : cmds[j].name = "TERM"
      BY <1>3, <2>1, <2>3, Zenon DEF Over
    <3>2. j \in 1 .. n
      OBVIOUS
    <3>. QED
      BY <2>1, <3>1, <3>2
  <2>. QED
    BY <2>2, <2>3, Zenon DEF Over
<1>4. PICK l \in Nat : l = Len(cmds)
  BY <1>1
<1>5. ASSUME NEW h \in 1 .. Len(cmds'), cmds'[h].name = "DATA"
      PROVE  Over(h - 1)'
  <2>1. PICK n : n = h - 1
    OBVIOUS
  <2>2. n \in 0 .. Len(cmds)
    BY <1>1, <2>1
  <2>3. CASE h \in 1 .. Len(cmds)
    <3>1. Over(n)
      BY <1>1, <1>5, <2>1, <2>3 DEF Sessions
    <3>. QED
      BY <1>3, <2>1, <2>2, <3>1, Zenon
  <2>4. CASE h \notin 1 .. Len(cmds)
    <3>1. h = Len(cmds) + 1 /\ n = Len(cmds)
      BY <1>1, <2>1, <2>4
    <3>2. Number = 21
      <4>1. Script[Number].sends = "DATA"
        BY <1>1, <1>2, <1>5, <3>1
      <4>. QED
        BY <1>2, <4>1, SendsAre
    <3>3. Over(n)
      BY <3>1, <3>2 DEF Sessions
    <3>. QED
      BY <1>3, <2>1, <2>2, <3>3, Zenon
  <2>. QED
    BY <2>3, <2>4
<1>6. CASE Number \in 23 .. 28
  BY <1>1, <1>2, <1>5, <1>6 DEF Sessions
<1>7. ASSUME Number \notin 23 .. 28 PROVE Over(l + 1)'
  <2>1. CASE Number = 29
    <3>1. cmds'[l + 1].name = "TERM" /\ l + 1 \in 1 .. l + 1
      BY <1>1, <1>2, <1>4, <2>1, TermSent
    <3>2. ASSUME NEW i \in 1 .. l + 1, cmds'[i].name = "ACTION"
          PROVE  \E j \in i + 1 .. l + 1 : cmds'[j].name = "TERM"
      <4>1. i # l + 1
        BY <3>1, <3>2
      <4>2. l + 1 \in i + 1 .. l + 1
        BY <4>1
      <4>. QED
        BY <3>1, <4>2
    <3>. QED
      BY <3>1, <3>2, Zenon DEF Over
  <2>2. CASE Number # 29
    <3>1. Over(Len(cmds))
      BY <1>7, <2>2 DEF Sessions
    <3>2. Over(l) /\ l \in 0 .. Len(cmds)
      BY <1>4, <3>1
    <3>3. Over(l)'
      BY <1>3, <3>2
    <3>4. cmds'[l + 1].name # "ACTION"
      <4>1. cmds'[l + 1].name = Script[Number].sends
        BY <1>1, <1>2, <1>4
      <4>2. Script[Number].sends # "ACTION"
        BY <1>2, <1>7, SendsAre
      <4>. QED
        BY <4>1, <4>2
    <3>5. acting' # {} => \E j \in 1 .. l + 1 : cmds'[j].name = "TERM"
      <4>1. \A j \in 1 .. l : j \in 1 .. l + 1
        OBVIOUS
      <4>. QED
        BY <3>3, <4>1, Zenon DEF Over
    <3>6. ASSUME NEW i \in 1 .. l + 1, cmds'[i].name = "ACTION"
          PROVE  \E j \in i + 1 .. l + 1 : cmds'[j].name = "TERM"
      <4>1. i \in 1 .. l
        BY <3>4, <3>6
      <4>2. PICK j \in i + 1 .. l : cmds'[j].name = "TERM"
        BY <3>3, <3>6, <4>1, Zenon DEF Over
      <4>3. j \in i + 1 .. l + 1
        OBVIOUS
      <4>. QED
        BY <4>2, <4>3
    <3>. QED
      BY <3>5, <3>6, Zenon DEF Over
  <2>. QED
    BY <2>1, <2>2
<1>8. CASE Number \notin 23 .. 28
  <2>1. l + 1 = Len(cmds')
    BY <1>1, <1>4
  <2>2. Over(Len(cmds))'
    BY <1>7, <1>8, <2>1, Zenon
  <2>3. mode' = "data" => acting' = {}
    BY <1>1 DEF Sessions
  <2>. QED
    BY <1>5, <2>2, <2>3, Zenon DEF Sessions
<1>. QED
  BY <1>6, <1>8

LEMMA ProcessSessions ==
  ASSUME CycleTypes, Sessions, Session, Process
  PROVE  Sessions'
<1>1. /\ Len(cmds) \in Nat /\ Len(cmds) >= 1 /\ Len(cmds') = Len(cmds) - 1
      /\ \A i \in 1 .. Len(cmds) - 1 : cmds'[i] = cmds[i + 1]
      /\ Dealt(cmds[1]) /\ UNCHANGED <<step, phase>>
  BY TailIs, CommandsAre, ProcessIs DEF driver
<1>2. Number' = Number
  BY <1>1 DEF Number
<1>3. ASSUME NEW n \in 1 .. Len(cmds), Over(n), NEW m \in Nat, n = m + 1
      PROVE  Over(m)'
  <2>1. ASSUME NEW i \in 2 .. n PROVE i - 1 \in 1 .. m /\ cmds'[i - 1] = cmds[i]
    <3>1. i - 1 \in 1 .. Len(cmds) - 1 /\ (i - 1) + 1 = i
      BY <1>1, <2>1
    <3>. QED
      BY <1>1, <1>3, <3>1
  <2>2. ASSUME acting' # {}
        PROVE  \E i \in 2 .. n : cmds[i].name = "TERM"
    <3>1. CASE cmds[1].name = "ACTION"
      <4>1. 1 \in 1 .. n /\ 1 + 1 = 2
        BY <1>3
      <4>. QED
        BY <1>3, <3>1, <4>1 DEF Over
    <3>2. CASE cmds[1].name # "ACTION"
      <4>1. acting' = acting /\ acting # {}
        BY <1>1, <2>2, <3>2 DEF Dealt
      <4>2. cmds[1].name # "TERM"
        BY <1>1, <2>2, <4>1 DEF Dealt, Sessions, Session
      <4>3. PICK j \in 1 .. n : cmds[j].name = "TERM"
        BY <1>3, <4>1 DEF Over
      <4>4. j \in 2 .. n
        BY <4>2, <4>3
      <4>. QED
        BY <4>3, <4>4
    <3>. QED
      BY <3>1, <3>2
  <2>3. acting' # {} => \E j \in 1 .. m : cmds'[j].name = "TERM"
    BY <2>1, <2>2
  <2>4. ASSUME NEW i \in 1 .. m, cmds'[i].name = "ACTION"
        PROVE  \E j \in i + 1 .. m : cmds'[j].name = "TERM"
    <3>1. i \in 1 .. Len(cmds) - 1 /\ i + 1 \in 1 .. n
      BY <1>1, <1>3
    <3>2. cmds[i + 1].name = "ACTION"
      BY <1>1, <2>4, <3>1
    <3>3. PICK j \in (i + 1) + 1 .. n : cmds[j].name = "TERM"
      BY <1>3, <3>1, <3>2, Zenon DEF Over
    <3>4. j \in 2 .. n /\ j - 1 \in i + 1 .. m
      BY <1>3
    <3>. QED
      BY <2>1, <3>3, <3>4
  <2>. QED
    BY <2>3, <2>4, Zenon DEF Over
<1>4. ASSUME NEW h \in 1 .. Len(cmds'), cmds'[h].name = "DATA"
      PROVE  Over(h - 1)'
  <2>1. h \in 1 .. Len(cmds) - 1 /\ h + 1 \in 1 .. Len(cmds) /\ (h + 1) - 1 = h
    BY <1>1
  <2>2. cmds[h + 1].name = "DATA"
    BY <1>1, <1>4, <2>1
  <2>3. Over(h)
    BY <2>1, <2>2 DEF Sessions
  <2>4. PICK m : m = h - 1
    OBVIOUS
  <2>5. h \in 1 .. Len(cmds) /\ m \in Nat /\ h = m + 1
    BY <2>1, <2>4
  <2>6. Over(m)'
    BY <1>3, <2>3, <2>5
  <2>. QED
    BY <2>4, <2>6, Zenon
<1>5. Number' \in 23 .. 28 \/ (Number' = 29 /\ phase' = "put") \/ Over(Len(cmds))'
  <2>1. PICK n : n = Len(cmds)
    OBVIOUS
  <2>2. PICK m : m = n - 1
    OBVIOUS
  <2>3. n \in 1 .. Len(cmds) /\ m \in Nat /\ n = m + 1 /\ m = Len(cmds')
    BY <1>1, <2>1, <2>2
  <2>4. Over(n) => Over(m)'
    BY <1>3, <2>3
  <2>5. Number \in 23 .. 28 \/ (Number = 29 /\ phase = "put") \/ Over(n)
    BY <2>1 DEF Sessions
  <2>6. Number' \in 23 .. 28 \/ (Number' = 29 /\ phase' = "put") \/ Over(m)'
    BY <1>1, <1>2, <2>4, <2>5
  <2>. QED
    BY <2>3, <2>6, Zenon
<1>6. ASSUME mode' = "data" PROVE acting' = {}
  <2>1. CASE mode = "data"
    BY <1>1, <1>6, <2>1 DEF Dealt, Sessions
  <2>2. CASE mode # "data"
    <3>1. cmds[1].name = "DATA" /\ acting' = acting
      BY <1>1, <1>6, <2>2 DEF Dealt
    <3>2. 1 \in 1 .. Len(cmds) /\ 1 - 1 = 0
      BY <1>1
    <3>3. Over(0)
      BY <3>1, <3>2 DEF Sessions
    <3>. QED
      BY <3>1, <3>3 DEF Over
  <2>. QED
    BY <2>1, <2>2
<1>. QED
  BY <1>4, <1>5, <1>6, Zenon DEF Sessions

LEMMA ConcludesSessions ==
  ASSUME CycleTypes, Sessions, phase = "wait",
         NEW answer \in Row.awaits \cup {NoAnswer}, Concludes(answer),
         UNCHANGED <<cmds, mode, acting>>
  PROVE  Sessions'
<1>1. step \in Steps /\ Number \in 1 .. 30
  BY NumberIs DEF CycleTypes, DriverTypes
<1>2. phase' = IF Script[Number'].sends = NoAnswer THEN "flush" ELSE "put"
  BY ConcludesIs DEF CycleTypes
<1>3. ASSUME Number \in 23 .. 28
      PROVE  Number' \in 23 .. 28 \/ (Number' = 29 /\ phase' = "put")
  <2>1. Number' \in {Number + 1, 29}
    BY <1>1, <1>3, PostConcludes
  <2>2. Number' = 29 => phase' = "put"
    BY <1>2, TermSent DEF NoAnswer
  <2>. QED
    BY <1>3, <2>1, <2>2
<1>. QED
  BY <1>3, SameSessions

\* No post is begun before a session has ended since the last.
LEMMA SessionsKept ==
  ASSUME CycleTypes, Sessions, Session, [CycleNext]_cycleVars
  PROVE  Sessions'
<1>1. CASE UNCHANGED <<step, phase, cmds, acting, mode>>
  BY <1>1, SameSessions DEF Number
<1>2. CASE Flush \/ ReceiveWord
  <2>1. /\ UNCHANGED <<step, cmds, acting, mode>>
        /\ phase' = phase \/ (phase # "put" /\ phase' # "put")
    BY <1>2 DEF Flush, ReceiveWord, modem
  <2>. QED
    BY <2>1, SameSessions DEF Number
<1>3. CASE Read
  <2>1. phase = "wait" /\ UNCHANGED <<cmds, acting, mode>>
    BY <1>3 DEF Read, modem
  <2>2. PICK word : word = cells[Len(cells) - unread + 1]
    OBVIOUS
  <2>3. IF word \in Row.awaits THEN Concludes(word) ELSE UNCHANGED driver
    BY <1>3, <2>2, Zenon DEF Read
  <2>4. CASE word \in Row.awaits
    BY <2>1, <2>3, <2>4, ConcludesSessions
  <2>5. CASE word \notin Row.awaits
    BY <1>1, <2>1, <2>3, <2>5 DEF driver
  <2>. QED
    BY <2>4, <2>5
<1>4. CASE TimesOut
  <2>1. phase = "wait" /\ UNCHANGED <<cmds, acting, mode>>
    BY <1>4 DEF TimesOut, modem
  <2>2. CASE try < Row.tries
    <3>1. UNCHANGED step
      BY <1>4, <2>2 DEF TimesOut
    <3>. QED
      BY <2>1, <3>1, SameSessions DEF Number
  <2>3. CASE ~(try < Row.tries)
    <3>1. PICK answer : answer = NoAnswer
      OBVIOUS
    <3>2. Concludes(answer)
      BY <1>4, <2>3, <3>1 DEF TimesOut
    <3>. QED
      BY <2>1, <3>1, <3>2, ConcludesSessions
  <2>. QED
    BY <2>2, <2>3
<1>5. CASE DataEnds
  <2>1. UNCHANGED <<step, phase, cmds, acting>> /\ mode' = "command"
    BY <1>5 DEF DataEnds, driver
  <2>. QED
    BY <2>1, SameSessions DEF Number
<1>6. CASE ActionEnds
  <2>1. UNCHANGED <<step, phase, cmds, mode>> /\ acting' = {}
    BY <1>6 DEF ActionEnds, driver
  <2>. QED
    BY <2>1, SameSessions DEF Number
<1>7. CASE Connects
  BY <1>1, <1>7 DEF Connects, driver
<1>8. CASE UNCHANGED cycleVars
  BY <1>1, <1>8 DEF cycleVars, driver, modem
<1>. QED
  BY <1>2, <1>3, <1>4, <1>5, <1>6, <1>7, <1>8, PutSessions, ProcessSessions
  DEF CycleNext, Driver, Modem

-----------------------------------------------------------------------------
(* Words come and are said. *)

\* No word is skipped that was received later than those known.
LEMMA UnseenSame ==
  ASSUME CycleTypes, UNCHANGED <<wire, cells>>
  PROVE  /\ \A w : \A n \in Nat : Aged(w, n) => Aged(w, n)'
         /\ \A w : \A n \in Nat : Aged(w, n + 1) => Aged(w, n)
         /\ (Hears' => Hears) => \A w : \A n \in Nat : Unseen(w, n) => Unseen(w, n)'
         /\ Latest' = Latest
<1>1. Len(cells) \in Nat
  BY LenProperties DEF CycleTypes, RingTypes
<1>2. \A w : \A n \in Nat : Aged(w, n) => Aged(w, n)'
  BY DEF Aged
<1>3. \A w : \A n \in Nat : Aged(w, n + 1) => Aged(w, n)
  BY <1>1 DEF Aged
<1>4. ASSUME Hears' => Hears, NEW w, NEW n \in Nat, Unseen(w, n)
      PROVE  Unseen(w, n)'
  <2>1. Aged(w, n)'
    BY <1>2, <1>4 DEF Unseen
  <2>2. PICK m \in Nat : m = n + 1
    OBVIOUS
  <2>3. Hears' => Aged(w, m)'
    BY <1>2, <1>4, <2>2 DEF Unseen
  <2>. QED
    BY <2>1, <2>2, <2>3, Zenon DEF Unseen
<1>5. Latest' = Latest
  BY DEF Latest
<1>. QED
  BY <1>2, <1>3, <1>4, <1>5, Zenon

\* A word that comes pushes the others back.
LEMMA WordComes ==
  ASSUME CycleTypes, ReceiveWord
  PROVE  /\ \A w : \A n \in Nat : Unseen(w, n) => Unseen(w, n)'
         /\ Latest' = Latest /\ wire # << >>
<1>. DEFINE kept == IF Len(cells) = Cells THEN Tail(cells) ELSE cells
<1>1. /\ cells \in Seq(Words) /\ Len(cells) \in 0 .. Cells
      /\ wire \in Seq(Words) /\ Cells \in Nat \ {0} /\ Len(wire) \in Nat
  BY LenProperties, PostsAssumption DEF CycleTypes, RingTypes, ModemTypes
<1>2. wire # << >> /\ wire' = Tail(wire) /\ cells' = kept \o << Head(wire) >>
  BY DEF ReceiveWord
<1>3. /\ Len(wire) >= 1 /\ Len(wire') = Len(wire) - 1 /\ Head(wire) = wire[1]
      /\ \A i \in 1 .. Len(wire') : i + 1 \in 1 .. Len(wire) /\ wire'[i] = wire[i + 1]
  BY <1>1, <1>2
<1>4. /\ kept \in Seq(Words) /\ Len(kept) \in Nat
      /\ \A i \in 1 .. Len(kept) : \E j \in 1 .. Len(cells) :
           kept[i] = cells[j] /\ Len(cells) - j = Len(kept) - i
  <2>1. CASE Len(cells) = Cells
    <3>1. cells # << >> /\ kept = Tail(cells)
      BY <1>1, <2>1
    <3>2. /\ kept \in Seq(Words) /\ Len(kept) = Len(cells) - 1
          /\ \A i \in 1 .. Len(kept) : kept[i] = cells[i + 1] /\ i + 1 \in 1 .. Len(cells)
      BY <1>1, <3>1
    <3>. QED
      BY <1>1, <3>2
  <2>2. CASE Len(cells) # Cells
    BY <1>1, <2>2
  <2>. QED
    BY <2>1, <2>2
<1>5. Head(wire) \in Words
  BY <1>1, <1>2, HeadTailProperties
<1>. HIDE DEF kept
<1>6. /\ cells' \in Seq(Words) /\ Len(cells') = Len(kept) + 1 /\ cells'[Len(kept) + 1] = Head(wire)
      /\ \A i \in 1 .. Len(kept) : cells'[i] = kept[i]
  BY <1>2, <1>4, <1>5
<1>7. ASSUME NEW w, NEW n \in Nat, Aged(w, n), NEW m \in Nat, m = n + 1
      PROVE  Aged(w, m)'
  <2>1. ASSUME NEW i \in 1 .. Len(wire') PROVE wire'[i] # w
    BY <1>3, <1>7 DEF Aged
  <2>2. ASSUME NEW i \in 1 .. Len(cells'), i > Len(cells') - m PROVE cells'[i] # w
    <3>1. CASE i = Len(kept) + 1
      <4>1. 1 \in 1 .. Len(wire)
        BY <1>1, <1>3
      <4>2. wire[1] # w
        BY <1>7, <4>1 DEF Aged
      <4>. QED
        BY <1>3, <1>6, <3>1, <4>2
    <3>2. CASE i # Len(kept) + 1
      <4>1. i \in 1 .. Len(kept) /\ i > Len(kept) - n
        BY <1>4, <1>6, <1>7, <2>2, <3>2
      <4>2. PICK j \in 1 .. Len(cells) : kept[i] = cells[j] /\ Len(cells) - j = Len(kept) - i
        BY <1>4, <4>1
      <4>3. j > Len(cells) - n
        BY <1>1, <1>4, <4>1, <4>2
      <4>4. cells[j] # w
        BY <1>7, <4>3 DEF Aged
      <4>. QED
        BY <1>6, <4>1, <4>2, <4>4
    <3>. QED
      BY <3>1, <3>2
  <2>. QED
    BY <2>1, <2>2, Zenon DEF Aged
<1>8. ASSUME NEW w, NEW n \in Nat, Aged(w, n) PROVE Aged(w, n)'
  <2>1. PICK m \in Nat : m = n + 1
    OBVIOUS
  <2>2. Aged(w, m)'
    BY <1>7, <1>8, <2>1
  <2>3. /\ \A i \in 1 .. Len(wire') : wire'[i] # w
        /\ \A i \in 1 .. Len(cells') : i > Len(cells') - m => cells'[i] # w
    BY <2>2, Zenon DEF Aged
  <2>4. \A i \in 1 .. Len(cells') : i > Len(cells') - n => cells'[i] # w
    BY <1>4, <1>6, <2>1, <2>3
  <2>. QED
    BY <2>3, <2>4, Zenon DEF Aged
<1>9. ASSUME NEW w, NEW n \in Nat, Unseen(w, n) PROVE Unseen(w, n)'
  <2>1. PICK m \in Nat : m = n + 1
    OBVIOUS
  <2>2. Aged(w, n)
    BY <1>9 DEF Unseen
  <2>3. Aged(w, n)' /\ Aged(w, m)'
    BY <1>7, <1>8, <2>1, <2>2
  <2>. QED
    BY <2>1, <2>3, Zenon DEF Unseen
<1>10. Latest' = Latest
  <2>1. Latest = wire[Len(wire)]
    BY <1>2 DEF Latest
  <2>2. CASE wire' = << >>
    <3>1. Len(wire) = 1 /\ cells' # << >> /\ cells'[Len(cells')] = wire[1]
      BY <1>1, <1>3, <1>4, <1>6, <2>2
    <3>. QED
      BY <2>1, <2>2, <3>1 DEF Latest
  <2>3. CASE wire' # << >>
    <3>1. wire' \in Seq(Words)
      BY <1>1, <1>2
    <3>2. Len(wire') \in 1 .. Len(wire') /\ Len(wire') + 1 = Len(wire)
      BY <1>1, <1>3, <2>3, <3>1
    <3>3. wire'[Len(wire')] = wire[Len(wire)]
      BY <1>3, <3>2
    <3>. QED
      BY <2>1, <2>3, <3>3 DEF Latest
  <2>. QED
    BY <2>2, <2>3
<1>. QED
  BY <1>2, <1>9, <1>10, Zenon

\* Words that are said do not bring back another.
LEMMA WordsSaid ==
  ASSUME CycleTypes, NEW words \in Seq(Words), Says(words), UNCHANGED <<phase, ring>>
  PROVE  /\ \A w : (\A i \in DOMAIN words : words[i] # w) =>
              \A n \in Nat : Unseen(w, n) => Unseen(w, n)'
         /\ words = << >> => wire' = wire /\ Latest' = Latest
         /\ words # << >> => Latest' = words[Len(words)]
<1>1. /\ wire \in Seq(Words) /\ wire' = wire \o words
      /\ cells' = cells /\ (Hears' <=> Hears)
      /\ Len(wire) \in Nat /\ Len(words) \in Nat
  BY LenProperties DEF Says, ring, Hears, CycleTypes, ModemTypes
<1>2. ASSUME NEW w, \A i \in DOMAIN words : words[i] # w, NEW n \in Nat, Aged(w, n)
      PROVE  Aged(w, n)'
  <2>1. ASSUME NEW i \in 1 .. Len(wire \o words) PROVE (wire \o words)[i] # w
    <3>1. CASE i \in 1 .. Len(wire)
      BY <1>1, <1>2, <3>1 DEF Aged
    <3>2. CASE i \notin 1 .. Len(wire)
      <4>1. i - Len(wire) \in DOMAIN words /\ (wire \o words)[i] = words[i - Len(wire)]
        BY <1>1, <3>2
      <4>. QED
        BY <1>2, <4>1
    <3>. QED
      BY <3>1, <3>2
  <2>. QED
    BY <1>1, <1>2, <2>1 DEF Aged
<1>3. ASSUME NEW w, \A i \in DOMAIN words : words[i] # w, NEW n \in Nat, Unseen(w, n)
      PROVE  Unseen(w, n)'
  <2>1. PICK m \in Nat : m = n + 1
    OBVIOUS
  <2>2. Aged(w, n) /\ (Hears => Aged(w, m))
    BY <1>3, <2>1, Zenon DEF Unseen
  <2>3. Aged(w, n)' /\ (Hears' => Aged(w, m)')
    BY <1>1, <1>2, <1>3, <2>2
  <2>. QED
    BY <2>1, <2>3, Zenon DEF Unseen
<1>4. words = << >> => wire' = wire /\ Latest' = Latest
  <2>1. words = << >> => wire' = wire
    BY <1>1
  <2>. QED
    BY <1>1, <2>1 DEF Latest
<1>5. ASSUME words # << >> PROVE Latest' = words[Len(words)]
  <2>1. Len(words) >= 1
    BY <1>1, <1>5
  <2>2. wire' # << >> /\ wire'[Len(wire')] = words[Len(words)]
    BY <1>1, <2>1
  <2>. QED
    BY <2>2 DEF Latest
<1>. QED
  BY <1>3, <1>4, <1>5, Zenon

\* What the modem says of a command: no status, and a prompt only for a text.
Quiet(words) == \A i \in DOMAIN words : words[i] \notin {"200", "DOWNLOAD"}

LEMMA QuietWords ==
  /\ << >> \in Seq(Words) /\ Quiet(<< >>)
  /\ \A a \in Words \ {"200", "DOWNLOAD"} : << a >> \in Seq(Words) /\ Quiet(<< a >>)
  /\ \A a, b \in Words \ {"200", "DOWNLOAD"} : << a, b >> \in Seq(Words) /\ Quiet(<< a, b >>)
  /\ << "HTTPREAD", "length", "content", "OK" >> \in Seq(Words)
  /\ Quiet(<< "HTTPREAD", "length", "content", "OK" >>)
<1>1. {"HTTPREAD", "length", "content", "OK"} \subseteq Words
  BY Spoken
<1>2. << "HTTPREAD", "length", "content", "OK" >> \in Seq(Words)
  BY <1>1
<1>. QED
  BY <1>2 DEF Quiet

LEMMA SaidIs ==
  ASSUME CycleTypes, Process
  PROVE  \E words \in Seq(Words) :
           /\ Says(words)
           /\ \/ Quiet(words)
              \/ /\ words = << "DOWNLOAD" >> /\ cmds[1].name = "DATA"
                 /\ mode = "command" /\ mode' = "data"
           /\ mode = "data" /\ cmds[1].name # "body" => words = << >>
           /\ mode = "data" /\ cmds[1].name = "body" => words = << "OK" >>
<1>. DEFINE c == Head(cmds)
<1>1. c = cmds[1] /\ mode \in {"command", "data"} /\ wire \in Seq(Words) /\ bearer \in Bearers
  BY TailIs DEF CycleTypes, ModemTypes
<1>2. \/ mode = "data" /\ c.name = "body" /\ Says(<<"OK">>)
      \/ /\ (mode = "data" /\ c.name # "body") \/ (mode = "command" /\ c.name = "body")
         /\ wire' = wire
      \/ /\ mode = "command" /\ c.name # "body"
         /\ Plain(c.name) \/ OnBearer(c.name) \/ OnHttp(c.name)
  BY <1>1 DEF Process
<1>. HIDE DEF c
<1>3. /\ \A w \in {"OK", "ERROR", "READY", "locked", "CREG", "CGATT", "CSQ", "unregistered",
                   "IMSI"} : w \in Words \ {"200", "DOWNLOAD"}
      /\ bearer \in Words \ {"200", "DOWNLOAD"}
  BY <1>1, Spoken DEF Bearers
<1>4. CASE mode = "data" /\ c.name = "body" /\ Says(<<"OK">>)
  <2>1. << "OK" >> \in Seq(Words) /\ Quiet(<< "OK" >>)
    BY <1>3, QuietWords
  <2>. QED
    BY <1>1, <1>4, <2>1
<1>5. CASE /\ (mode = "data" /\ c.name # "body") \/ (mode = "command" /\ c.name = "body")
           /\ wire' = wire
  <2>1. Says(<< >>)
    BY <1>1, <1>5 DEF Says
  <2>. QED
    BY <1>1, <1>5, <2>1, QuietWords
<1>6. ASSUME mode = "command",
             \/ \E a \in Words \ {"200", "DOWNLOAD"} : Says(<< a >>)
             \/ \E a, b \in Words \ {"200", "DOWNLOAD"} : Says(<< a, b >>)
             \/ Says(<<"HTTPREAD", "length", "content", "OK">>)
      PROVE  \E words \in Seq(Words) : Says(words) /\ Quiet(words)
  BY <1>6, QuietWords
<1>7. CASE mode = "command" /\ Plain(c.name)
  <2>1. \/ Says(<<"OK">>) \/ Says(<<"READY", "OK">>) \/ Says(<<"locked", "OK">>)
        \/ \E w \in {"CREG", "CGATT", "CSQ"} : Says(<<w, "OK">>)
        \/ Says(<<"unregistered", "OK">>) \/ Says(<<"IMSI", "OK">>)
    BY <1>7 DEF Plain
  <2>2. \/ \E a \in Words \ {"200", "DOWNLOAD"} : Says(<< a >>)
        \/ \E a, b \in Words \ {"200", "DOWNLOAD"} : Says(<< a, b >>)
    BY <1>3, <2>1
  <2>. QED
    BY <1>6, <1>7, <2>2
<1>8. CASE mode = "command" /\ OnBearer(c.name)
  <2>1. Says(<<bearer, "OK">>) \/ Says(<<"OK">>) \/ Says(<<"ERROR">>)
    BY <1>8 DEF OnBearer
  <2>2. \/ \E a \in Words \ {"200", "DOWNLOAD"} : Says(<< a >>)
        \/ \E a, b \in Words \ {"200", "DOWNLOAD"} : Says(<< a, b >>)
    BY <1>3, <2>1
  <2>. QED
    BY <1>6, <1>8, <2>2
<1>9. CASE mode = "command" /\ OnHttp(c.name)
  <2>1. \/ Says(<<"OK">>) \/ Says(<<"ERROR">>)
        \/ c.name = "DATA" /\ mode' = "data" /\ Says(<<"DOWNLOAD">>)
        \/ Says(<<"HTTPREAD", "length", "content", "OK">>)
    BY <1>9 DEF OnHttp
  <2>2. CASE c.name = "DATA" /\ mode' = "data" /\ Says(<<"DOWNLOAD">>)
    <3>1. << "DOWNLOAD" >> \in Seq(Words)
      BY Spoken
    <3>. QED
      BY <1>1, <1>9, <2>2, <3>1
  <2>3. CASE ~(c.name = "DATA" /\ mode' = "data" /\ Says(<<"DOWNLOAD">>))
    <3>1. \/ \E a \in Words \ {"200", "DOWNLOAD"} : Says(<< a >>)
          \/ Says(<<"HTTPREAD", "length", "content", "OK">>)
      BY <1>3, <2>1, <2>3
    <3>. QED
      BY <1>6, <1>9, <3>1
  <2>. QED
    BY <2>2, <2>3
<1>. QED
  BY <1>2, <1>4, <1>5, <1>7, <1>8, <1>9

\* What a text the modem waits for does to the next command, and the other way round.
LEMMA WaitingProcessed ==
  ASSUME CycleTypes, Process
  PROVE  /\ NoText => NoText'
         /\ NoText /\ mode = "data" => Waiting'
         /\ NoText /\ cmds[1].name = "DATA" /\ mode' = "data" => Waiting'
<1>1. /\ Len(cmds) \in Nat /\ Len(cmds) >= 1 /\ Len(cmds') = Len(cmds) - 1
      /\ \A i \in 1 .. Len(cmds) - 1 : cmds'[i] = cmds[i + 1]
      /\ Dealt(cmds[1])
  BY TailIs, CommandsAre, ProcessIs
<1>2. NoText => NoText'
  <2>. SUFFICES ASSUME NoText, NEW j \in 1 .. Len(cmds') PROVE cmds'[j].name # "body"
    BY DEF NoText
  <2>1. j \in 1 .. Len(cmds) - 1 /\ j + 1 \in 1 .. Len(cmds)
    BY <1>1
  <2>. QED
    BY <1>1, <2>1 DEF NoText
<1>3. NoText /\ mode = "data" => mode' = "data"
  <2>. SUFFICES ASSUME NoText, mode = "data" PROVE mode' = "data"
    OBVIOUS
  <2>1. 1 \in 1 .. Len(cmds)
    BY <1>1
  <2>2. cmds[1].name # "body"
    BY <2>1 DEF NoText
  <2>. QED
    BY <1>1, <2>2 DEF Dealt
<1>. QED
  BY <1>2, <1>3 DEF Waiting

\* The text is sent once; the exchanges of a post send something up to ACTION, and one
\* that is not answered does not go on.
LEMMA TextTried == Script[22].tries = 1
BY DEF Script, X, CheckLine, Ask, QueryOperator, SetAPN, Open, HttpPost, HttpRead,
       HttpClose, BearerClose

LEMMA SomeSend ==
  ASSUME NEW i \in 17 .. 23
  PROVE  Script[i].sends # NoAnswer
<1>. DEFINE P(n) == Script[n].sends # NoAnswer
<1>1. P(17) /\ P(18) /\ P(19) /\ P(20) /\ P(21) /\ P(22) /\ P(23)
  BY DEF Script, X, CheckLine, Ask, QueryOperator, SetAPN, Open, HttpPost, HttpRead,
         HttpClose, BearerClose, NoAnswer
<1>. HIDE DEF P
<1>2. P(i)
  BY <1>1
<1>. QED
  BY <1>2 DEF P

LEMMA AtPasses == NoAnswer \notin Script[17].passes
BY DEF Script, X, CheckLine, Ask, QueryOperator, SetAPN, Open, HttpPost, HttpRead,
       HttpClose, BearerClose, NoAnswer, Returns

\* A word that comes in time is the first of what was to be read.
LEMMA InTimeIs ==
  ASSUME CycleTypes, ReceiveWord, ~Behind
  PROVE  /\ phase = "put" \/ (phase = "wait" /\ unread = 0)
         /\ phase' = phase /\ (phase = "wait" => unread' = 1 /\ Visible' = Visible)
         /\ UNCHANGED <<step, cmds, acting>>
<1>1. /\ wire # << >> /\ wire' = Tail(wire) /\ UNCHANGED <<step, cmds, acting>>
  BY DEF ReceiveWord, modem
<1>2. /\ cells \in Seq(Words) /\ Len(cells) \in 0 .. Cells /\ unread \in 0 .. Len(cells)
      /\ wire \in Seq(Words) /\ Cells \in Nat \ {0}
      /\ phase \in {"put", "flush", "wait"}
  BY LenProperties, PostsAssumption DEF CycleTypes, DriverTypes, RingTypes, ModemTypes
<1>3. Head(wire) \in Words /\ Tail(wire) \in Seq(Words) /\ wire = << Head(wire) >> \o Tail(wire)
  BY <1>1, <1>2, HeadTailProperties
<1>4. phase = "put" \/ (phase = "wait" /\ unread = 0)
  BY <1>2 DEF Behind
<1>5. phase' = phase /\ (phase = "wait" => unread' = 1)
  <2>1. \/ unread' = Unread /\ UNCHANGED phase
        \/ phase = "flush" /\ unread' = Len(cells') /\ phase' = "wait"
        \/ phase = "wait" /\ unread = Cells /\ unread' = 0 /\ UNCHANGED phase
    BY DEF ReceiveWord
  <2>. QED
    BY <1>2, <1>4, <2>1 DEF Unread
<1>6. ASSUME phase = "wait" PROVE Visible' = Visible
  <2>. DEFINE kept == IF Len(cells) = Cells THEN Tail(cells) ELSE cells
  <2>1. kept \in Seq(Words)
    <3>1. Len(cells) = Cells => cells # << >>
      BY <1>2, EmptySeq
    <3>. QED
      BY <1>2, <3>1, HeadTailProperties
  <2>2. cells' = kept \o << Head(wire) >>
    BY DEF ReceiveWord
  <2>. HIDE DEF kept
  <2>3. cells'[Len(cells')] = Head(wire)
    BY <1>3, <2>1, <2>2
  <2>4. Visible' = << Head(wire) >> \o Tail(wire)
    BY <1>1, <1>5, <1>6, <2>3 DEF Visible
  <2>5. Visible = wire
    BY <1>4, <1>6, VisibleIs
  <2>. QED
    BY <1>3, <2>4, <2>5
<1>. QED
  BY <1>1, <1>4, <1>5, <1>6

\* Steps that end no exchange, and after which no more is to be read.
LEMMA SameFaithful ==
  ASSUME CycleTypes, Faithful,
         UNCHANGED <<step, batch, accepted, cmds, text, mode, acting, server>>,
         Latest' = Latest, \A w : \A n \in Nat : Unseen(w, n) => Unseen(w, n)',
         Number = 17 /\ phase' # "put" => NoText \/ (wire' = wire /\ (Hears' => Hears)),
         phase' # "put" => phase # "put",
         phase' = "put" => phase = "put" \/ Number \notin {22, 24, 25},
         Calm'
  PROVE  Faithful'
<1>1. Number' = Number
  BY DEF Number
<1>2. Prompted'
  BY DEF Faithful, Prompted
<1>3. (NoText' <=> NoText) /\ (Waiting' <=> Waiting)
  BY DEF Waiting, NoText
<1>4. 0 \in Nat /\ 1 \in Nat
  OBVIOUS
<1>5. Awaited'
  <2>1. ASSUME Number = 17, phase' # "put" PROVE NoText' \/ (wire' = << >> /\ ~Hears')
    BY <1>3, <2>1 DEF Faithful, Awaited
  <2>2. ASSUME Number = 21, phase' # "put" PROVE Waiting' \/ Unseen("DOWNLOAD", 1)'
    BY <1>3, <1>4, <2>2 DEF Faithful, Awaited
  <2>3. Number = 22 /\ phase' = "put" => Waiting
    BY DEF Faithful, Awaited
  <2>. QED
    BY <1>1, <1>3, <2>1, <2>2, <2>3 DEF Faithful, Awaited
<1>6. (Coming => Coming') /\ (Taken => Taken')
  BY DEF Coming, Taken
<1>7. OwnPost'
  BY <1>1, <1>6 DEF Faithful, OwnPost
<1>8. OwnStatus'
  BY <1>1, <1>4 DEF Faithful, OwnStatus
<1>9. SentIsStored'
  BY DEF Faithful, SentIsStored
<1>. QED
  BY <1>2, <1>5, <1>7, <1>8, <1>9 DEF Faithful

\* One lemma for each action.
LEMMA PutFaithful ==
  ASSUME CycleTypes, Faithful, Put
  PROVE  Faithful'
<1>1. /\ Len(cmds) \in Nat /\ Len(cmds') = Len(cmds) + 1
      /\ \A i \in 1 .. Len(cmds) : cmds'[i] = cmds[i]
      /\ cmds'[Len(cmds) + 1].name = Row.sends
      /\ cmds'[Len(cmds) + 1].post = IF Row.sends = "body" THEN batch ELSE 0
      /\ phase = "put" /\ phase' = "flush" /\ wire = << >>
      /\ UNCHANGED <<step, batch, accepted, server, text, mode, acting, wire, cells>>
  BY PutIs, CommandsAre DEF Put, modem, ring
<1>2. /\ Number \in 1 .. 30 /\ Row = Script[Number] /\ Number' = Number
  BY <1>1, NumberIs DEF CycleTypes, DriverTypes, Number
<1>3. cmds'[Len(cmds) + 1].name = Script[Number].sends
  BY <1>1, <1>2
<1>4. /\ cmds'[Len(cmds) + 1].name = "body" <=> Number = 22
      /\ cmds'[Len(cmds) + 1].name = "ACTION" <=> Number = 23
  BY <1>2, <1>3, SendsAre, ZenonT(60)
<1>5. \A j \in 1 .. Len(cmds') : j \in 1 .. Len(cmds) \/ j = Len(cmds) + 1
  BY <1>1
<1>6. ~Hears' /\ Latest' = Latest
  BY <1>1 DEF Hears, Latest
<1>7. Prompted' /\ Calm' /\ SentIsStored'
  BY <1>1, <1>2, <1>6 DEF Faithful, Prompted, Calm, SentIsStored
<1>8. Number # 22 => (NoText => NoText')
  BY <1>1, <1>4, <1>5 DEF NoText
<1>9. Awaited'
  <2>1. ASSUME NEW j \in 1 .. Len(cmds'), cmds'[j].name = "body"
        PROVE  mode' = "data" /\ \A i \in 1 .. Len(cmds') : cmds'[i].name = "body" => i = j
    <3>1. CASE Number = 22
      <4>1. mode = "data" /\ \A i \in 1 .. Len(cmds) : cmds'[i].name # "body"
        BY <1>1, <3>1 DEF Faithful, Awaited, Waiting, NoText
      <4>2. \A i \in 1 .. Len(cmds') : cmds'[i].name = "body" => i = Len(cmds) + 1
        BY <1>5, <4>1
      <4>. QED
        BY <1>1, <2>1, <4>1, <4>2
    <3>2. CASE Number # 22
      <4>1. \A i \in 1 .. Len(cmds') : cmds'[i].name = "body" =>
              i \in 1 .. Len(cmds) /\ cmds[i].name = "body"
        BY <1>1, <1>4, <1>5, <3>2
      <4>. QED
        BY <1>1, <2>1, <4>1 DEF Faithful, Awaited
    <3>. QED
      BY <3>1, <3>2
  <2>2. Number \in 18 .. 21 => NoText'
    BY <1>8 DEF Faithful, Awaited
  <2>3. ASSUME Number = 21 PROVE Waiting' \/ Unseen("DOWNLOAD", 1)'
    <3>1. CASE Latest = "DOWNLOAD"
      BY <1>1, <2>2, <2>3, <3>1 DEF Faithful, Prompted, Waiting
    <3>2. CASE Latest # "DOWNLOAD"
      <4>1. cells \in Seq(Words) /\ Len(cells) \in Nat /\ Len(wire) = 0
        BY <1>1, LenProperties DEF CycleTypes, RingTypes
      <4>2. ASSUME NEW i \in 1 .. Len(cells), i > Len(cells) - 1 PROVE cells[i] # "DOWNLOAD"
        <5>1. i = Len(cells) /\ cells # << >>
          BY <4>1, <4>2
        <5>. QED
          BY <1>1, <3>2, <5>1 DEF Latest
      <4>3. Aged("DOWNLOAD", 1)'
        BY <1>1, <4>1, <4>2 DEF Aged
      <4>. QED
        BY <1>6, <4>3 DEF Unseen
    <3>. QED
      BY <3>1, <3>2
  <2>. QED
    BY <1>1, <1>2, <1>6, <2>1, <2>2, <2>3 DEF Awaited
<1>10. OwnPost'
  <2>1. CASE Number = 22
    <3>1. Len(cmds) + 1 \in 1 .. Len(cmds') /\ (Len(cmds) + 1) + 1 > Len(cmds')
      BY <1>1
    <3>2. \A j \in (Len(cmds) + 1) + 1 .. Len(cmds') : FALSE
      BY <1>1, <3>1
    <3>3. cmds'[Len(cmds) + 1].post = batch'
      BY <1>1, <1>2, <2>1, SendsAre
    <3>. QED
      BY <1>4, <2>1, <3>1, <3>2, <3>3 DEF Coming, OwnPost
  <2>2. ASSUME Number \in 23 .. 25
        PROVE  Coming' \/ Taken'
    <3>1. Number = 23 /\ cmds'[Len(cmds) + 1].name = "ACTION" /\ (Coming \/ Taken)
      BY <1>1, <1>4, <2>2 DEF Faithful, Calm, OwnPost
    <3>2. CASE Coming
      <4>1. PICK p \in 1 .. Len(cmds) :
              /\ cmds[p].name = "body" /\ cmds[p].post = batch
              /\ \A j \in p + 1 .. Len(cmds) : cmds[j].name = "ACTION"
        BY <3>2 DEF Coming
      <4>2. p \in 1 .. Len(cmds') /\ cmds'[p].name = "body" /\ cmds'[p].post = batch'
        BY <1>1, <4>1
      <4>3. ASSUME NEW j \in p + 1 .. Len(cmds') PROVE cmds'[j].name = "ACTION"
        <5>1. j \in 1 .. Len(cmds') /\ (j \in p + 1 .. Len(cmds) \/ j = Len(cmds) + 1)
          BY <1>1
        <5>. QED
          BY <1>1, <3>1, <4>1, <5>1
      <4>. QED
        BY <4>2, <4>3 DEF Coming
    <3>3. CASE Taken
      <4>1. \A j \in 1 .. Len(cmds') : cmds'[j].name = "ACTION"
        BY <1>1, <1>5, <3>1, <3>3 DEF Taken
      <4>. QED
        BY <1>1, <3>3, <4>1 DEF Taken
    <3>. QED
      BY <3>1, <3>2, <3>3
  <2>. QED
    BY <1>2, <2>1, <2>2 DEF OwnPost
<1>11. OwnStatus'
  <2>1. Number \notin {24, 25}
    BY <1>1 DEF Faithful, Calm
  <2>2. Len(wire) = 0 /\ Len(cells) \in Nat
    BY <1>1, LenProperties DEF CycleTypes, RingTypes
  <2>3. Aged("200", 0)'
    BY <1>1, <2>2 DEF Aged
  <2>. QED
    BY <1>2, <1>6, <2>1, <2>3 DEF OwnStatus, Unseen
<1>. QED
  BY <1>7, <1>9, <1>10, <1>11 DEF Faithful

\* A text is sent after its prompt, and a batch is accepted with the status of its post.
LEMMA ConcludesFaithful ==
  ASSUME CycleTypes, Faithful, phase = "wait",
         NEW answer \in Row.awaits \cup {NoAnswer}, Concludes(answer),
         answer # NoAnswer => Hears /\ \E i \in 1 .. Len(cells) :
                                         i > Len(cells) - unread /\ cells[i] = answer,
         Cells <= 2 \/ unread <= 1,
         UNCHANGED <<wire, cells, cmds, text, mode, acting, server>>
  PROVE  Faithful'
<1>1. /\ step \in Steps /\ Number \in 1 .. 30 /\ Row = Script[Number]
      /\ batch \in 1 .. Posts + 1 /\ Posts \in Nat
      /\ accepted => batch <= Posts
  <2>1. /\ step \in Steps /\ batch \in 1 .. Posts + 1 /\ Posts \in Nat
        /\ accepted => batch <= Posts
    BY PostsAssumption DEF CycleTypes, DriverTypes
  <2>. QED
    BY <2>1, NumberIs
<1>a. Number \in Nat
  <2>1. Number \in 1 .. 30
    BY <1>1
  <2>. QED
    BY <2>1
<1>2. /\ phase' = IF Script[Number'].sends = NoAnswer THEN "flush" ELSE "put"
      /\ Number' \in {1, 10, 15, 17, 29, 30} \/ (Number' = Number + 1 /\ answer \in Row.passes)
      /\ \/ accepted' = accepted /\ batch' = batch /\ Number # 29
         \/ /\ Number = 25 /\ answer \in Row.passes
            /\ accepted' = TRUE /\ batch' = batch /\ Number' = 26
         \/ /\ Number = 29 /\ accepted' = FALSE
            /\ batch' = IF accepted THEN batch + 1 ELSE batch
  BY ConcludesIs DEF CycleTypes
<1>3. ASSUME NEW w, Aged(w, 2) PROVE answer # w \/ w = NoAnswer
  <2>1. unread <= 2
    BY PostsAssumption, LenProperties DEF CycleTypes, RingTypes
  <2>. SUFFICES ASSUME answer = w, w # NoAnswer PROVE FALSE
    OBVIOUS
  <2>2. PICK i \in 1 .. Len(cells) : i > Len(cells) - unread /\ cells[i] = w
    OBVIOUS
  <2>3. i > Len(cells) - 2
    BY <2>1, <2>2, LenProperties DEF CycleTypes, RingTypes
  <2>. QED
    BY <1>3, <2>2, <2>3 DEF Aged
<1>4. ~Hears' /\ Latest' = Latest
  BY <1>2 DEF Hears, Latest
<1>5. Number' \in 17 .. 23 => phase' = "put"
  <2>1. Number' \in 17 .. 23 => Script[Number'].sends # NoAnswer
    BY SomeSend
  <2>. QED
    BY <1>2, <2>1
<1>6. phase' # "wait" /\ (phase' = "put" => Number' \notin {24, 25})
  <2>1. Number' \in {24, 25} => Script[Number'].sends = NoAnswer
    BY SendsAre
  <2>. QED
    BY <1>2, <2>1
<1>7. Calm' /\ Prompted'
  BY <1>4, <1>6 DEF Faithful, Calm, Prompted
<1>8. (NoText' <=> NoText) /\ (Waiting' <=> Waiting)
  BY DEF Waiting, NoText
<1>9. Awaited'
  <2>1. ASSUME Number' \in 18 .. 21 PROVE NoText
    <3>1. Number \in 17 .. 20 /\ answer \in Row.passes
      <4>1. Number' \notin {1, 10, 15, 17, 29, 30}
        BY <2>1
      <4>2. Number' = Number + 1 /\ answer \in Row.passes
        BY <1>2, <4>1
      <4>. QED
        BY <1>a, <2>1, <4>2
    <3>2. CASE Number = 17
      <4>1. answer # NoAnswer
        BY <1>1, <3>1, <3>2, AtPasses
      <4>. QED
        BY <3>2, <4>1 DEF Faithful, Awaited
    <3>. QED
      BY <3>1, <3>2 DEF Faithful, Awaited
  <2>2. ASSUME Number' = 22 PROVE Waiting
    <3>1. Number = 21 /\ answer \in Row.passes
      BY <1>1, <1>2, <2>2
    <3>2. answer = "DOWNLOAD"
      BY <1>1, <3>1, PostRows
    <3>3. Waiting \/ Unseen("DOWNLOAD", 1)
      BY <3>1 DEF Faithful, Awaited
    <3>4. Hears /\ 1 + 1 = 2 /\ "DOWNLOAD" # NoAnswer
      BY <3>2 DEF NoAnswer
    <3>5. Unseen("DOWNLOAD", 1) => Aged("DOWNLOAD", 2)
      BY <3>4 DEF Unseen
    <3>. QED
      BY <1>3, <3>2, <3>3, <3>4, <3>5
  <2>3. \A j \in 1 .. Len(cmds') : cmds'[j].name = "body" =>
          mode' = "data" /\ \A i \in 1 .. Len(cmds') : cmds'[i].name = "body" => i = j
    BY DEF Faithful, Awaited
  <2>. QED
    BY <1>5, <1>8, <2>1, <2>2, <2>3 DEF Awaited
<1>10. OwnPost'
  <2>. SUFFICES ASSUME Number' \in 23 .. 25 PROVE Coming' \/ Taken'
    BY <1>5 DEF OwnPost
  <2>1. Number \in 22 .. 24 /\ Number' = Number + 1
    BY <1>1, <1>2
  <2>2. batch' = batch
    BY <1>2, <2>1
  <2>3. Coming \/ Taken
    BY <2>1 DEF Faithful, OwnPost
  <2>4. Coming => Coming'
    BY <2>2 DEF Coming
  <2>5. Taken => Taken'
    BY <2>2 DEF Taken
  <2>. QED
    BY <2>3, <2>4, <2>5
<1>11. OwnStatus'
  <2>1. \A w : \A n \in Nat : Unseen(w, n) => Unseen(w, n)'
    BY <1>4, UnseenSame
  <2>2. ASSUME Number' \in {24, 25} PROVE Number' = Number + 1 /\ batch' = batch
    BY <1>1, <1>2, <2>2
  <2>3. ASSUME Number' = 24 PROVE Unseen("200", 0)' \/ server'[batch'] > 0
    <3>0. Number' = Number + 1
      BY <2>2, <2>3
    <3>1. Number = 23 /\ 0 \in Nat
      BY <1>1, <2>3, <3>0
    <3>2. Unseen("200", 0) \/ server[batch] > 0
      BY <3>1 DEF Faithful, OwnStatus
    <3>. QED
      BY <2>1, <2>2, <2>3, <3>1, <3>2
  <2>4. ASSUME Number' = 25 PROVE Unseen("200", 1)' \/ server'[batch'] > 0
    <3>1. Number = 24 /\ answer \in Row.passes
      BY <1>1, <1>2, <2>4
    <3>2. Hears
      BY <1>1, <3>1, PostRows DEF NoAnswer
    <3>3. Unseen("200", 0) \/ server[batch] > 0
      BY <3>1 DEF Faithful, OwnStatus
    <3>4. 0 + 1 = 1 /\ 1 \in Nat
      OBVIOUS
    <3>5. Unseen("200", 0) => Aged("200", 1)
      BY <3>2, <3>4 DEF Unseen
    <3>6. Aged("200", 1) => Aged("200", 1)'
      BY <3>4, UnseenSame
    <3>7. Unseen("200", 0) => Unseen("200", 1)'
      BY <1>4, <3>5, <3>6 DEF Unseen
    <3>. QED
      BY <2>2, <2>4, <3>3, <3>7
  <2>. QED
    BY <1>5, <2>3, <2>4 DEF OwnStatus
<1>12. SentIsStored'
  <2>. SUFFICES ASSUME NEW k \in 1 .. Posts, k < batch' \/ (k = batch' /\ accepted')
                PROVE  server[k] > 0
    BY DEF SentIsStored
  <2>1. CASE k < batch \/ (k = batch /\ accepted)
    BY <2>1 DEF Faithful, SentIsStored
  <2>2. CASE Number = 25 /\ answer \in Row.passes /\ k = batch
    <3>1. answer = "200"
      BY <1>1, <2>2, PostRows
    <3>2. Hears /\ 1 + 1 = 2 /\ "200" # NoAnswer
      BY <3>1 DEF NoAnswer
    <3>3. Unseen("200", 1) => Aged("200", 2)
      BY <3>2 DEF Unseen
    <3>4. ~Unseen("200", 1)
      BY <1>3, <3>1, <3>2, <3>3
    <3>. QED
      BY <2>2, <3>4 DEF Faithful, OwnStatus
  <2>. QED
    BY <1>1, <1>2, <2>1, <2>2
<1>. QED
  BY <1>7, <1>9, <1>10, <1>11, <1>12 DEF Faithful

LEMMA ReadFaithful ==
  ASSUME CycleTypes, Faithful, Read
  PROVE  Faithful'
<1>1. /\ phase = "wait" /\ unread > 0 /\ unread' = unread - 1
      /\ UNCHANGED <<cells, wire, cmds, text, mode, acting, server>>
  BY DEF Read, modem
<1>2. unread \in Nat /\ Len(cells) \in Nat /\ unread <= Len(cells) /\ Cells \in Nat
  BY PostsAssumption, LenProperties DEF CycleTypes, RingTypes
<1>3. PICK i, word : i = Len(cells) - unread + 1 /\ word = cells[i]
  OBVIOUS
<1>4. i \in 1 .. Len(cells) /\ i > Len(cells) - unread /\ Hears
  BY <1>1, <1>2, <1>3 DEF Hears
<1>5. IF word \in Row.awaits THEN Concludes(word) ELSE UNCHANGED driver
  BY <1>3, Zenon DEF Read
<1>6. Cells <= 2 \/ unread <= 1
  BY <1>1, <1>2 DEF Faithful, Calm
<1>7. CASE word \in Row.awaits
  BY <1>1, <1>3, <1>4, <1>5, <1>6, <1>7, ConcludesFaithful
<1>8. CASE word \notin Row.awaits
  <2>1. UNCHANGED <<step, batch, accepted, phase>>
    BY <1>5, <1>8 DEF driver
  <2>2. Hears' => Hears
    BY <1>4
  <2>3. Latest' = Latest /\ \A w : \A n \in Nat : Unseen(w, n) => Unseen(w, n)'
    BY <1>1, <2>2, UnseenSame
  <2>4. Calm'
    BY <1>1, <1>2, <2>1 DEF Faithful, Calm, Number
  <2>. QED
    BY <1>1, <2>1, <2>2, <2>3, <2>4, SameFaithful
<1>. QED
  BY <1>7, <1>8

LEMMA TimesOutFaithful ==
  ASSUME CycleTypes, Faithful, TimesOut
  PROVE  Faithful'
<1>1. /\ phase = "wait" /\ unread = 0 /\ wire = << >> /\ unread' = 0
      /\ UNCHANGED <<cells, wire, cmds, text, mode, acting, server>>
  BY DEF TimesOut, ring, modem
<1>2. CASE try < Row.tries
  <2>1. /\ UNCHANGED <<step, batch, accepted>>
        /\ phase' = IF Row.sends = NoAnswer THEN "flush" ELSE "put"
    BY <1>2 DEF TimesOut
  <2>2. Number \in 1 .. 30 /\ Row = Script[Number] /\ try \in Nat /\ try >= 1
    <3>1. Number \in 1 .. 30 /\ Row = Script[Number] /\ try \in 1 .. Row.tries
      BY NumberIs DEF CycleTypes, DriverTypes
    <3>2. Script[Number].tries \in 1 .. 3
      BY <3>1, RowsAre
    <3>. QED
      BY <3>1, <3>2
  <2>3. Number # 22
    BY <1>2, <2>2, TextTried
  <2>4. phase' = "put" => Number \notin {24, 25}
    BY <2>1, <2>2, SendsAre
  <2>5. phase' # "wait" /\ ~Hears'
    BY <2>1 DEF Hears
  <2>6. Latest' = Latest /\ \A w : \A n \in Nat : Unseen(w, n) => Unseen(w, n)'
    BY <1>1, <2>5, UnseenSame
  <2>7. Calm'
    BY <2>1, <2>4, <2>5 DEF Calm, Number
  <2>. QED
    BY <1>1, <2>1, <2>3, <2>4, <2>5, <2>6, <2>7, SameFaithful
<1>3. CASE ~(try < Row.tries)
  <2>1. PICK answer : answer = NoAnswer
    OBVIOUS
  <2>2. Concludes(answer)
    BY <1>3, <2>1 DEF TimesOut
  <2>. QED
    BY <1>1, <2>1, <2>2, ConcludesFaithful
<1>. QED
  BY <1>2, <1>3

LEMMA FlushFaithful ==
  ASSUME CycleTypes, Faithful, Flush
  PROVE  Faithful'
<1>1. /\ phase = "flush" /\ phase' = "wait" /\ unread' = 0
      /\ UNCHANGED <<step, batch, accepted, cells, wire, cmds, text, mode, acting, server>>
  BY DEF Flush, Drops, modem
<1>2. ~Hears'
  BY <1>1 DEF Hears
<1>3. Latest' = Latest /\ \A w : \A n \in Nat : Unseen(w, n) => Unseen(w, n)'
  BY <1>1, <1>2, UnseenSame
<1>4. Calm'
  BY <1>1 DEF Calm
<1>. QED
  BY <1>1, <1>2, <1>3, <1>4, SameFaithful

\* Words are behind while a text is on its way only when they are of this post.
LEMMA ReceiveFaithful ==
  ASSUME CycleTypes, CycleTypes', Faithful, ReceiveWord, Cells <= 2 \/ ~Behind
  PROVE  Faithful'
<1>1. /\ UNCHANGED <<step, batch, accepted, cmds, text, mode, acting, server>>
      /\ phase' = phase \/ (phase = "flush" /\ phase' = "wait")
  BY DEF ReceiveWord, modem
<1>2. Latest' = Latest /\ wire # << >> /\ \A w : \A n \in Nat : Unseen(w, n) => Unseen(w, n)'
  BY WordComes
<1>3. Calm'
  <2>1. ASSUME Cells > 2, phase' = "wait" PROVE unread' <= 1
    <3>1. Cells \in Nat
      BY PostsAssumption
    <3>2. ~Behind
      BY <2>1, <3>1
    <3>. QED
      BY <2>1, <3>2, InTimeIs
  <2>. QED
    BY <1>1, <2>1 DEF Faithful, Calm, Number
<1>4. Number = 17 /\ phase # "put" => NoText
  BY <1>2 DEF Faithful, Awaited
<1>. QED
  BY <1>1, <1>2, <1>3, <1>4, SameFaithful

\* A text is taken for this post, and what comes behind it belongs to this post.
LEMMA ProcessFaithful ==
  ASSUME CycleTypes, Faithful, Sessions, Process
  PROVE  Faithful'
<1>1. /\ Len(cmds) \in Nat /\ Len(cmds) >= 1 /\ Len(cmds') = Len(cmds) - 1
      /\ \A i \in 1 .. Len(cmds) - 1 : cmds'[i] = cmds[i + 1]
      /\ Dealt(cmds[1]) /\ UNCHANGED <<step, phase, batch, accepted, server, ring>>
  BY TailIs, CommandsAre, ProcessIs DEF driver
<1>2. Number' = Number /\ (Hears' <=> Hears)
  BY <1>1 DEF Number, Hears, ring
<1>3. PICK words \in Seq(Words) :
           /\ Says(words)
           /\ \/ Quiet(words)
              \/ /\ words = << "DOWNLOAD" >> /\ cmds[1].name = "DATA"
                 /\ mode = "command" /\ mode' = "data"
           /\ mode = "data" /\ cmds[1].name # "body" => words = << >>
           /\ mode = "data" /\ cmds[1].name = "body" => words = << "OK" >>
  BY SaidIs
<1>4. /\ \A w : (\A i \in DOMAIN words : words[i] # w) =>
           \A n \in Nat : Unseen(w, n) => Unseen(w, n)'
      /\ words = << >> => wire' = wire /\ Latest' = Latest
      /\ words # << >> => Latest' = words[Len(words)]
  BY <1>1, <1>3, WordsSaid
<1>5. \A j \in 1 .. Len(cmds') :
        j \in 1 .. Len(cmds) - 1 /\ j + 1 \in 2 .. Len(cmds) /\ cmds'[j] = cmds[j + 1]
  BY <1>1
<1>6. 1 \in 1 .. Len(cmds) /\ \A j \in 2 .. Len(cmds) : j \in 1 .. Len(cmds) /\ j # 1
  BY <1>1
<1>7. Calm' /\ SentIsStored'
  BY <1>1, <1>2 DEF Faithful, Calm, SentIsStored, ring
<1>8. Prompted'
  <2>. SUFFICES ASSUME Latest' = "DOWNLOAD" PROVE mode' = "data"
    BY DEF Prompted
  <2>1. CASE words = << >>
    <3>1. mode = "data" /\ cmds[1].name # "body"
      BY <1>3, <1>4, <2>1 DEF Faithful, Prompted
    <3>. QED
      BY <1>1, <3>1 DEF Dealt
  <2>2. CASE words # << >>
    <3>1. Len(words) \in DOMAIN words /\ words[Len(words)] = "DOWNLOAD"
      BY <1>4, <2>2
    <3>2. ~Quiet(words)
      BY <3>1 DEF Quiet
    <3>. QED
      BY <1>3, <3>2
  <2>. QED
    BY <2>1, <2>2
<1>9. Awaited'
  <2>1. ASSUME NEW j \in 1 .. Len(cmds'), cmds'[j].name = "body"
        PROVE  /\ cmds[1].name # "body" /\ mode = "data"
               /\ mode' = "data" /\ \A i \in 1 .. Len(cmds') : cmds'[i].name = "body" => i = j
    <3>1. j + 1 \in 1 .. Len(cmds) /\ cmds[j + 1].name = "body" /\ 1 # j + 1
      BY <1>5, <1>6, <2>1
    <3>2. mode = "data" /\ \A i \in 1 .. Len(cmds) : cmds[i].name = "body" => i = j + 1
      BY <3>1 DEF Faithful, Awaited
    <3>3. cmds[1].name # "body"
      BY <1>6, <3>1, <3>2
    <3>4. mode' = "data"
      BY <1>1, <3>2, <3>3 DEF Dealt
    <3>5. ASSUME NEW i \in 1 .. Len(cmds'), cmds'[i].name = "body" PROVE i = j
      <4>1. i + 1 \in 1 .. Len(cmds) /\ cmds[i + 1].name = "body"
        BY <1>5, <1>6, <3>5
      <4>2. i + 1 = j + 1
        BY <3>2, <4>1
      <4>. QED
        BY <4>2
    <3>. QED
      BY <3>2, <3>3, <3>4, <3>5
  <2>2. Waiting => Waiting'
    BY WaitingProcessed DEF Waiting
  <2>3. ASSUME Number = 17, phase # "put", ~NoText'
        PROVE  wire' = << >> /\ ~Hears'
    <3>1. PICK j \in 1 .. Len(cmds') : cmds'[j].name = "body"
      BY <2>3 DEF NoText
    <3>2. words = << >>
      BY <1>3, <2>1, <3>1
    <3>3. ~NoText
      BY <2>3, WaitingProcessed
    <3>. QED
      BY <1>2, <1>4, <2>3, <3>2, <3>3 DEF Faithful, Awaited
  <2>4. Number \in 18 .. 21 => NoText'
    BY WaitingProcessed DEF Faithful, Awaited
  <2>5. ASSUME Number = 21, phase # "put" PROVE Waiting' \/ Unseen("DOWNLOAD", 1)'
    <3>1. CASE Quiet(words)
      <4>1. 1 \in Nat /\ \A i \in DOMAIN words : words[i] # "DOWNLOAD"
        BY <3>1 DEF Quiet
      <4>. QED
        BY <1>4, <2>2, <2>5, <4>1 DEF Faithful, Awaited
    <3>2. CASE ~Quiet(words)
      <4>1. NoText
        BY <2>5 DEF Faithful, Awaited
      <4>. QED
        BY <1>3, <3>2, <4>1, WaitingProcessed
    <3>. QED
      BY <3>1, <3>2
  <2>. QED
    BY <1>1, <1>2, <2>1, <2>2, <2>3, <2>4, <2>5 DEF Faithful, Awaited
<1>10. OwnPost'
  <2>. SUFFICES ASSUME Coming \/ Taken PROVE Coming' \/ Taken'
    BY <1>1, <1>2 DEF Faithful, OwnPost
  <2>1. CASE Coming
    <3>1. PICK p \in 1 .. Len(cmds) :
            /\ cmds[p].name = "body" /\ cmds[p].post = batch
            /\ \A j \in p + 1 .. Len(cmds) : cmds[j].name = "ACTION"
      BY <2>1 DEF Coming
    <3>2. mode = "data"
      BY <3>1 DEF Faithful, Awaited
    <3>3. acting = {}
      BY <3>2 DEF Sessions
    <3>4. CASE p = 1
      <4>1. /\ mode' = "command" /\ text' = batch /\ acting' = {}
        BY <1>1, <3>1, <3>2, <3>3, <3>4 DEF Dealt
      <4>2. \A j \in 1 .. Len(cmds') : cmds'[j].name = "ACTION"
        BY <1>5, <3>1, <3>4
      <4>. QED
        BY <1>1, <4>1, <4>2 DEF Taken
    <3>5. CASE p # 1
      <4>1. PICK r \in 1 .. Len(cmds') : p = r + 1
        <5>1. p - 1 \in 1 .. Len(cmds') /\ p = (p - 1) + 1
          BY <1>1, <3>5
        <5>. QED
          BY <5>1
      <4>2. cmds'[r].name = "body" /\ cmds'[r].post = batch'
        BY <1>1, <1>5, <3>1, <4>1
      <4>3. ASSUME NEW j \in r + 1 .. Len(cmds') PROVE cmds'[j].name = "ACTION"
        <5>1. j \in 1 .. Len(cmds') /\ j + 1 \in p + 1 .. Len(cmds)
          BY <1>1, <4>1
        <5>. QED
          BY <1>5, <3>1, <5>1
      <4>. QED
        BY <4>2, <4>3 DEF Coming
    <3>. QED
      BY <3>4, <3>5
  <2>2. CASE Taken
    <3>1. cmds[1].name = "ACTION" /\ mode = "command" /\ text = batch /\ acting \subseteq {batch}
      BY <1>6, <2>2 DEF Taken
    <3>2. text' = text /\ mode' = mode /\ acting' \in {acting, {text}}
      BY <1>1, <3>1 DEF Dealt
    <3>3. \A j \in 1 .. Len(cmds') : cmds'[j].name = "ACTION"
      BY <1>5, <1>6, <2>2 DEF Taken
    <3>. QED
      BY <1>1, <3>1, <3>2, <3>3 DEF Taken
  <2>. QED
    BY <2>1, <2>2
<1>11. OwnStatus'
  <2>1. \A i \in DOMAIN words : words[i] # "200"
    BY <1>3 DEF Quiet
  <2>2. \A n \in Nat : Unseen("200", n) => Unseen("200", n)'
    BY <1>4, <2>1
  <2>3. 0 \in Nat /\ 1 \in Nat
    OBVIOUS
  <2>. QED
    BY <1>1, <1>2, <2>2, <2>3 DEF Faithful, OwnStatus
<1>. QED
  BY <1>7, <1>8, <1>9, <1>10, <1>11 DEF Faithful

\* A text is given up only when the driver asks for none.
LEMMA DataEndsFaithful ==
  ASSUME CycleTypes, Faithful, DataEnds
  PROVE  Faithful'
<1>1. /\ UNCHANGED <<step, phase, batch, accepted, ring, cmds, server>>
      /\ mode = "data" /\ cmds = << >> /\ step \notin {"data", "body"} /\ Says(<< "OK" >>)
  BY DEF DataEnds, driver
<1>2. Number \notin {21, 22} /\ Number' = Number /\ Len(cmds) = 0
  BY <1>1, NumberIs DEF CycleTypes, DriverTypes, Number
<1>3. Number \notin 23 .. 25
  <2>1. ~Coming /\ ~Taken
    BY <1>1, <1>2 DEF Coming, Taken
  <2>. QED
    BY <2>1 DEF Faithful, OwnPost
<1>4. Calm'
  BY <1>1, <1>2 DEF Faithful, Calm, ring
<1>5. Prompted'
  <2>1. << "OK" >> \in Seq(Words) /\ << "OK" >> # << >> /\ << "OK" >>[Len(<< "OK" >>)] = "OK"
    BY Spoken
  <2>2. Latest' = "OK"
    BY <1>1, <2>1, WordsSaid
  <2>. QED
    BY <2>2 DEF Prompted
<1>6. NoText' /\ \A j \in 1 .. Len(cmds') : FALSE
  BY <1>1, <1>2 DEF NoText
<1>7. Awaited'
  BY <1>2, <1>6 DEF Awaited
<1>8. OwnPost' /\ OwnStatus'
  BY <1>2, <1>3 DEF OwnPost, OwnStatus
<1>9. SentIsStored'
  BY <1>1 DEF Faithful, SentIsStored
<1>. QED
  BY <1>4, <1>5, <1>7, <1>8, <1>9 DEF Faithful

\* The status that is said is that of this post.
LEMMA ActionEndsFaithful ==
  ASSUME CycleTypes, Faithful, Sessions, ActionEnds
  PROVE  Faithful'
<1>1. PICK a \in 0 .. Posts :
           /\ acting = {a} /\ acting' = {}
           /\ UNCHANGED <<driver, ring, cmds, bearer, http, url, text, mode, late, behind>>
           /\ \/ a # 0 /\ Stores(a) /\ Says(<<"HTTPACTION", "200">>) /\ UNCHANGED refused
              \/ /\ a # 0 /\ Refuses /\ (Stores(a) \/ UNCHANGED server)
                 /\ Says(<<"HTTPACTION", "601">>)
              \/ Says(<<"HTTPACTION", "601">>) /\ UNCHANGED <<server, refused>>
  BY ActionEndsIs
<1>2. /\ UNCHANGED <<step, phase, batch, accepted, unread, cmds, text, mode, ring>>
      /\ Number' = Number
  BY <1>1 DEF driver, ring, Number
<1>3. server \in [1 .. Posts -> Nat] /\ mode # "data"
  BY <1>1 DEF CycleTypes, ModemTypes, Sessions
<1>4. \A k \in 1 .. Posts : server[k] > 0 => server'[k] > 0
  <2>1. server' = server \/ server' = [server EXCEPT ![a] = @ + 1]
    BY <1>1 DEF Stores
  <2>2. \A k \in 1 .. Posts : server[k] \in Nat
    BY <1>3
  <2>3. \A k \in 1 .. Posts : server'[k] \in {server[k], server[k] + 1}
    BY <1>3, <2>1
  <2>. QED
    BY <2>2, <2>3
<1>5. PICK w \in {"200", "601"} :
        /\ Says(<<"HTTPACTION", w>>)
        /\ w = "200" => a # 0 /\ Stores(a)
  BY <1>1
<1>6. << "HTTPACTION", w >> \in Seq(Words)
  BY StaleWords
<1>7. /\ \A x : (\A i \in DOMAIN << "HTTPACTION", w >> : << "HTTPACTION", w >>[i] # x) =>
           \A n \in Nat : Unseen(x, n) => Unseen(x, n)'
      /\ << "HTTPACTION", w >> # << >> =>
           Latest' = << "HTTPACTION", w >>[Len(<< "HTTPACTION", w >>)]
  BY <1>2, <1>5, <1>6, WordsSaid
<1>8. \A x : x \notin {"HTTPACTION", w} => \A n \in Nat : Unseen(x, n) => Unseen(x, n)'
  BY <1>7
<1>9. ~Waiting /\ NoText
  <2>1. ~Waiting
    BY <1>3 DEF Waiting
  <2>2. NoText
    BY <1>3 DEF Faithful, Awaited, NoText
  <2>. QED
    BY <2>1, <2>2
<1>10. NoText' /\ ~Coming
  BY <1>2, <1>9 DEF NoText, Coming
<1>11. Calm'
  BY <1>2 DEF Faithful, Calm
<1>12. Prompted'
  <2>1. Latest' = w
    BY <1>7
  <2>. QED
    BY <2>1 DEF Prompted
<1>13. Awaited'
  <2>1. Unseen("DOWNLOAD", 1) => Unseen("DOWNLOAD", 1)'
    BY <1>8
  <2>2. \A j \in 1 .. Len(cmds') : cmds'[j].name # "body"
    BY <1>10 DEF NoText
  <2>. QED
    BY <1>2, <1>9, <1>10, <2>1, <2>2 DEF Faithful, Awaited
<1>14. ASSUME (Number = 22 /\ phase # "put") \/ Number \in 23 .. 25
       PROVE  Taken /\ a = batch /\ batch \in 1 .. Posts
  <2>1. Taken
    BY <1>10, <1>14 DEF Faithful, OwnPost
  <2>2. a = batch
    BY <1>1, <2>1 DEF Taken
  <2>3. Number # 1 /\ Number # 30 /\ batch \in 1 .. Posts + 1 /\ Posts \in Nat
    BY <1>14, PostsAssumption DEF CycleTypes, DriverTypes
  <2>4. step # "ready" /\ step # "close"
    BY <2>3, NumberIs DEF CycleTypes, DriverTypes
  <2>. QED
    BY <2>1, <2>2, <2>3, <2>4 DEF CycleTypes, DriverTypes
<1>15. OwnPost'
  <2>. SUFFICES ASSUME (Number = 22 /\ phase # "put") \/ Number \in 23 .. 25
                PROVE  Taken'
    BY <1>2 DEF OwnPost
  <2>. QED
    BY <1>1, <1>2, <1>14 DEF Taken
<1>16. OwnStatus'
  <2>1. ASSUME Number \in 23 .. 25, NEW n \in Nat, Unseen("200", n) \/ server[batch] > 0
        PROVE  Unseen("200", n)' \/ server'[batch] > 0
    <3>1. CASE w = "200"
      <4>1. server' = [server EXCEPT ![batch] = @ + 1]
        BY <1>5, <1>14, <2>1, <3>1 DEF Stores
      <4>2. server[batch] \in Nat /\ server'[batch] = server[batch] + 1
        BY <1>3, <1>14, <2>1, <4>1
      <4>. QED
        BY <4>2
    <3>2. CASE w # "200"
      BY <1>4, <1>8, <1>14, <2>1, <3>2
    <3>. QED
      BY <3>1, <3>2
  <2>2. 0 \in Nat /\ 1 \in Nat
    OBVIOUS
  <2>. QED
    BY <1>2, <2>1, <2>2 DEF Faithful, OwnStatus
<1>17. SentIsStored'
  BY <1>2, <1>4 DEF Faithful, SentIsStored
<1>. QED
  BY <1>11, <1>12, <1>13, <1>15, <1>16, <1>17 DEF Faithful

\* A small ring, or a driver that keeps up.
LEMMA FaithfulKept ==
  ASSUME CycleTypes, CycleTypes', Cells <= 2 \/ behind = 0 => Faithful, Sessions,
         [CycleNext]_cycleVars, Cells <= 2 \/ behind' = 0
  PROVE  Faithful'
<1>1. behind \in Nat /\ (behind' = behind \/ behind' = behind + 1)
  BY CostsAre
  DEF CycleNext, Driver, Modem, Put, Flush, Read, TimesOut, ReceiveWord, Process, DataEnds,
      ActionEnds, Connects, cycleVars, faults
<1>2. (Cells <= 2 \/ behind' = behind) /\ Faithful
  BY <1>1
<1>3. CASE UNCHANGED <<step, phase, batch, accepted, cells, unread, wire, cmds, text, mode,
                       acting, server>>
  <2>1. Hears' <=> Hears
    BY <1>3 DEF Hears
  <2>2. Latest' = Latest /\ \A w : \A n \in Nat : Unseen(w, n) => Unseen(w, n)'
    BY <1>3, <2>1, UnseenSame
  <2>3. Calm'
    BY <1>2, <1>3 DEF Faithful, Calm, Number
  <2>. QED
    BY <1>2, <1>3, <2>1, <2>2, <2>3, SameFaithful
<1>4. CASE UNCHANGED cycleVars
  BY <1>3, <1>4 DEF cycleVars, driver, ring, modem
<1>5. CASE Connects
  BY <1>3, <1>5 DEF Connects, driver, ring
<1>6. CASE ReceiveWord
  <2>1. Cells <= 2 \/ ~Behind
    BY <1>1, <1>2, <1>6 DEF ReceiveWord
  <2>. QED
    BY <1>2, <1>6, <2>1, ReceiveFaithful
<1>. QED
  BY <1>2, <1>4, <1>5, <1>6, PutFaithful, FlushFaithful, ReadFaithful, TimesOutFaithful,
     ProcessFaithful, DataEndsFaithful, ActionEndsFaithful
  DEF CycleNext, Driver, Modem

LEMMA FaithfulStarts ==
  ASSUME CycleInit
  PROVE  Sessions /\ Faithful
<1>. USE PostsAssumption DEF CycleInit
<1>1. Number = 1 /\ Len(cmds) = 0
  BY Numbers DEF Number
<1>2. Over(0)
  BY DEF Over
<1>3. Sessions
  BY <1>1, <1>2 DEF Sessions
<1>4. Calm /\ Awaited /\ OwnPost /\ OwnStatus
  BY <1>1 DEF Calm, Awaited, OwnPost, OwnStatus
<1>5. Prompted
  BY DEF Prompted, Latest, NoAnswer
<1>6. SentIsStored
  BY DEF SentIsStored
<1>. QED
  BY <1>3, <1>4, <1>5, <1>6 DEF Faithful

LEMMA SessionsHold == CycleSpec => []Sessions
<1>1. CycleInit => Sessions
  BY FaithfulStarts
<1>2. CycleTypes /\ Accounted /\ Sessions /\ [CycleNext]_cycleVars => Sessions'
  BY SessionsKept DEF Accounted
<1>. QED
  BY <1>1, <1>2, CycleTypesHold, AccountsHold, PTL DEF CycleSpec

\* A batch that the driver has taken for accepted is stored, however many
\* answers are late, whatever the network refuses and wherever the tick
\* holds up the driver, when the receive ring holds two words at most: the
\* status that the last exchange of sim900_http_post reads is never that of
\* an earlier post.  In a larger ring that is so as long as no word comes
\* while the driver is held up.
THEOREM StatusIsOwn == CycleSpec => [](Cells <= 2 \/ behind = 0 => SentIsStored)
<1>. DEFINE Inv == Cells <= 2 \/ behind = 0 => Faithful
<1>1. CycleInit => Inv
  BY FaithfulStarts
<1>2. CycleTypes /\ CycleTypes' /\ Sessions /\ Inv /\ [CycleNext]_cycleVars => Inv'
  BY FaithfulKept
<1>3. Inv => (Cells <= 2 \/ behind = 0 => SentIsStored)
  BY DEF Faithful
<1>. HIDE DEF Inv
<1>. QED
  BY <1>1, <1>2, <1>3, CycleTypesHold, SessionsHold, PTL DEF CycleSpec

-----------------------------------------------------------------------------
(***************************************************************************)
(* The exchange, until the first answer is late or is not read in time:    *)
(* the only command on its way is the one the driver waits for (Single),   *)
(* and a post is acted on only while its status is awaited (Acting).       *)
(***************************************************************************)

InTime == late = 0 /\ behind = 0

Single ==
  /\ phase = "put" => cmds = << >>
  /\ cmds # << >> =>
       Len(cmds) = 1 /\ cmds[1].name = Row.sends /\ Visible = << >> /\ acting = {}
  /\ phase = "wait" => unread <= 1
Acting ==
  acting # {} =>
    /\ phase # "put"
    /\ (step = "action" /\ Visible = << "OK" >>) \/ (step = "urc" /\ Visible = << >>)
Regular == Single /\ Acting

\* Steps that leave the exchange and what is to be read as they are.
LEMMA SameKeeps ==
  ASSUME Regular, UNCHANGED <<step, cmds, acting>>, Visible' = Visible,
         phase' = phase \/ (phase # "put" /\ phase' # "put"), phase' = "wait" => unread' <= 1
  PROVE  Regular'
<1>1. Row' = Row
  BY DEF Row
<1>. QED
  BY <1>1 DEF Regular, Single, Acting

\* Steps after which nothing is asked of the modem.
LEMMA IdleKeeps ==
  ASSUME cmds' = << >>, acting' = {}, phase' = "wait" => unread' <= 1
  PROVE  Regular'
BY DEF Regular, Single, Acting

\* One lemma for each action, given that it adds nothing to late and behind.
LEMMA PutKeeps ==
  ASSUME CycleTypes, Regular, Put
  PROVE  Regular'
<1>1. /\ phase = "put" /\ phase' = "flush" /\ cmds = << >> /\ wire = << >>
      /\ UNCHANGED <<step, wire, acting>> /\ acting = {} /\ Row' = Row
  BY DEF Put, Regular, Single, Acting, modem, Row
<1>2. Len(cmds') = 1 /\ cmds'[1].name = Row'.sends
  <2>1. /\ Len(cmds') = Len(cmds) + 1 /\ Len(cmds) = 0
        /\ cmds'[Len(cmds) + 1].name = Row.sends
    BY <1>1, PutIs, CommandsAre
  <2>. QED
    BY <1>1, <2>1
<1>3. Visible' = << >>
  BY <1>1 DEF Visible
<1>. QED
  BY <1>1, <1>2, <1>3 DEF Regular, Single, Acting

LEMMA FlushKeeps ==
  ASSUME CycleTypes, Regular, Flush
  PROVE  Regular'
<1>1. /\ phase = "flush" /\ phase' = "wait" /\ unread' = 0
      /\ UNCHANGED <<step, cmds, acting, wire>>
  BY DEF Flush, Drops, modem
<1>2. Visible' = Visible
  BY <1>1, VisibleIs DEF Visible
<1>. QED
  BY <1>1, <1>2, SameKeeps

LEMMA ReadKeeps ==
  ASSUME CycleTypes, Regular, Read
  PROVE  Regular'
<1>1. /\ phase = "wait" /\ unread > 0 /\ unread' = unread - 1
      /\ UNCHANGED <<wire, cmds, acting>>
  BY DEF Read, modem
<1>2. unread = 1 /\ unread' = 0
  BY <1>1 DEF CycleTypes, RingTypes, Regular, Single
<1>3. PICK word, rest : word = cells[Len(cells)] /\ rest = wire
  OBVIOUS
<1>4. word \in Words /\ rest \in Seq(Words) /\ Visible = << word >> \o rest
  BY <1>1, <1>3, VisibleIs DEF CycleTypes, ModemTypes
<1>5. Visible # << >> /\ Visible[1] = word /\ Tail(Visible) = rest
  BY <1>4, Pushed
<1>6. cmds = << >> /\ cmds' = << >>
  BY <1>1, <1>5 DEF Regular, Single
<1>7. CASE acting = {}
  BY <1>1, <1>2, <1>6, <1>7, IdleKeeps
<1>8. CASE acting # {}
  <2>1. step = "action" /\ Visible = << "OK" >>
    BY <1>5, <1>8 DEF Regular, Acting
  <2>2. /\ step \in Steps /\ Number = 23 /\ word = "OK" /\ rest = << >>
        /\ word \in Row.awaits /\ word \in Row.passes
    BY <1>5, <2>1, Tails, NumberIs, PostRows DEF CycleTypes, DriverTypes, Returns
  <2>3. Len(cells) - unread + 1 = Len(cells)
    BY <1>2, LenProperties DEF CycleTypes, RingTypes
  <2>4. Concludes(word)
    <3>1. IF word \in Row.awaits THEN Concludes(word) ELSE UNCHANGED driver
      BY <1>3, <2>3, Zenon DEF Read
    <3>. QED
      BY <2>2, <3>1
  <2>5. DriverTypes' /\ phase' = IF Script[Number'].sends = NoAnswer THEN "flush" ELSE "put"
    BY <1>1, <2>2, <2>4, ConcludesIs DEF CycleTypes
  <2>6. Number' = 24
    BY <2>2, <2>4, PostConcludes
  <2>7. phase' = "flush" /\ step' = "urc"
    <3>1. phase' = "flush"
      BY <2>5, <2>6, SendsAre
    <3>2. PICK s \in Steps : s = step' /\ Index[s] = 24
      BY <2>5, <2>6, Zenon DEF DriverTypes, Number
    <3>. QED
      BY <3>1, <3>2, PlaceIs
  <2>8. Visible' = << >>
    <3>1. Visible' = << >> \o wire'
      BY <1>2 DEF Visible
    <3>2. wire' = << >>
      BY <1>1, <1>3, <2>2
    <3>. QED
      BY <3>1, <3>2
  <2>. QED
    BY <1>6, <2>7, <2>8 DEF Regular, Single, Acting
<1>. QED
  BY <1>7, <1>8

LEMMA TimesOutKeeps ==
  ASSUME CycleTypes, Regular, TimesOut, late' = late
  PROVE  Regular'
<1>1. cmds' = << >> /\ acting' = {}
  <2>1. late \in Nat
    BY CostsAre
  <2>. QED
    BY <2>1 DEF TimesOut, Unanswered, modem
<1>2. phase' = "wait" => unread' <= 1
  BY DEF TimesOut, ring, CycleTypes, RingTypes
<1>. QED
  BY <1>1, <1>2, IdleKeeps

LEMMA ReceiveKeeps ==
  ASSUME CycleTypes, Regular, ReceiveWord, ~Behind
  PROVE  Regular'
<1>1. /\ phase = "put" \/ (phase = "wait" /\ unread = 0)
      /\ phase' = phase /\ (phase = "wait" => unread' = 1 /\ Visible' = Visible)
      /\ UNCHANGED <<step, cmds, acting>>
  BY InTimeIs
<1>2. CASE phase = "wait"
  BY <1>1, <1>2, SameKeeps
<1>3. CASE phase = "put"
  <2>1. cmds' = << >> /\ acting' = {}
    BY <1>1, <1>3 DEF Regular, Single, Acting
  <2>. QED
    BY <1>1, <1>3, <2>1, IdleKeeps
<1>. QED
  BY <1>1, <1>2, <1>3

LEMMA ProcessKeeps ==
  ASSUME CycleTypes, Regular, Process
  PROVE  Regular'
<1>1. /\ Len(cmds) >= 1 /\ cmds # << >> /\ Len(cmds') = Len(cmds) - 1
      /\ Dealt(cmds[1]) /\ UNCHANGED <<step, phase, unread, ring>>
  BY TailIs, ProcessIs DEF Process, driver, ring
<1>2. /\ Len(cmds) = 1 /\ cmds[1].name = Row.sends /\ Visible = << >> /\ acting = {}
      /\ phase # "put" /\ (phase = "wait" => unread <= 1)
  BY <1>1 DEF Regular, Single
<1>3. cmds' = << >>
  <2>1. cmds' \in Seq(Commands) /\ Len(cmds') = 0
    BY <1>1, <1>2, ProcessTypes DEF CycleTypes, ModemTypes
  <2>. QED
    BY <2>1, EmptySeq
<1>4. CASE acting' = {}
  BY <1>1, <1>2, <1>3, <1>4, IdleKeeps
<1>5. CASE acting' # {}
  <2>1. cmds[1].name = "ACTION" /\ Says(<< "OK" >>)
    BY <1>1, <1>2, <1>5 DEF Dealt
  <2>2. step = "action"
    <3>1. Number \in 1 .. 30 /\ Script[Number].sends = "ACTION"
      BY <1>2, <2>1, NumberIs DEF CycleTypes, DriverTypes
    <3>2. Number = 23
      BY <3>1, SendsAre
    <3>. QED
      BY <3>2, NumberIs DEF CycleTypes, DriverTypes
  <2>3. Visible' = << "OK" >>
    <3>1. << "OK" >> \in Seq(Words)
      BY Spoken
    <3>2. Visible' = Visible \o << "OK" >>
      BY <1>1, <2>1, <3>1, WordsBehind
    <3>. QED
      BY <1>2, <3>2
  <2>. QED
    BY <1>1, <1>2, <1>3, <2>2, <2>3 DEF Regular, Single, Acting
<1>. QED
  BY <1>4, <1>5

\* No step that is in time ends it.
LEMMA RegularKept ==
  ASSUME CycleTypes, InTime => Regular, Sessions, [CycleNext]_cycleVars, InTime'
  PROVE  Regular'
<1>1. /\ late \in Nat /\ (late' = late \/ late' = late + 1)
      /\ behind \in Nat /\ (behind' = behind \/ behind' = behind + 1)
  BY CostsAre
  DEF CycleNext, Driver, Modem, Put, Flush, Read, TimesOut, ReceiveWord, Process, DataEnds,
      ActionEnds, Connects, cycleVars, faults, Unanswered
<1>2. late' = late /\ behind' = behind /\ Regular
  BY <1>1 DEF InTime
<1>3. CASE UNCHANGED <<step, phase, cells, unread, wire, cmds, acting>>
  <2>1. Visible' = Visible
    BY <1>3 DEF Visible
  <2>2. phase = "wait" => unread <= 1
    BY <1>2 DEF Regular, Single
  <2>. QED
    BY <1>2, <1>3, <2>1, <2>2, SameKeeps
<1>4. CASE UNCHANGED cycleVars
  BY <1>3, <1>4 DEF cycleVars, driver, ring, modem
<1>5. CASE Connects
  BY <1>3, <1>5 DEF Connects, driver, ring
<1>6. CASE ReceiveWord
  <2>1. ~Behind
    BY <1>1, <1>2, <1>6 DEF ReceiveWord
  <2>. QED
    BY <1>2, <1>6, <2>1, ReceiveKeeps
<1>7. CASE DataEnds
  <2>1. /\ cmds' = << >> /\ acting' = {} /\ UNCHANGED <<phase, unread>>
    BY <1>7 DEF DataEnds, Sessions, driver, ring
  <2>. QED
    BY <1>2, <2>1, IdleKeeps DEF Regular, Single
<1>8. CASE ActionEnds
  <2>1. cmds' = << >> /\ acting' = {} /\ UNCHANGED <<phase, unread>>
    BY <1>2, <1>8 DEF ActionEnds, Regular, Single, driver, ring
  <2>. QED
    BY <1>2, <2>1, IdleKeeps DEF Regular, Single
<1>. QED
  BY <1>2, <1>4, <1>5, <1>6, <1>7, <1>8, PutKeeps, FlushKeeps, ReadKeeps, TimesOutKeeps,
     ProcessKeeps
  DEF CycleNext, Driver, Modem

\* As long as the modem answers in time, and the driver reads in time, a
\* command is sent only when the last one was dealt with: Put, sim900.c.
THEOREM KeepsInStep == CycleSpec => []InStep
<1>. DEFINE Inv == InTime => Regular
<1>1. CycleInit => Inv
  BY DEF CycleInit, Regular, Single, Acting
<1>2. CycleTypes /\ Sessions /\ Inv /\ [CycleNext]_cycleVars => Inv'
  BY RegularKept
<1>3. Inv => InStep
  BY DEF InTime, InStep, Regular, Single
<1>. HIDE DEF Inv
<1>. QED
  BY <1>1, <1>2, <1>3, CycleTypesHold, SessionsHold, PTL DEF CycleSpec
=============================================================================
