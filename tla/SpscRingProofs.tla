--------------------------- MODULE SpscRingProofs ---------------------------
(***************************************************************************)
(* Proofs about SpscRing for every ring size, index width, item set and    *)
(* number of restarts.  First the arithmetic of wrapping indices and of    *)
(* the mask, then the inductive invariant, then what follows from it, and  *)
(* last that SpscRing implements Fifo: the published items read from tail  *)
(* to head are the abstract queue, and the item the consumer has copied is *)
(* the one it holds.                                                       *)
(***************************************************************************)
EXTENDS SpscRing, Integers, SequenceTheorems, TLAPS

-----------------------------------------------------------------------------
(* Division with remainder: an index wraps at a multiple of the ring size,  *)
(* and its remainder is the slot it stands for.                             *)

(* The mask selects a slot. *)
LEMMA ModRange ==
  ASSUME NEW a \in Nat, NEW n \in Nat \ {0}
  PROVE  a % n \in 0 .. n - 1
OBVIOUS

(* Quotient and remainder of an index. *)
LEMMA DivMod ==
  ASSUME NEW a \in Nat, NEW n \in Nat \ {0}
  PROVE  a \div n \in Nat /\ a = n * (a \div n) + (a % n)
OBVIOUS

(* A multiple of n strictly between -n and n is zero. *)
LEMMA SmallMultiple ==
  ASSUME NEW n \in Nat \ {0}, NEW q \in Int, -n < n * q, n * q < n
  PROVE  q = 0
<1>1. ~ q >= 1
  <2> SUFFICES ASSUME q >= 1 PROVE n * q >= n OBVIOUS
  <2> QED OBVIOUS
<1>2. ~ q <= -1
  <2> SUFFICES ASSUME q <= -1 PROVE n * q <= -n OBVIOUS
  <2> QED OBVIOUS
<1> QED BY <1>1, <1>2

(* Equal remainders and a distance below n: equal numbers. *)
LEMMA ModInjective ==
  ASSUME NEW n \in Nat \ {0}, NEW a \in Nat, NEW b \in Nat,
         a % n = b % n, a - b < n, b - a < n
  PROVE  a = b
<1>1. PICK x \in Nat : a = n * x + (a % n)
  BY DivMod
<1>2. PICK y \in Nat : b = n * y + (b % n)
  BY DivMod
<1>3. a % n \in Nat
  BY ModRange
<1>4. a - b = n * x - n * y
  BY <1>1, <1>2, <1>3
<1>5. n * x - n * y = n * (x - y)
  OBVIOUS
<1>6. -n < n * (x - y) /\ n * (x - y) < n
  BY <1>4, <1>5
<1>7. x - y \in Int
  OBVIOUS
<1>8. x - y = 0
  BY <1>6, <1>7, SmallMultiple
<1> QED BY <1>4, <1>8

(* Adding a multiple of n does not change the remainder. *)
LEMMA ModPeriodic ==
  ASSUME NEW n \in Nat \ {0}, NEW a \in Nat, NEW m \in Nat, m % n = 0
  PROVE  (a + m) % n = a % n
<1>1. PICK x \in Nat : a = n * x + (a % n)
  BY DivMod
<1>2. PICK y \in Nat : m = n * y
  BY DivMod
<1>0. a + m \in Nat
  OBVIOUS
<1>3. PICK z \in Nat : a + m = n * z + ((a + m) % n)
  BY <1>0, DivMod
<1>4. a % n \in 0 .. n - 1 /\ (a + m) % n \in 0 .. n - 1
  BY <1>0, ModRange
<1>. DEFINE A == n * x   B == n * y   C == n * z
            r == a % n   s == (a + m) % n
<1>a. A \in Int /\ B \in Int /\ C \in Int
  OBVIOUS
<1>b. a = A + r /\ m = B /\ a + m = C + s /\ r \in Int /\ s \in Int
  BY <1>1, <1>2, <1>3, <1>4
<1>5. n * z - n * x - n * y = (a % n) - ((a + m) % n)
  <2>. HIDE DEF A, B, C, r, s
  <2>1. C - A - B = r - s
    BY <1>a, <1>b
  <2>. QED BY <2>1 DEF A, B, C, r, s
<1>6. n * z - n * x - n * y = n * (z - x - y)
  OBVIOUS
<1>7. -n < n * (z - x - y) /\ n * (z - x - y) < n
  BY <1>4, <1>5, <1>6
<1>8. z - x - y \in Int
  OBVIOUS
<1>9. z - x - y = 0
  BY <1>7, <1>8, SmallMultiple
<1> QED BY <1>4, <1>5, <1>6, <1>9

-----------------------------------------------------------------------------
(* Wrapping indices *)

LEMMA IndexFacts ==
  ASSUME NEW a \in Index, NEW b \in Index
  PROVE  /\ Succ(a) \in Index /\ Ahead(a, b) \in Index
         /\ Ahead(a, b) = 0 <=> a = b
         /\ SlotOf(a) \in Slot
<1>1. SlotOf(a) \in Slot
  BY RingAssumption, ModRange DEF SlotOf, Slot, Index
<1>2. Succ(a) \in Index /\ Ahead(a, b) \in Index /\ (Ahead(a, b) = 0 <=> a = b)
  BY RingAssumption DEF Succ, Ahead, Index
<1> QED BY <1>1, <1>2

(* Moving the leading index away, or the trailing one closer, by one. *)
LEMMA AheadSucc ==
  ASSUME NEW a \in Index, NEW b \in Index
  PROVE  /\ Ahead(a, b) < N => Ahead(Succ(a), b) = Ahead(a, b) + 1
         /\ a # b => Ahead(a, Succ(b)) = Ahead(a, b) - 1
BY RingAssumption DEF Succ, Ahead, Index

(* Three indices in order: the distances add up. *)
LEMMA AheadAdds ==
  ASSUME NEW a \in Index, NEW b \in Index, NEW c \in Index,
         Ahead(b, c) <= Ahead(a, c)
  PROVE  Ahead(a, b) = Ahead(a, c) - Ahead(b, c)
BY RingAssumption DEF Ahead, Index

(* The k-th index of a window. *)
LEMMA PlusFacts ==
  ASSUME NEW a \in Index, NEW b \in Index, NEW k \in Nat, k < IndexMod
  PROVE  /\ Plus(a, k) \in Index
         /\ Plus(a, 0) = a
         /\ Ahead(Plus(a, k), a) = k
         /\ k < IndexMod - 1 => Plus(Succ(a), k) = Plus(a, k + 1)
         /\ k < Ahead(b, a) => Ahead(b, Plus(a, k)) = Ahead(b, a) - k
         /\ Plus(a, Ahead(b, a)) = b
BY RingAssumption DEF Plus, Ahead, Index, Succ

(* Two indices less than a ring apart that share a slot are the same index: *)
(* this is where N has to divide the index range.                           *)
LEMMA SlotInjective ==
  ASSUME NEW a \in Index, NEW b \in Index,
         Ahead(a, b) < N, SlotOf(a) = SlotOf(b)
  PROVE  a = b
<1>1. CASE a >= b
  <2>1. a - b < N /\ b - a < N
    BY <1>1, RingAssumption DEF Ahead, Index
  <2> QED BY <2>1, ModInjective, RingAssumption DEF SlotOf, Index
<1>2. CASE a < b
  <2>0. a \in Nat /\ b \in Nat /\ N \in Nat \ {0} /\ IndexMod \in Nat /\ IndexMod % N = 0
       /\ b < IndexMod
    BY RingAssumption DEF Index
  <2>1. a + IndexMod \in Nat /\ a + IndexMod - b < N /\ b - (a + IndexMod) < N
    BY <1>2, RingAssumption DEF Ahead, Index
  <2>2. (a + IndexMod) % N = b % N
    BY <2>0, ModPeriodic DEF SlotOf
  <2>3. PICK c \in Nat : c = a + IndexMod
    BY <2>1
  <2>5. c % N = b % N /\ c - b < N /\ b - c < N
    BY <2>0, <2>1, <2>2, <2>3
  <2>4. c = b
    BY <2>0, <2>5, ModInjective
  <2> QED BY <2>0, <2>3, <2>4
<1> QED BY <1>1, <1>2 DEF Index

(* The slot after the last published one is none of the published ones.     *)
LEMMA FreeSlot ==
  ASSUME NEW h \in Index, NEW t \in Index, NEW k \in Nat,
         Ahead(h, t) < N, k < Ahead(h, t)
  PROVE  SlotOf(Plus(t, k)) # SlotOf(h)
<1>1. k < IndexMod /\ Plus(t, k) \in Index /\ Ahead(h, Plus(t, k)) = Ahead(h, t) - k
  BY PlusFacts, IndexFacts, RingAssumption DEF Index
<1>a. Ahead(h, t) \in Nat /\ N \in Nat
  BY IndexFacts, RingAssumption DEF Index
<1>2. Ahead(h, Plus(t, k)) < N /\ Ahead(h, Plus(t, k)) # 0
  BY <1>1, <1>a
<1> QED BY <1>1, <1>2, SlotInjective, IndexFacts

-----------------------------------------------------------------------------
(* The inductive invariant *)

LEMMA RingInvInit == Init => RingInv
<1> SUFFICES ASSUME Init PROVE RingInv
  OBVIOUS
<1> USE DEF Init
<1>1. 0 \in Index /\ Ahead(0, 0) = 0 /\ N \in Nat \ {0} /\ MaxRestarts \in Nat
  BY RingAssumption DEF Index, Ahead
<1>2. TypeOK
  <2>1. slots \in [Slot -> Items \cup {Junk}]
    OBVIOUS
  <2>2. restarts \in 0 .. MaxRestarts
    BY <1>1
  <2> QED BY <1>1, <2>1, <2>2 DEF TypeOK
<1>3. CopiesLag /\ NoFalseAlarm
  BY <1>1 DEF CopiesLag, NoFalseAlarm
<1> QED BY <1>1, <1>2, <1>3 DEF RingInv

(* The invariant in parts: what holds in any history, what the shared words *)
(* say, and what each endpoint adds from its construction on.  A part of an *)
(* endpoint that does not exist is not needed by the other's steps.         *)
TypeInv == TypeOK /\ (pPc \in {"writing", "written"} => pItem \in Items)

SharedInv ==
  /\ Ahead(head, tail) <= N
  /\ \A k \in 0 .. N - 1 :
       k < Ahead(head, tail) => slots[SlotOf(Plus(tail, k))] \in Items

ProducerInv ==
  /\ pHead = head /\ pCorrupt = FALSE
  /\ Ahead(head, tail) <= Ahead(head, pTail) /\ Ahead(head, pTail) <= N
  /\ pPc # "idle" => Ahead(head, pTail) < N
  /\ pPc = "written" => slots[SlotOf(head)] = pItem

ConsumerInv ==
  /\ cTail = tail /\ cCorrupt = FALSE
  /\ Ahead(cHead, tail) <= Ahead(head, tail)
  /\ cPc # "idle" => cHead # tail
  /\ cPc = "read" => cItem = slots[SlotOf(tail)]

LEMMA RingParts ==
  RingInv <=> TypeInv /\ SharedInv /\ ProducerInv /\ ConsumerInv
<1>1. RingInv => TypeInv /\ ProducerInv /\ ConsumerInv
  BY DEF RingInv, TypeInv, ProducerInv, ConsumerInv, CopiesLag, NoFalseAlarm
<1>2. RingInv => SharedInv
  <2> SUFFICES ASSUME RingInv PROVE SharedInv
    OBVIOUS
  <2>1. /\ head \in Index /\ tail \in Index /\ pTail \in Index
        /\ Ahead(head, tail) <= Ahead(head, pTail) /\ Ahead(head, pTail) <= N
    BY DEF RingInv, TypeOK, CopiesLag
  <2>2. Ahead(head, tail) \in Nat /\ Ahead(head, pTail) \in Nat /\ N \in Nat
    BY <2>1, IndexFacts, RingAssumption DEF Index
  <2>3. Ahead(head, tail) <= N
    BY <2>1, <2>2
  <2> QED BY <2>3 DEF RingInv, SharedInv
<1>3. TypeInv /\ SharedInv /\ ProducerInv /\ ConsumerInv => RingInv
  BY DEF RingInv, TypeInv, SharedInv, ProducerInv, ConsumerInv, CopiesLag, NoFalseAlarm
<1> QED BY <1>1, <1>2, <1>3

(* The indices in range, and what a copy says of the shared index.          *)
LEMMA TypedIndices ==
  ASSUME TypeInv
  PROVE  /\ N \in Nat \ {0} /\ IndexMod \in Nat /\ IndexMod > N /\ MaxRestarts \in Nat
         /\ head \in Index /\ tail \in Index /\ pTail \in Index /\ cHead \in Index
         /\ pHead \in Index /\ cTail \in Index
         /\ slots \in [Slot -> Items \cup {Junk}]
         /\ Ahead(head, tail) \in Nat /\ Ahead(head, pTail) \in Nat
         /\ Ahead(cHead, tail) \in Nat
         /\ SlotOf(head) \in Slot /\ SlotOf(tail) \in Slot
         /\ SlotOf(pHead) \in Slot /\ SlotOf(cTail) \in Slot
<1>1. /\ head \in Index /\ tail \in Index /\ pTail \in Index /\ cHead \in Index
      /\ pHead \in Index /\ cTail \in Index /\ slots \in [Slot -> Items \cup {Junk}]
  BY DEF TypeInv, TypeOK
<1>2. N \in Nat \ {0} /\ IndexMod \in Nat /\ IndexMod > N /\ MaxRestarts \in Nat
  BY RingAssumption
<1>3. Ahead(head, tail) \in Nat /\ Ahead(head, pTail) \in Nat /\ Ahead(cHead, tail) \in Nat
  BY <1>1, IndexFacts DEF Index
<1> QED BY <1>1, <1>2, <1>3, IndexFacts

LEMMA TypeInvStep ==
  TypeInv /\ [Next]_vars => TypeInv'
<1> SUFFICES ASSUME TypeInv, [Next]_vars PROVE TypeInv'
  OBVIOUS
<1> USE TypedIndices
<1>1. CASE Reserve
  <2>1. SeenTail \in Index
    BY DEF SeenTail
  <2>2. (IF Ahead(pHead, SeenTail) > N THEN TRUE ELSE pCorrupt) \in BOOLEAN
    BY DEF TypeInv, TypeOK
  <2> QED BY <1>1, <2>1, <2>2 DEF Reserve, TypeInv, TypeOK, shared, consumer
<1>2. CASE BeginWrite
  BY <1>2 DEF BeginWrite, TypeInv, TypeOK, consumer
<1>3. CASE EndWrite
  BY <1>3 DEF EndWrite, TypeInv, TypeOK, consumer
<1>4. CASE Commit
  BY <1>4, IndexFacts DEF Commit, TypeInv, TypeOK, consumer
<1>5. CASE InFlight
  BY <1>5 DEF InFlight, TypeInv, TypeOK, shared, consumer
<1>6. CASE RestartProducer
  <2>1. restarts' \in 0 .. MaxRestarts
    BY <1>6 DEF RestartProducer, TypeInv, TypeOK
  <2> QED BY <1>6, <2>1 DEF RestartProducer, TypeInv, TypeOK, shared, consumer
<1>7. CASE Peek
  <2>1. cCorrupt' \in BOOLEAN
    BY <1>7 DEF Peek, TypeInv, TypeOK
  <2>2. cHead' \in Index /\ cPc' \in {"idle", "peeked"}
    BY <1>7 DEF Peek, TypeInv, TypeOK, LoadedHead
  <2> QED BY <1>7, <2>1, <2>2 DEF Peek, TypeInv, TypeOK, shared, producer
<1>8. CASE ReadSlot
  BY <1>8 DEF ReadSlot, TypeInv, TypeOK, shared, producer
<1>9. CASE Release
  BY <1>9, IndexFacts DEF Release, TypeInv, TypeOK, producer
<1>10. CASE RestartConsumer
  <2>1. restarts' \in 0 .. MaxRestarts
    BY <1>10 DEF RestartConsumer, TypeInv, TypeOK
  <2> QED BY <1>10, <2>1
       DEF RestartConsumer, ContinuesAt, TypeInv, TypeOK, shared, producer
<1>11. CASE UNCHANGED vars
  BY <1>11 DEF TypeInv, TypeOK, vars, shared, producer, consumer
<1> QED
  BY <1>1, <1>2, <1>3, <1>4, <1>5, <1>6, <1>7, <1>8, <1>9, <1>10, <1>11
  DEF Next, Produce, Consume

(* What the owner of an index needs to know of the other: nothing but what  *)
(* the shared words say.                                                    *)
LEMMA ProducerStep ==
  ASSUME TypeInv, SharedInv, ProducerInv, Produce
  PROVE  SharedInv' /\ ProducerInv' /\ (ConsumerInv => ConsumerInv')
<1>typ. /\ N \in Nat \ {0} /\ IndexMod \in Nat /\ IndexMod > N
        /\ head \in Index /\ tail \in Index /\ pTail \in Index /\ cHead \in Index
        /\ slots \in [Slot -> Items \cup {Junk}]
        /\ Ahead(head, tail) \in Nat /\ Ahead(head, pTail) \in Nat
        /\ Ahead(cHead, tail) \in Nat
        /\ SlotOf(head) \in Slot /\ SlotOf(tail) \in Slot
  BY TypedIndices
<1>inv. /\ pHead = head /\ pCorrupt = FALSE
        /\ Ahead(head, tail) <= Ahead(head, pTail) /\ Ahead(head, pTail) <= N
        /\ pPc # "idle" => Ahead(head, pTail) < N /\ Ahead(head, tail) < N
        /\ pPc = "written" => slots[SlotOf(head)] = pItem
        /\ pPc \in {"writing", "written"} => pItem \in Items
        /\ \A k \in 0 .. N - 1 :
             k < Ahead(head, tail) => slots[SlotOf(Plus(tail, k))] \in Items
  BY <1>typ DEF ProducerInv, SharedInv, TypeInv
<1>1. CASE Reserve
  <2>1. Ahead(head, SeenTail) \in Nat /\ SeenTail \in Index
        /\ Ahead(head, tail) <= Ahead(head, SeenTail) /\ Ahead(head, SeenTail) <= N
    BY <1>typ, <1>inv DEF SeenTail
  <2>2. ~SeemsFull => Ahead(head, SeenTail) < N
    BY <1>typ, <1>inv DEF SeenTail, SeemsFull
  <2>3. /\ pTail' = SeenTail /\ pCorrupt' = FALSE
        /\ pPc' \in {"idle", "reserved"} /\ (pPc' = "reserved" => Ahead(head, SeenTail) < N)
        /\ UNCHANGED <<shared, consumer, pHead, pItem>>
    BY <1>1, <1>inv, <1>typ, <2>1, <2>2 DEF Reserve, HasRoom
  <2> QED
    BY <1>inv, <1>typ, <2>1, <2>3
    DEF SharedInv, ProducerInv, ConsumerInv, shared, consumer
<1>2. ASSUME NEW v, pPc # "idle", slots' = [slots EXCEPT ![SlotOf(head)] = v],
             UNCHANGED <<head, tail, consumer>>
      PROVE  SharedInv' /\ (ConsumerInv => ConsumerInv')
  <2>1. Ahead(head, tail) < N
    BY <1>2, <1>inv
  <2>2. ASSUME NEW k \in 0 .. N - 1, k < Ahead(head, tail)
        PROVE  slots'[SlotOf(Plus(tail, k))] = slots[SlotOf(Plus(tail, k))]
    <3>1. SlotOf(Plus(tail, k)) # SlotOf(head)
      BY <2>1, <2>2, <1>typ, FreeSlot
    <3> QED BY <3>1, <1>2, <1>typ
  <2>3. SharedInv'
    BY <1>2, <2>1, <2>2, <1>inv, <1>typ DEF SharedInv
  <2>4. ASSUME ConsumerInv, cPc = "read" PROVE slots'[SlotOf(tail)] = slots[SlotOf(tail)]
    <3>1. cHead # tail /\ Ahead(cHead, tail) <= Ahead(head, tail)
      BY <2>4 DEF ConsumerInv
    <3>2. Ahead(cHead, tail) # 0
      BY <3>1, <1>typ, IndexFacts
    <3>3. 0 < Ahead(head, tail) /\ Plus(tail, 0) = tail /\ 0 \in 0 .. N - 1
      BY <3>1, <3>2, <1>typ, PlusFacts
    <3> QED BY <3>3, <2>2
  <2>5. ConsumerInv => ConsumerInv'
    BY <1>2, <2>4 DEF ConsumerInv, consumer
  <2> QED BY <2>3, <2>5
<1>3. CASE BeginWrite
  <2>1. /\ pPc = "reserved" /\ pPc' = "writing"
        /\ slots' = [slots EXCEPT ![SlotOf(head)] = Junk]
        /\ UNCHANGED <<head, tail, pHead, pTail, pCorrupt, consumer>>
    BY <1>3, <1>inv DEF BeginWrite
  <2>2. SharedInv' /\ (ConsumerInv => ConsumerInv')
    BY <2>1, <1>2
  <2>3. ProducerInv'
    BY <2>1, <1>inv DEF ProducerInv
  <2> QED BY <2>2, <2>3
<1>4. CASE EndWrite
  <2>1. /\ pPc = "writing" /\ pPc' = "written"
        /\ slots' = [slots EXCEPT ![SlotOf(head)] = pItem]
        /\ UNCHANGED <<head, tail, pHead, pTail, pCorrupt, pItem, consumer>>
    BY <1>4, <1>inv DEF EndWrite
  <2>2. SharedInv' /\ (ConsumerInv => ConsumerInv')
    BY <2>1, <1>2
  <2>3. slots'[SlotOf(head)] = pItem
    BY <2>1, <1>typ
  <2>4. ProducerInv'
    BY <2>1, <2>3, <1>inv DEF ProducerInv
  <2> QED BY <2>2, <2>4
<1>5. CASE Commit
  <2>1. /\ pPc = "written" /\ pPc' = "idle"
        /\ head' = Succ(head) /\ pHead' = head'
        /\ UNCHANGED <<tail, slots, pTail, pCorrupt, consumer>>
    BY <1>5, <1>inv DEF Commit, SlotWritten
  <2>2. Ahead(head, pTail) < N /\ Ahead(head, tail) < N /\ slots[SlotOf(head)] \in Items
    BY <2>1, <1>inv
  <2>3. /\ head' \in Index /\ Ahead(head', tail) = Ahead(head, tail) + 1
        /\ Ahead(head', pTail) = Ahead(head, pTail) + 1
    BY <2>1, <2>2, <1>typ, IndexFacts, AheadSucc
  <2>4. ASSUME NEW k \in 0 .. N - 1, k < Ahead(head, tail) + 1
        PROVE  slots[SlotOf(Plus(tail, k))] \in Items
    <3>1. CASE k < Ahead(head, tail)
      BY <3>1, <1>inv
    <3>2. CASE k = Ahead(head, tail)
      <4>1. Plus(tail, Ahead(head, tail)) = head
        BY <1>typ, <2>2, PlusFacts
      <4> QED BY <3>2, <4>1, <2>2
    <3> QED BY <2>4, <3>1, <3>2, <1>typ
  <2>5. SharedInv'
    BY <2>1, <2>2, <2>3, <2>4, <1>typ DEF SharedInv
  <2>6. ProducerInv'
    BY <2>1, <2>2, <2>3, <1>inv, <1>typ DEF ProducerInv
  <2>7. ConsumerInv => ConsumerInv'
    BY <2>1, <2>3, <1>typ DEF ConsumerInv, consumer
  <2> QED BY <2>5, <2>6, <2>7
<1>6. CASE InFlight
  BY <1>6, <1>inv, <1>typ
  DEF InFlight, SharedInv, ProducerInv, ConsumerInv, shared, consumer
<1> QED BY <1>1, <1>3, <1>4, <1>5, <1>6 DEF Produce

LEMMA ConsumerStep ==
  ASSUME TypeInv, SharedInv, ConsumerInv, Consume
  PROVE  SharedInv' /\ ConsumerInv' /\ (ProducerInv => ProducerInv')
<1>typ. /\ N \in Nat \ {0} /\ IndexMod \in Nat /\ IndexMod > N
        /\ head \in Index /\ tail \in Index /\ pTail \in Index /\ cHead \in Index
        /\ slots \in [Slot -> Items \cup {Junk}]
        /\ Ahead(head, tail) \in Nat /\ Ahead(head, pTail) \in Nat
        /\ Ahead(cHead, tail) \in Nat
        /\ SlotOf(head) \in Slot /\ SlotOf(tail) \in Slot
  BY TypedIndices
<1>inv. /\ cTail = tail /\ cCorrupt = FALSE
        /\ Ahead(cHead, tail) <= Ahead(head, tail) /\ Ahead(head, tail) <= N
        /\ cPc # "idle" => cHead # tail
        /\ cPc = "read" => cItem = slots[SlotOf(tail)]
        /\ \A k \in 0 .. N - 1 :
             k < Ahead(head, tail) => slots[SlotOf(Plus(tail, k))] \in Items
  BY DEF ConsumerInv, SharedInv
<1>1. CASE Peek
  <2>1. /\ cPc = "idle" /\ cPc' \in {"idle", "peeked"} /\ cCorrupt' = FALSE
        /\ cHead' = head \/ cHead' = cHead
        /\ cPc' = "peeked" => cHead' # tail
        /\ UNCHANGED <<shared, producer, cTail, cItem>>
    <3>1. CASE cTail # cHead
      BY <3>1, <1>1, <1>inv, <1>typ DEF Peek
    <3>2. CASE cTail = cHead
      <4>1. ~ Ahead(LoadedHead, cTail) > N
        BY <1>inv, <1>typ DEF LoadedHead
      <4>2. HasItem(Ahead(LoadedHead, cTail)) <=> head # tail
        BY <1>inv, <1>typ, IndexFacts DEF LoadedHead, HasItem
      <4>3. CASE head = tail
        BY <3>2, <4>1, <4>2, <4>3, <1>1, <1>inv, <1>typ DEF Peek
      <4>4. CASE head # tail
        BY <3>2, <4>1, <4>2, <4>4, <1>1, <1>inv, <1>typ DEF Peek, LoadedHead
      <4> QED BY <4>3, <4>4
    <3> QED BY <3>1, <3>2
  <2> QED
    BY <2>1, <1>inv, <1>typ DEF SharedInv, ProducerInv, ConsumerInv, shared, producer
<1>2. CASE ReadSlot
  BY <1>2, <1>inv, <1>typ
  DEF ReadSlot, SharedInv, ProducerInv, ConsumerInv, shared, producer
<1>3. CASE Release
  <2>1. /\ cPc = "read" /\ cPc' = "idle"
        /\ tail' = Succ(tail) /\ cTail' = tail'
        /\ UNCHANGED <<head, slots, producer, cHead, cCorrupt>>
    BY <1>3, <1>inv DEF Release
  <2>2. cHead # tail /\ head # tail /\ Ahead(head, tail) # 0
    <3>1. Ahead(cHead, tail) # 0
      BY <2>1, <1>inv, <1>typ, IndexFacts
    <3>2. Ahead(head, tail) # 0
      BY <3>1, <1>inv, <1>typ
    <3> QED BY <2>1, <1>inv, <3>2, <1>typ, IndexFacts
  <2>3. /\ tail' \in Index /\ Ahead(head, tail') = Ahead(head, tail) - 1
        /\ Ahead(cHead, tail') = Ahead(cHead, tail) - 1
    BY <2>1, <2>2, <1>typ, IndexFacts, AheadSucc
  <2>4. ASSUME NEW k \in 0 .. N - 1, k < Ahead(head, tail')
        PROVE  slots[SlotOf(Plus(tail', k))] \in Items
    <3>1. k + 1 \in 0 .. N - 1 /\ k + 1 < Ahead(head, tail)
      BY <2>3, <2>4, <1>typ, <1>inv
    <3>2. Plus(tail', k) = Plus(tail, k + 1)
      BY <2>1, <3>1, <1>typ, PlusFacts
    <3> QED BY <3>1, <3>2, <1>inv
  <2>5. SharedInv'
    BY <2>1, <2>3, <2>4, <1>inv, <1>typ DEF SharedInv
  <2>6. ConsumerInv'
    BY <2>1, <2>3, <1>inv, <1>typ DEF ConsumerInv
  <2>7. ProducerInv => ProducerInv'
    <3>1. pHead' = pHead /\ pTail' = pTail /\ pPc' = pPc /\ pItem' = pItem /\ pCorrupt' = pCorrupt
      BY <2>1 DEF producer
    <3> QED BY <2>1, <2>2, <2>3, <3>1, <1>typ DEF ProducerInv
  <2> QED BY <2>5, <2>6, <2>7
<1> QED BY <1>1, <1>2, <1>3 DEF Consume

(* A new endpoint takes over where the shared indices are; the other side   *)
(* does not notice.                                                         *)
LEMMA ProducerAnew ==
  ASSUME TypeInv, SharedInv, RestartProducer
  PROVE  SharedInv' /\ ProducerInv' /\ (ConsumerInv => ConsumerInv')
<1>1. /\ Ahead(head, tail) \in Nat /\ Ahead(head, tail) <= N
  BY TypedIndices DEF SharedInv
<1> QED
  BY <1>1 DEF RestartProducer, SharedInv, ProducerInv, ConsumerInv, shared, consumer

LEMMA ConsumerAnew ==
  ASSUME TypeInv, SharedInv, RestartConsumer
  PROVE  SharedInv' /\ ConsumerInv' /\ (ProducerInv => ProducerInv')
<1>1. /\ Ahead(head, tail) \in Nat /\ Ahead(head, tail) <= N
  BY TypedIndices DEF SharedInv
<1> QED
  BY <1>1 DEF RestartConsumer, ContinuesAt, SharedInv, ProducerInv, ConsumerInv,
              shared, producer

LEMMA RingInvStep == RingInv /\ [Next]_vars => RingInv'
<1> SUFFICES ASSUME RingInv, [Next]_vars PROVE RingInv'
  OBVIOUS
<1>1. TypeInv /\ SharedInv /\ ProducerInv /\ ConsumerInv
  BY RingParts
<1>2. TypeInv'
  BY <1>1, TypeInvStep
<1>3. SharedInv' /\ ProducerInv' /\ ConsumerInv'
  <2>1. CASE Produce
    BY <2>1, <1>1, ProducerStep
  <2>2. CASE Consume
    BY <2>2, <1>1, ConsumerStep
  <2>3. CASE RestartProducer
    BY <2>3, <1>1, ProducerAnew
  <2>4. CASE RestartConsumer
    BY <2>4, <1>1, ConsumerAnew
  <2>5. CASE UNCHANGED vars
    BY <2>5, <1>1 DEF SharedInv, ProducerInv, ConsumerInv, vars, shared, producer, consumer
  <2> QED BY <2>1, <2>2, <2>3, <2>4, <2>5 DEF Next
<1>4. (TypeInv /\ SharedInv /\ ProducerInv /\ ConsumerInv => RingInv)'
  BY RingParts, PTL
<1> QED BY <1>2, <1>3, <1>4

THEOREM RingInvariant == Spec => []RingInv
BY RingInvInit, RingInvStep, PTL DEF Spec

(* Type correctness of the ring for every instance. *)
THEOREM TypeCorrect == Spec => []TypeOK
<1>1. RingInv => TypeOK
  BY DEF RingInv
<1> QED BY <1>1, RingInvariant, PTL

(* The private copies lag behind the shared indices and never run ahead.    *)
THEOREM CopiesLagAlways == Spec => []CopiesLag
<1>1. RingInv => CopiesLag
  BY DEF RingInv
<1> QED BY <1>1, RingInvariant, PTL

(* No legal history raises corrupt(), across index wrap and restarts.       *)
THEOREM NeverAlarms == Spec => []NoFalseAlarm
<1>1. RingInv => NoFalseAlarm
  BY DEF RingInv
<1> QED BY <1>1, RingInvariant, PTL

(* Producer and consumer never work in the same slot.                       *)
THEOREM SlotsExclusive == Spec => []SlotExclusion
<1>1. RingInv => SlotExclusion
  <2> SUFFICES ASSUME RingInv, pPc # "idle", cPc # "idle", SlotOf(pHead) = SlotOf(cTail)
               PROVE  FALSE
    BY DEF SlotExclusion
  <2>1. /\ head \in Index /\ tail \in Index /\ cHead \in Index /\ pTail \in Index
        /\ pHead = head /\ cTail = tail /\ cHead # tail
        /\ Ahead(head, tail) <= Ahead(head, pTail) /\ Ahead(head, pTail) < N
        /\ Ahead(cHead, tail) <= Ahead(head, tail)
    BY DEF RingInv, TypeOK, CopiesLag
  <2>2. /\ Ahead(head, tail) \in Nat /\ Ahead(head, pTail) \in Nat /\ N \in Nat
        /\ Ahead(cHead, tail) \in Nat /\ Ahead(cHead, tail) # 0
    BY <2>1, IndexFacts, RingAssumption DEF Index
  <2>3. Ahead(head, tail) < N /\ Ahead(head, tail) # 0
    BY <2>1, <2>2
  <2>4. head = tail
    BY <2>1, <2>3, SlotInjective
  <2> QED BY <2>1, <2>3, <2>4, IndexFacts
<1> QED BY <1>1, RingInvariant, PTL

(* The consumer only ever copies a completely written item.                 *)
THEOREM WholeItemsOnly == Spec => []ReadsAreWhole
<1>1. RingInv => ReadsAreWhole
  <2> SUFFICES ASSUME RingInv, cPc = "read" PROVE cItem \in Items
    BY DEF ReadsAreWhole
  <2>1. /\ head \in Index /\ tail \in Index /\ cHead \in Index /\ cHead # tail
        /\ Ahead(cHead, tail) <= Ahead(head, tail) /\ cItem = slots[SlotOf(tail)]
        /\ \A k \in 0 .. N - 1 :
             k < Ahead(head, tail) => slots[SlotOf(Plus(tail, k))] \in Items
    BY DEF RingInv, TypeOK, CopiesLag
  <2>2. /\ Ahead(head, tail) \in Nat /\ Ahead(cHead, tail) \in Nat
        /\ Ahead(cHead, tail) # 0 /\ N \in Nat \ {0} /\ 0 < IndexMod
    BY <2>1, IndexFacts, RingAssumption DEF Index
  <2>3. 0 \in 0 .. N - 1 /\ 0 < Ahead(head, tail) /\ Plus(tail, 0) = tail
    BY <2>1, <2>2, PlusFacts
  <2> QED BY <2>1, <2>3
<1> QED BY <1>1, RingInvariant, PTL

-----------------------------------------------------------------------------
(* One call at a time, for the programs that use a ring: what they know of  *)
(* it afterwards and how many items it holds.                               *)
Fill == Ahead(head, tail)

LEMMA FillFacts ==
  ASSUME TypeInv
  PROVE  /\ Fill \in Nat /\ (Fill = 0 <=> head = tail)
         /\ Fill = 0 => SharedInv
         /\ ConsumerInv /\ cPc # "idle" => Fill > 0
<1>1. Fill \in Nat /\ (Fill = 0 <=> head = tail)
  BY TypedIndices, IndexFacts DEF Fill
<1>2. Fill = 0 => SharedInv
  BY TypedIndices DEF Fill, SharedInv
<1>3. ASSUME ConsumerInv, cPc # "idle" PROVE Fill > 0
  <2>1. cHead # tail /\ Ahead(cHead, tail) <= Fill
    BY <1>3 DEF ConsumerInv, Fill
  <2>2. Ahead(cHead, tail) # 0 /\ Ahead(cHead, tail) \in Nat
    BY <2>1, TypedIndices, IndexFacts
  <2> QED BY <2>1, <2>2, <1>1
<1> QED BY <1>1, <1>2, <1>3

LEMMA ProducerCall ==
  ASSUME TypeInv, SharedInv, ProducerInv, Reserve \/ BeginWrite \/ EndWrite \/ InFlight
  PROVE  /\ SharedInv' /\ ProducerInv' /\ (ConsumerInv => ConsumerInv')
         /\ Fill' = Fill
<1>1. UNCHANGED <<head, tail>>
  BY DEF Reserve, BeginWrite, EndWrite, InFlight, shared
<1> QED BY <1>1, ProducerStep DEF Produce, Fill

LEMMA CommitCall ==
  ASSUME TypeInv, SharedInv, ProducerInv, Commit
  PROVE  /\ SharedInv' /\ ProducerInv' /\ (ConsumerInv => ConsumerInv')
         /\ Fill' = Fill + 1
<1>1. head' = Succ(head) /\ tail' = tail /\ Ahead(head, pTail) < N
      /\ Ahead(head, tail) <= Ahead(head, pTail)
  BY DEF Commit, SlotWritten, ProducerInv
<1>2. Ahead(head, tail) < N
  BY <1>1, TypedIndices
<1>3. Fill' = Fill + 1
  BY <1>1, <1>2, TypedIndices, AheadSucc DEF Fill
<1> QED BY <1>3, ProducerStep DEF Produce

LEMMA ConsumerCall ==
  ASSUME TypeInv, SharedInv, ConsumerInv, Peek \/ ReadSlot
  PROVE  /\ SharedInv' /\ ConsumerInv' /\ (ProducerInv => ProducerInv')
         /\ Fill' = Fill
         /\ Peek /\ cPc' # "peeked" => Fill = 0
<1>1. UNCHANGED <<head, tail>>
  BY DEF Peek, ReadSlot, shared
<1>2. ASSUME Peek, cPc' # "peeked" PROVE Fill = 0
  <2>1. cTail = tail /\ ~ HasItem(Ahead(head, tail)) /\ Ahead(head, tail) <= N
    BY <1>2 DEF Peek, LoadedHead, ConsumerInv, SharedInv
  <2> QED BY <2>1, TypedIndices DEF HasItem, Fill
<1> QED BY <1>1, <1>2, ConsumerStep DEF Consume, Fill

LEMMA ReleaseCall ==
  ASSUME TypeInv, SharedInv, ConsumerInv, Release
  PROVE  /\ SharedInv' /\ ConsumerInv' /\ (ProducerInv => ProducerInv')
         /\ Fill' = Fill - 1 /\ cPc' = "idle"
<1>1. head' = head /\ tail' = Succ(tail) /\ cPc = "read" /\ cPc' = "idle"
  BY DEF Release, ConsumerInv
<1>2. head # tail
  BY <1>1, FillFacts
<1>3. Fill' = Fill - 1
  BY <1>1, <1>2, TypedIndices, AheadSucc DEF Fill
<1> QED BY <1>1, <1>3, ConsumerStep DEF Consume

LEMMA EndpointCall ==
  ASSUME TypeInv, SharedInv, RestartProducer \/ RestartConsumer
  PROVE  /\ SharedInv' /\ Fill' = Fill
         /\ RestartProducer => ProducerInv' /\ (ConsumerInv => ConsumerInv')
         /\ RestartConsumer => ConsumerInv' /\ (ProducerInv => ProducerInv')
<1>1. UNCHANGED <<head, tail>>
  BY DEF RestartProducer, RestartConsumer, shared
<1> QED BY <1>1, ProducerAnew, ConsumerAnew DEF Fill

LEMMA NoCall ==
  ASSUME UNCHANGED vars
  PROVE  /\ SharedInv => SharedInv'
         /\ ProducerInv => ProducerInv'
         /\ ConsumerInv => ConsumerInv'
         /\ Fill' = Fill /\ cPc' = cPc
BY DEF SharedInv, ProducerInv, ConsumerInv, Fill, vars, shared, producer, consumer

(* The item k places behind the oldest, and what becomes of it.             *)
Item(k) == slots[SlotOf(Plus(tail, k))]

LEMMA ItemsStay ==
  ASSUME UNCHANGED <<tail, slots>>, NEW k
  PROVE  Item(k)' = Item(k)
BY DEF Item, Plus, SlotOf

LEMMA ProducerKeepsItems ==
  ASSUME TypeInv, ProducerInv, Produce, NEW k \in Nat, k < Fill
  PROVE  Item(k)' = Item(k)
<1>1. tail' = tail
  BY DEF Produce, Reserve, BeginWrite, EndWrite, Commit, InFlight, shared
<1>2. CASE Reserve \/ Commit \/ InFlight
  BY <1>1, <1>2, ItemsStay DEF Reserve, Commit, InFlight, shared
<1>3. CASE BeginWrite \/ EndWrite
  <2>1. PICK v : slots' = [slots EXCEPT ![SlotOf(head)] = v]
    BY <1>3 DEF BeginWrite, EndWrite, ProducerInv
  <2>2. Ahead(head, tail) < N
    <3>1. pPc # "idle"
      BY <1>3 DEF BeginWrite, EndWrite
    <3> QED BY <3>1, TypedIndices DEF ProducerInv
  <2>3. SlotOf(Plus(tail, k)) # SlotOf(head)
    BY <2>2, TypedIndices, FreeSlot DEF Fill
  <2> QED BY <1>1, <2>1, <2>3, TypedIndices DEF Item, Plus, SlotOf
<1> QED BY <1>2, <1>3 DEF Produce

LEMMA CommitAppends ==
  ASSUME TypeInv, ProducerInv, Commit, NEW k \in Nat, k = Fill
  PROVE  Item(k)' = pItem
<1>1. UNCHANGED <<tail, slots>> /\ slots[SlotOf(head)] = pItem
  BY DEF Commit, SlotWritten, ProducerInv
<1>2. Plus(tail, k) = head
  <2>1. k < IndexMod
    BY TypedIndices, IndexFacts DEF Fill, Index
  <2> QED BY <2>1, TypedIndices, PlusFacts DEF Fill
<1> QED BY <1>1, <1>2, ItemsStay DEF Item

LEMMA ReadsOldest ==
  ASSUME TypeInv, ConsumerInv
  PROVE  /\ cPc = "read" => cItem = Item(0)
         /\ ReadSlot => cItem' = Item(0)
<1>1. Plus(tail, 0) = tail
  BY TypedIndices, PlusFacts
<1> QED BY <1>1 DEF ConsumerInv, ReadSlot, Item

LEMMA ReleaseShifts ==
  ASSUME TypeInv, ConsumerInv, Release, NEW k \in Nat, k + 1 < Fill
  PROVE  Item(k)' = Item(k + 1)
<1>1. slots' = slots /\ tail' = Succ(tail)
  BY DEF Release, ConsumerInv
<1>2. Fill < IndexMod /\ IndexMod \in Nat /\ Fill \in Nat
  BY TypedIndices, IndexFacts DEF Fill, Index
<1>3. Plus(Succ(tail), k) = Plus(tail, k + 1)
  BY <1>2, TypedIndices, PlusFacts
<1>4. Item(k)' = slots[SlotOf(Plus(Succ(tail), k))]
  BY <1>1 DEF Item, Plus, SlotOf
<1> QED BY <1>3, <1>4 DEF Item

-----------------------------------------------------------------------------
(* The refinement of Fifo *)

(* The window between the indices is a sequence of whole items.             *)
LEMMA PublishedFacts ==
  ASSUME RingInv
  PROVE  /\ Published \in Seq(Items)
         /\ Len(Published) = Ahead(head, tail)
         /\ Len(Published) \in 0 .. N
         /\ \A i \in 1 .. Len(Published) :
              Published[i] = slots[SlotOf(Plus(tail, i - 1))]
<1> DEFINE n == Ahead(head, tail)
<1>1. n \in 0 .. N
  BY IndexFacts, RingAssumption DEF RingInv, TypeOK, CopiesLag, Index
<1>2. ASSUME NEW i \in 1 .. n
      PROVE  slots[SlotOf(Plus(tail, i - 1))] \in Items
  <2>1. i - 1 \in 0 .. N - 1 /\ i - 1 < n
    BY <1>1, RingAssumption
  <2> QED BY <2>1 DEF RingInv
<1>3. Published \in [1 .. n -> Items]
  BY <1>2 DEF Published
<1>4. Published \in Seq(Items) /\ Len(Published) = n
  BY <1>1, <1>3
<1> QED BY <1>1, <1>4 DEF Published

(* The same as a state predicate, which also holds in the next state.       *)
Window ==
  /\ Published \in Seq(Items) /\ Len(Published) = Ahead(head, tail)
  /\ \A i \in 1 .. Ahead(head, tail) :
       Published[i] = slots[SlotOf(Plus(tail, i - 1))]

LEMMA NextWindow == RingInv' => Window'
<1>1. RingInv => Window
  BY PublishedFacts DEF Window
<1> QED BY <1>1, PTL

LEMMA RefinementInit == Init => Abstract!FifoInit
<1> SUFFICES ASSUME Init PROVE Abstract!FifoInit
  OBVIOUS
<1>1. RingInv /\ Ahead(head, tail) = 0
  BY RingInvInit DEF Init, Ahead
<1>2. Published = << >>
  BY <1>1, PublishedFacts
<1>3. Held = NoItem
  BY DEF Init, Held
<1> QED BY <1>2, <1>3 DEF Abstract!FifoInit

(* Steps that leave the window and its slots alone leave the queue alone.   *)
LEMMA SameWindow ==
  ASSUME RingInv, RingInv', head' = head, tail' = tail,
         \A i \in 1 .. Ahead(head, tail) :
            slots'[SlotOf(Plus(tail, i - 1))] = slots[SlotOf(Plus(tail, i - 1))]
  PROVE  Published' = Published
BY DEF Published

LEMMA RefinementStep ==
  RingInv /\ RingInv' /\ [Next]_vars => [Abstract!FifoNext]_<<Published, Held>>
<1> SUFFICES ASSUME RingInv, RingInv', [Next]_vars
             PROVE  [Abstract!FifoNext]_<<Published, Held>>
  OBVIOUS
<1>inv. /\ head \in Index /\ tail \in Index /\ cHead \in Index /\ pTail \in Index
        /\ pHead = head /\ cTail = tail /\ N \in Nat \ {0}
        /\ Ahead(head, tail) \in 0 .. N /\ Ahead(head, pTail) \in Nat
        /\ Ahead(head, tail) <= Ahead(head, pTail)
        /\ Ahead(cHead, tail) <= Ahead(head, tail)
        /\ pPc # "idle" => Ahead(head, pTail) < N
        /\ pPc = "written" => slots[SlotOf(head)] = pItem /\ pItem \in Items
        /\ cPc # "idle" => cHead # tail
        /\ cPc = "read" => cItem = slots[SlotOf(tail)]
        /\ slots \in [Slot -> Items \cup {Junk}] /\ SlotOf(head) \in Slot
        /\ NoItem \notin Items
  <2>1. head \in Index /\ tail \in Index /\ N \in Nat \ {0} /\ NoItem \notin Items
        /\ pTail \in Index
    BY RingAssumption DEF RingInv, TypeOK
  <2>2. /\ slots \in [Slot -> Items \cup {Junk}] /\ cHead \in Index
        /\ pHead = head /\ cTail = tail /\ Ahead(head, pTail) <= N
        /\ Ahead(head, tail) <= Ahead(head, pTail)
        /\ Ahead(cHead, tail) <= Ahead(head, tail)
    BY DEF RingInv, TypeOK, CopiesLag
  <2>3. /\ Ahead(head, tail) \in Nat /\ Ahead(head, pTail) \in Nat
        /\ SlotOf(head) \in Slot
    BY <2>1, IndexFacts DEF Index
  <2>4. Ahead(head, tail) \in 0 .. N
    BY <2>1, <2>2, <2>3
  <2>5. /\ pPc # "idle" => Ahead(head, pTail) < N
        /\ pPc = "written" => slots[SlotOf(head)] = pItem /\ pItem \in Items
        /\ cPc # "idle" => cHead # tail
        /\ cPc = "read" => cItem = slots[SlotOf(tail)]
    BY DEF RingInv
  <2> QED
    BY <2>1, <2>2, <2>3, <2>4, <2>5
<1>pub. /\ Published \in Seq(Items) /\ Len(Published) = Ahead(head, tail)
        /\ \A i \in 1 .. Ahead(head, tail) :
             Published[i] = slots[SlotOf(Plus(tail, i - 1))]
  BY PublishedFacts
<1>pub2. /\ Published' \in Seq(Items) /\ Len(Published') = Ahead(head', tail')
         /\ \A i \in 1 .. Ahead(head', tail') :
              Published'[i] = slots'[SlotOf(Plus(tail', i - 1))]
  BY NextWindow DEF Window
<1>nonempty. cPc # "idle" => /\ Published # << >>
                             /\ Head(Published) = slots[SlotOf(tail)]
  <2> SUFFICES ASSUME cPc # "idle"
               PROVE Published # << >> /\ Head(Published) = slots[SlotOf(tail)]
    OBVIOUS
  <2>1. Ahead(cHead, tail) # 0 /\ Ahead(cHead, tail) \in Nat
    BY <1>inv, IndexFacts DEF Index
  <2>2. Ahead(head, tail) >= 1 /\ Plus(tail, 0) = tail
    BY <2>1, <1>inv, PlusFacts, RingAssumption
  <2> QED BY <2>2, <1>pub
<1>write. ASSUME NEW v, pPc # "idle", slots' = [slots EXCEPT ![SlotOf(head)] = v],
                 head' = head, tail' = tail
          PROVE  Published' = Published
  <2>1. Ahead(head, tail) < N
    BY <1>write, <1>inv
  <2>2. ASSUME NEW i \in 1 .. Ahead(head, tail)
        PROVE slots'[SlotOf(Plus(tail, i - 1))] = slots[SlotOf(Plus(tail, i - 1))]
    <3>1. i - 1 \in Nat /\ i - 1 < Ahead(head, tail)
      BY <1>inv
    <3>2. SlotOf(Plus(tail, i - 1)) # SlotOf(head)
      BY <3>1, <2>1, <1>inv, FreeSlot
    <3> QED BY <3>2, <1>write, <1>inv
  <2> QED BY <2>2, <1>write, SameWindow
<1>1. CASE Reserve \/ InFlight \/ RestartProducer \/ Peek \/ UNCHANGED vars
  <2>1. UNCHANGED shared
    BY <1>1 DEF Reserve, InFlight, RestartProducer, Peek, vars
  <2>2. Held' = Held
    BY <1>1 DEF Reserve, InFlight, RestartProducer, Peek, vars, consumer, Held
  <2> QED BY <2>1, <2>2 DEF shared, Published
<1>2. CASE BeginWrite \/ EndWrite
  <2>1. Published' = Published
    BY <1>2, <1>inv, <1>write DEF BeginWrite, EndWrite
  <2>2. Held' = Held
    BY <1>2 DEF BeginWrite, EndWrite, consumer, Held
  <2> QED BY <2>1, <2>2
<1>3. CASE Commit
  <2>1. /\ head' = Succ(head) /\ tail' = tail /\ slots' = slots
        /\ slots[SlotOf(head)] = pItem /\ pItem \in Items
        /\ Ahead(head, tail) < N
    BY <1>3, <1>inv DEF Commit, SlotWritten
  <2>2. Ahead(head', tail') = Ahead(head, tail) + 1
    BY <2>1, <1>inv, AheadSucc
  <2>3. Plus(tail, Ahead(head, tail)) = head
    BY <1>inv, PlusFacts, RingAssumption
  <2>4. /\ Append(Published, pItem) \in Seq(Items)
        /\ Len(Append(Published, pItem)) = Ahead(head, tail) + 1
        /\ \A i \in 1 .. Ahead(head, tail) + 1 : Append(Published, pItem)[i] =
             IF i <= Ahead(head, tail) THEN Published[i] ELSE pItem
    BY <2>1, <1>pub, AppendProperties
  <2>5. ASSUME NEW i \in 1 .. Ahead(head, tail) + 1
        PROVE  Published'[i] = Append(Published, pItem)[i]
    <3>1. Published'[i] = slots[SlotOf(Plus(tail, i - 1))]
      BY <1>pub2, <2>1, <2>2
    <3>2. CASE i <= Ahead(head, tail)
      BY <3>1, <3>2, <2>4, <1>pub, <1>inv
    <3>3. CASE i = Ahead(head, tail) + 1
      BY <3>1, <3>3, <2>1, <2>3, <2>4, <1>inv
    <3>4. i <= Ahead(head, tail) \/ i = Ahead(head, tail) + 1
      BY <1>inv
    <3> QED BY <3>2, <3>3, <3>4
  <2>6. Published' = Append(Published, pItem)
    BY <2>2, <2>4, <2>5, <1>pub2, SeqEqual
  <2>7. Held' = Held
    BY <1>3 DEF Commit, consumer, Held
  <2> QED BY <2>1, <2>6, <2>7, <1>pub DEF Abstract!FifoNext, Abstract!Put
<1>4. CASE ReadSlot
  <2>1. Published' = Published
    BY <1>4 DEF ReadSlot, shared, Published
  <2>2. cPc # "idle" /\ Held' = slots[SlotOf(tail)]
    BY <1>4, <1>inv DEF ReadSlot, Held
  <2> QED BY <2>1, <2>2, <1>nonempty DEF Abstract!FifoNext, Abstract!Look
<1>5. CASE Release
  <2>1. /\ tail' = Succ(tail) /\ head' = head /\ slots' = slots /\ cPc = "read"
        /\ Held = slots[SlotOf(tail)] /\ Held' = NoItem
    BY <1>5, <1>inv DEF Release, Held
  <2>2. Published # << >> /\ Held = Head(Published)
    BY <2>1, <1>nonempty
  <2>3. Ahead(head', tail') = Ahead(head, tail) - 1
    <3>1. Ahead(head, tail) # 0
      BY <2>2, <1>pub
    <3> QED BY <3>1, <2>1, <1>inv, IndexFacts, AheadSucc
  <2>4. /\ Head(Published) \in Items
        /\ Tail(Published) \in Seq(Items)
        /\ Len(Tail(Published)) = Ahead(head, tail) - 1
        /\ \A i \in 1 .. Ahead(head, tail) - 1 : Tail(Published)[i] = Published[i + 1]
    BY <2>2, <1>pub, HeadTailProperties
  <2>5. ASSUME NEW i \in 1 .. Ahead(head, tail) - 1
        PROVE  Published'[i] = Tail(Published)[i]
    <3>1. /\ Published'[i] = slots[SlotOf(Plus(Succ(tail), i - 1))]
          /\ Published[i + 1] = slots[SlotOf(Plus(tail, i))]
          /\ i - 1 \in Nat /\ i - 1 < IndexMod - 1
      BY <2>1, <2>3, <1>pub, <1>pub2, <1>inv, RingAssumption
    <3>2. Plus(Succ(tail), i - 1) = Plus(tail, i)
      BY <3>1, <1>inv, PlusFacts, RingAssumption
    <3> QED BY <3>1, <3>2, <2>4
  <2>6. Published' = Tail(Published)
    BY <2>3, <2>4, <2>5, <1>pub2, SeqEqual
  <2> QED BY <2>1, <2>2, <2>4, <2>6, <1>inv DEF Abstract!FifoNext, Abstract!HandBack
<1>6. CASE RestartConsumer
  <2>1. Published' = Published /\ Held' = NoItem
    BY <1>6 DEF RestartConsumer, shared, Published, Held
  <2> QED BY <2>1 DEF Abstract!FifoNext, Abstract!Forget
<1> QED
  BY <1>1, <1>2, <1>3, <1>4, <1>5, <1>6 DEF Next, Produce, Consume

(* Every behaviour of the ring is a behaviour of the bounded FIFO.          *)
THEOREM RingImplementsFifo == Spec => IsFifo
<1>1. Init => Abstract!FifoInit
  BY RefinementInit
<1>2. RingInv /\ RingInv' /\ [Next]_vars => [Abstract!FifoNext]_(Abstract!fifoVars)
  BY RefinementStep DEF Abstract!fifoVars
<1> QED
  BY <1>1, <1>2, RingInvariant, PTL DEF Spec, IsFifo, Abstract!FifoSpec
=============================================================================
