------------------------------ MODULE SpscRing ------------------------------
(***************************************************************************)
(* The single-producer single-consumer ring in memory shared by Linux and  *)
(* the E906 (firmware/common/ipc/spsc_ring.hpp).                           *)
(*                                                                         *)
(* head and tail are free-running unsigned counters: they wrap at IndexMod *)
(* (2^32 in the code), which the ring size N divides.  Each endpoint has a *)
(* private copy of both indices and looks at the other side's shared index *)
(* only when the ring seems full (producer) or empty (consumer).  One      *)
(* action is one access to shared memory, with the local steps around it;  *)
(* the barriers of the code make the accesses of one side take effect in   *)
(* program order.  A slot is several words: while it is being written it   *)
(* holds Junk, as it does before its first use.                            *)
(***************************************************************************)
EXTENDS Integers, Sequences

CONSTANTS N,           (* Ring::kSize                                       *)
          IndexMod,    (* 2^32: where an index wraps                        *)
          Items,       (* what a producer may send                          *)
          Junk,        (* contents of a slot nobody finished writing        *)
          NoItem,      (* the consumer has not copied anything              *)
          MaxRestarts  (* bound: endpoint restarts in a behaviour           *)

ASSUME RingAssumption ==
  /\ N \in Nat \ {0}
  /\ IndexMod \in Nat
  /\ IndexMod > N
  /\ IndexMod % N = 0
  /\ Junk \notin Items
  /\ NoItem \notin Items
  /\ MaxRestarts \in Nat

VARIABLES
  head, tail, slots,               (* shared memory                         *)
  pHead, pTail, pCorrupt, pPc,     (* Producer: head_, tail_, corrupt_      *)
  pItem,                           (* the item the producer is sending      *)
  cHead, cTail, cCorrupt, cPc,     (* Consumer: head_, tail_, corrupt_      *)
  cItem,                           (* the consumer's copy of the slot       *)
  restarts                         (* endpoint restarts so far              *)

shared   == <<head, tail, slots>>
producer == <<pHead, pTail, pCorrupt, pPc, pItem>>
consumer == <<cHead, cTail, cCorrupt, cPc, cItem>>
vars     == <<shared, producer, consumer, restarts>>

Index == 0 .. IndexMod - 1
Slot  == 0 .. N - 1

(* Unsigned a - b: how far index a is ahead of index b. *)
AheadSigned(a, b) == IF a >= b THEN a - b ELSE b - a           \* mutant
Ahead(a, b) == IF a >= b THEN a - b ELSE a - b + IndexMod

(* ++ on an unsigned index. *)
Succ(a) == IF a = IndexMod - 1 THEN 0 ELSE a + 1

(* The index k places after a. *)
Plus(a, k) == IF a + k < IndexMod THEN a + k ELSE a + k - IndexMod

(* index & kMask *)
SlotOf(a) == a % N

(* ring_init by the owner, then both constructors; slots are uninitialised. *)
Init ==
  /\ head = 0 /\ tail = 0
  /\ slots = [s \in Slot |-> Junk]
  /\ pHead = 0 /\ pTail = 0 /\ pCorrupt = FALSE /\ pPc = "idle" /\ pItem = NoItem
  /\ cHead = 0 /\ cTail = 0 /\ cCorrupt = FALSE /\ cPc = "idle" /\ cItem = NoItem
  /\ restarts = 0

-----------------------------------------------------------------------------
(* Producer *)

SeemsFullLate == Ahead(pHead, pTail) > N                       \* mutant
SeemsFull == Ahead(pHead, pTail) >= N

(* The tail reserve() goes by: the shared one only if the copy says full. *)
SeenTail == IF SeemsFull THEN tail ELSE pTail

HasRoom(fill) == fill < N

(* reserve() *)
Reserve ==
  LET fill == Ahead(pHead, SeenTail)
  IN /\ pPc = "idle"
     /\ pTail' = SeenTail
     /\ pCorrupt' = IF fill > N THEN TRUE ELSE pCorrupt
     /\ pPc' = IF HasRoom(fill) \/ ~SeemsFull THEN "reserved" ELSE "idle"
     /\ UNCHANGED <<shared, consumer, pHead, pItem, restarts>>

(* The caller fills the reserved slot in place, word by word. *)
BeginWrite ==
  /\ pPc = "reserved"
  /\ \E item \in Items : pItem' = item
  /\ slots' = [slots EXCEPT ![SlotOf(pHead)] = Junk]
  /\ pPc' = "writing"
  /\ UNCHANGED <<head, tail, pHead, pTail, pCorrupt, consumer, restarts>>

EndWrite ==
  /\ pPc = "writing"
  /\ slots' = [slots EXCEPT ![SlotOf(pHead)] = pItem]
  /\ pPc' = "written"
  /\ UNCHANGED <<head, tail, pHead, pTail, pCorrupt, pItem, consumer, restarts>>

(* The barrier of commit(): the whole slot is written before the new head. *)
NoCommitBarrier == pPc \in {"writing", "written"}               \* mutant
SlotWritten == pPc = "written"

(* commit(): barrier, then r->head = ++head_. *)
Commit ==
  /\ SlotWritten
  /\ pHead' = Succ(pHead)
  /\ head' = Succ(pHead)
  /\ pPc' = "idle"
  /\ pItem' = NoItem
  /\ UNCHANGED <<tail, slots, pTail, pCorrupt, consumer, restarts>>

(* in_flight(): reloads the private tail. *)
InFlight ==
  /\ pPc = "idle"
  /\ pTail' = tail
  /\ UNCHANGED <<shared, consumer, pHead, pCorrupt, pPc, pItem, restarts>>

(* Producer(r): a new producer process takes both indices from the ring. *)
RestartProducer ==
  /\ restarts < MaxRestarts
  /\ restarts' = restarts + 1
  /\ pHead' = head /\ pTail' = tail
  /\ pCorrupt' = FALSE /\ pPc' = "idle" /\ pItem' = NoItem
  /\ UNCHANGED <<shared, consumer>>

-----------------------------------------------------------------------------
(* Consumer *)

HasItem(fill) == fill \in 1 .. N

HeadNeverReloaded == cHead                                      \* mutant
LoadedHead == head

(* peek(): the shared head is read only when the private copy says empty. *)
Peek ==
  LET seemsEmpty == cTail = cHead
      fill       == Ahead(LoadedHead, cTail)
  IN /\ cPc = "idle"
     /\ IF seemsEmpty
        THEN /\ cCorrupt' = IF fill > N THEN TRUE ELSE cCorrupt
             /\ cHead' = IF HasItem(fill) THEN LoadedHead ELSE cTail
             /\ cPc' = IF HasItem(fill) THEN "peeked" ELSE "idle"
        ELSE /\ cPc' = "peeked"
             /\ UNCHANGED <<cHead, cCorrupt>>
     /\ UNCHANGED <<shared, producer, cTail, cItem, restarts>>

(* The caller reads the slot in place. *)
ReadSlot ==
  /\ cPc = "peeked"
  /\ cItem' = slots[SlotOf(cTail)]
  /\ cPc' = "read"
  /\ UNCHANGED <<shared, producer, cHead, cTail, cCorrupt, restarts>>

(* release(): barrier, then r->tail = ++tail_. *)
Release ==
  /\ cPc = "read"
  /\ cTail' = Succ(cTail)
  /\ tail' = Succ(cTail)
  /\ cPc' = "idle"
  /\ cItem' = NoItem
  /\ UNCHANGED <<head, slots, producer, cHead, cCorrupt, restarts>>

(* Where a new consumer continues: at the oldest item nobody released. *)
SkipsUnread == head                                             \* mutant
ContinuesAt == tail

(* Consumer(r) *)
RestartConsumer ==
  /\ restarts < MaxRestarts
  /\ restarts' = restarts + 1
  /\ cHead' = head /\ cTail' = ContinuesAt
  /\ cCorrupt' = FALSE /\ cPc' = "idle" /\ cItem' = NoItem
  /\ UNCHANGED <<shared, producer>>

-----------------------------------------------------------------------------
Produce == Reserve \/ BeginWrite \/ EndWrite \/ Commit \/ InFlight
Consume == Peek \/ ReadSlot \/ Release
Next    == Produce \/ Consume \/ RestartProducer \/ RestartConsumer

Spec == Init /\ [][Next]_vars

(* Both endpoints poll in a loop; a producer with something to send retries. *)
FairSpec ==
  /\ Spec
  /\ WF_vars(Peek) /\ WF_vars(ReadSlot) /\ WF_vars(Release)
  /\ WF_vars(Reserve)

-----------------------------------------------------------------------------
(* Types of the shared words, of both endpoints and of the bound. *)
TypeOK ==
  /\ head \in Index /\ tail \in Index /\ slots \in [Slot -> Items \cup {Junk}]
  /\ pHead \in Index /\ pTail \in Index /\ pCorrupt \in BOOLEAN
  /\ pPc \in {"idle", "reserved", "writing", "written"}
  /\ pItem \in Items \cup {NoItem}
  /\ cHead \in Index /\ cTail \in Index /\ cCorrupt \in BOOLEAN
  /\ cPc \in {"idle", "peeked", "read"}
  /\ cItem \in Items \cup {Junk, NoItem}
  /\ restarts \in 0 .. MaxRestarts

(* While the producer writes a slot and the consumer reads one, they are    *)
(* different slots: no stale private index ever hands the same slot to both *)
(* (reserve() and peek() decide on copies read earlier).                    *)
SlotExclusion ==
  pPc # "idle" /\ cPc # "idle" => SlotOf(pHead) # SlotOf(cTail)

(* What the consumer copies is a complete item: the slot write happens      *)
(* before the head that announces it, and the slot is not reused before     *)
(* release() (the two barriers of commit() and release()).                  *)
ReadsAreWhole == cPc = "read" => cItem \in Items

(* corrupt() is never raised in a legal history, whatever the interleaving, *)
(* the wrap of the indices and the restarts of the endpoints.               *)
NoFalseAlarm == pCorrupt = FALSE /\ cCorrupt = FALSE

(* An endpoint that restarts in the middle of an operation loses nothing:   *)
(* its private index always equals the shared one it owns, so the           *)
(* constructor continues where the old endpoint stopped, and the other      *)
(* side's copies only lag behind the truth, never run ahead of it.          *)
CopiesLag ==
  /\ pHead = head /\ cTail = tail
  /\ Ahead(head, tail) <= Ahead(head, pTail) /\ Ahead(head, pTail) <= N
  /\ Ahead(cHead, tail) <= Ahead(head, tail)

(* The inductive strengthening of the four invariants above: an endpoint    *)
(* inside an operation has checked its own copies, every published slot     *)
(* holds a whole item, and both items in transit match their slots.         *)
RingInv ==
  /\ TypeOK /\ CopiesLag /\ NoFalseAlarm
  /\ pPc # "idle" => Ahead(head, pTail) < N
  /\ pPc \in {"writing", "written"} => pItem \in Items
  /\ pPc = "written" => slots[SlotOf(head)] = pItem
  /\ cPc # "idle" => cHead # tail
  /\ cPc = "read" => cItem = slots[SlotOf(tail)]
  /\ \A k \in 0 .. N - 1 :
       k < Ahead(head, tail) => slots[SlotOf(Plus(tail, k))] \in Items

(* The published items, oldest first. *)
Published ==
  [i \in 1 .. Ahead(head, tail) |-> slots[SlotOf(Plus(tail, i - 1))]]

Held == IF cPc = "read" THEN cItem ELSE NoItem

Abstract == INSTANCE Fifo WITH
  Capacity <- N, queue <- Published, held <- Held

(* The ring is a bounded FIFO: every step of it is a step of Fifo or leaves *)
(* the queue and the held item alone, so items come out in order, each      *)
(* once, none lost and none overwritten, restarts included.                 *)
IsFifo == Abstract!FifoSpec

(* A consumer that keeps polling takes every item: the ring never gets      *)
(* stuck with an unread item, even when the private head is stale.          *)
EveryItemTaken ==
  \A i \in Index : (tail = i /\ head # i) ~> (tail # i)

(* A producer that keeps asking gets a slot: a full ring drains, and the    *)
(* producer notices although it reads the shared tail only when full.       *)
ProducerGetsSlot == (pPc = "idle") ~> (pPc = "reserved")

(* Neither side waits for ever on a stale copy of the other's index.        *)
RingProgress == EveryItemTaken /\ ProducerGetsSlot
=============================================================================
