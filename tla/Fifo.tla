-------------------------------- MODULE Fifo --------------------------------
(***************************************************************************)
(* What the shared-memory ring of firmware/common/ipc/spsc_ring.hpp        *)
(* promises to its two users: a bounded first-in first-out queue whose     *)
(* consumer looks at the oldest item in place and hands it back when done. *)
(* An item the consumer holds is still in the queue; a consumer that       *)
(* restarts before handing it back meets the same item again.              *)
(***************************************************************************)
EXTENDS Naturals, Sequences

CONSTANTS Items,      (* what a slot can carry          *)
          Capacity,   (* how many items fit             *)
          NoItem      (* the consumer holds nothing     *)

VARIABLES queue,      (* the published items, oldest first             *)
          held        (* the item the consumer has read, or NoItem     *)

fifoVars == <<queue, held>>

FifoInit == queue = << >> /\ held = NoItem

Put(item) ==
  /\ Len(queue) < Capacity
  /\ queue' = Append(queue, item)
  /\ UNCHANGED held

Look ==
  /\ queue # << >>
  /\ held' = Head(queue)
  /\ UNCHANGED queue

HandBack ==
  /\ held # NoItem
  /\ queue # << >>
  /\ held = Head(queue)
  /\ queue' = Tail(queue)
  /\ held' = NoItem

Forget == held' = NoItem /\ UNCHANGED queue

FifoNext == (\E item \in Items : Put(item)) \/ Look \/ HandBack \/ Forget

FifoSpec == FifoInit /\ [][FifoNext]_fifoVars
=============================================================================
