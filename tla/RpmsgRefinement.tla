--------------------------- MODULE RpmsgRefinement ---------------------------
(* RpmsgDevice implements EchoService: the requests out are the replies the *)
(* host has not read, then the requests the firmware has not answered.      *)
EXTENDS RpmsgDevice

Answered == pc \in {"repbell", "return"}   (* the oldest request is replied to *)

Replies ==
  [k \in 1 .. Unread(TX) |-> buf[TX][used[TX].ring[Slot(seen[TX] + k - 1)]]]

Requested == [k \in 1 .. Pending(RX) |-> AskedAt(k - 1)]

Open == IF Answered /\ AskedAt(0) \notin Malformed THEN Tail(Requested) ELSE Requested

WellFormed(m) == m \in Msgs \ Malformed

(* The well-formed messages of a sequence, in order.                        *)
Kept(s) ==
  LET kept[i \in 0 .. Len(s)] ==
        IF i = 0 THEN << >>
        ELSE IF WellFormed(s[i]) THEN Append(kept[i - 1], s[i]) ELSE kept[i - 1]
  IN  kept[Len(s)]

Echo == INSTANCE EchoService
          WITH Requests <- Msgs \ Malformed, Capacity <- 2 * N,
               asked <- Kept(Replies \o Open)

(* Every well-formed request is answered exactly once, unchanged and in      *)
(* order, through both rings, whatever the host and the firmware interleave: *)
(* "malformed, duplicate or late messages stop the run" (stress_rpmsg).      *)
EchoesInOrder == Echo!EchoSpec
=============================================================================
