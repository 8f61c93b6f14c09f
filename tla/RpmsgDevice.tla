----------------------------- MODULE RpmsgDevice -----------------------------
(***************************************************************************)
(* The RPMsg endpoint of the firmware (firmware/common/hal/rpmsg.cpp) with *)
(* the two programs that drive it: testPingRpmsg, which polls for ever,    *)
(* and the worker task of testFreeRTOS, which sleeps until the message box *)
(* interrupt.  Both answer every message with an echo.                     *)
(*                                                                         *)
(* The host (virtio_rpmsg_bus, the virtio ring, the mailbox) is external   *)
(* and does what rpmsg.cpp and its host tests say of it.  One action is    *)
(* one access to memory the host also writes or reads, with the private    *)
(* work up to the next one.  Both vrings are split rings: on vring0 the    *)
(* host lends empty buffers for replies, on vring1 it posts requests.      *)
(***************************************************************************)
EXTENDS Naturals, Sequences, FiniteSets

CONSTANTS N,            (* vring num: buffers of each ring                  *)
          IndexMod,     (* 2^16: ring indices are uint16_t                  *)
          Msgs,         (* what a request can say                           *)
          Malformed,    (* those whose header does not fit their buffer     *)
          Announcement, (* the name service message                         *)
          NoMsg,        (* a buffer that holds nothing to be read           *)
          HostFifo,     (* bound: doorbells waiting for the host            *)
          DevFifo,      (* bound: doorbells waiting for the firmware        *)
          Modes         (* which programs: TRUE sleeps, FALSE polls         *)

ASSUME RpmsgAssumption ==
  /\ N \in Nat \ {0} /\ IndexMod \in Nat /\ IndexMod > N /\ IndexMod % N = 0
  /\ Malformed \subseteq Msgs /\ NoMsg # Announcement
  /\ NoMsg \notin Msgs /\ Announcement \notin Msgs
  /\ HostFifo \in Nat \ {0} /\ DevFifo \in Nat \ {0}
  /\ Modes \subseteq BOOLEAN

TX    == "vring0"       (* s_tx_vq: the host lends buffers, replies go out  *)
RX    == "vring1"       (* s_rx_vq: the host's requests come in             *)
Rings == {TX, RX}
Desc  == 0 .. N - 1
Index == 0 .. IndexMod - 1

VARIABLES
  avail,      (* avail->idx and avail->ring, written by the host            *)
  used,       (* used->idx, used->ring and NO_NOTIFY, by the firmware       *)
  buf,        (* what each buffer holds                                     *)
  driverOk,   (* VIRTIO_CONFIG_S_DRIVER_OK                                  *)
  toHost, toDev,        (* doorbells in the two FIFOs                       *)
  ready, announced,     (* s_vdev_ready, the program's own flag             *)
  last,                 (* last_avail_idx of each ring                      *)
  pc, pending,          (* where the program is, poll()'s count of buffers  *)
  sleeps, irqOn, notified,   (* FreeRTOS: channel unmasked, task notified   *)
  free, seen,           (* host: idle request buffers, last used index read *)
  sendPc, recvPc, work  (* host: a sender, the vring work, work queued      *)

shared == <<avail, used, buf, driverOk>>
bells  == <<toHost, toDev>>
device == <<ready, announced, last, pc, pending>>
rtos   == <<sleeps, irqOn, notified>>
host   == <<free, seen, sendPc, recvPc, work>>
vars   == <<shared, bells, device, rtos, host>>

Next1(i) == (i + 1) % IndexMod
Slot(i)  == i % N
Ahead(i, j) == (i + IndexMod - j) % IndexMod        (* uint16_t: i - j      *)

(* remoteproc has loaded and started the firmware; the vrings are zeroed.   *)
Init ==
  /\ avail = [q \in Rings |-> [idx |-> 0, ring |-> [s \in Desc |-> 0]]]
  /\ used = [q \in Rings |-> [idx |-> 0, ring |-> [s \in Desc |-> 0], quiet |-> FALSE]]
  /\ buf = [q \in Rings |-> [d \in Desc |-> NoMsg]]
  /\ driverOk = FALSE /\ toHost = 0 /\ toDev = 0
  /\ ready = FALSE /\ announced = FALSE /\ last = [q \in Rings |-> 0]
  /\ pc = "wait" /\ pending = 0
  /\ sleeps \in Modes /\ irqOn = sleeps /\ notified = FALSE
  /\ free = Desc /\ seen = [q \in Rings |-> 0]
  /\ sendPc = "idle" /\ recvPc = "idle" /\ work = FALSE

-----------------------------------------------------------------------------
(* The firmware: rings and doorbells *)

(* avail_pending(): more than N is a ring error and counts as nothing.      *)
Pending(q)   == Ahead(avail[q].idx, last[q])
FullIsError(q) == Pending(q) >= N                               \* mutant
RingError(q) == Pending(q) > N
Waiting(q)   == IF RingError(q) THEN 0 ELSE Pending(q)

(* desc_idx: poll() works on the oldest request until it returns it, while   *)
(* the two that write a message have moved past the buffer they fill.        *)
NextDescNewest(q) == avail[q].ring[Slot(avail[q].idx + IndexMod - 1)] \* mutant
NextDesc(q) == avail[q].ring[Slot(last[q])]
Filled      == avail[TX].ring[Slot(last[TX] + IndexMod - 1)]

(* The used element is written before the index that shows it.              *)
Published(q, d) ==
  [used EXCEPT ![q].ring[Slot(used[q].idx)] = d, ![q].idx = Next1(@)]

ConsumedOnlyRequests(q) == IF q = RX THEN [last EXCEPT ![q] = Next1(@)] ELSE last \* mutant
Consumed(q) == [last EXCEPT ![q] = Next1(@)]

(* notify_host(): waits until the host's FIFO has room.                     *)
NotifyWhenFull == toHost <= HostFifo /\ toHost' = toHost + 1     \* mutant
NotifyHost == toHost < HostFifo /\ toHost' = toHost + 1

(* poll() returns to its program: the worker prepares to sleep again.       *)
AfterPoll == IF sleeps THEN "kickon" ELSE "wait"

(* The top of the loop.  The worker takes its notification and turns kicks  *)
(* off (s_rx_vq.used is set once the rings are known).                      *)
Wake ==
  /\ pc = "wait" /\ pc' = "ready"
  /\ IF sleeps
     THEN /\ notified /\ notified' = FALSE
          /\ used' = [used EXCEPT ![RX].quiet = @ \/ ready]
     ELSE UNCHANGED <<used, notified>>
  /\ UNCHANGED <<avail, buf, driverOk, bells, ready, announced, last, pending,
                 sleeps, irqOn, host>>

(* is_driver_ready(): the rings are mapped once and both made quiet.        *)
IsDriverReady ==
  /\ pc = "ready"
  /\ ready' = (ready \/ driverOk)
  /\ IF ~ready /\ driverOk
     THEN /\ used' = [q \in Rings |-> [used[q] EXCEPT !.quiet = TRUE]]
          /\ last' = [q \in Rings |-> 0]
     ELSE UNCHANGED <<used, last>>
  /\ pc' = IF ~ready' THEN AfterPoll
           ELSE IF announced THEN "drain" ELSE "announce"
  /\ UNCHANGED <<avail, buf, driverOk, bells, announced, pending, rtos, host>>

(* announce_service(): fills a lent buffer if there is one; the programs    *)
(* do not look at the result.                                               *)
Announce ==
  /\ pc = "announce" /\ announced' = TRUE
  /\ IF Waiting(TX) = 0
     THEN pc' = "drain" /\ UNCHANGED <<buf, last>>
     ELSE /\ buf' = [buf EXCEPT ![TX][NextDesc(TX)] = Announcement]
          /\ last' = Consumed(TX)
          /\ pc' = "announced"
  /\ UNCHANGED <<avail, used, driverOk, bells, ready, pending, rtos, host>>

AnnouncePublish ==
  /\ pc = "announced" /\ pc' = "annbell"
  /\ used' = Published(TX, Filled)
  /\ UNCHANGED <<avail, buf, driverOk, bells, ready, announced, last, pending,
                 rtos, host>>

AnnounceBell ==
  /\ pc = "annbell" /\ pc' = "drain" /\ NotifyHost
  /\ UNCHANGED <<shared, toDev, ready, announced, last, pending, rtos, host>>

-----------------------------------------------------------------------------
(* The firmware: poll() *)

DrainDoorbells ==
  /\ pc = "drain" /\ pc' = "check"
  /\ toDev' = 0
  /\ UNCHANGED <<shared, toHost, ready, announced, last, pending, rtos, host>>

CheckAvail ==
  /\ pc = "check"
  /\ pending' = Waiting(RX)
  /\ used' = [used EXCEPT ![RX].quiet = @ /\ ~RingError(RX)]
  /\ pc' = IF Waiting(RX) = 0 THEN AfterPoll ELSE "suppress"
  /\ UNCHANGED <<avail, buf, driverOk, bells, ready, announced, last, rtos, host>>

Suppress ==
  /\ pc = "suppress" /\ pc' = "take"
  /\ used' = [used EXCEPT ![RX].quiet = TRUE]
  /\ UNCHANGED <<avail, buf, driverOk, bells, ready, announced, last, pending,
                 rtos, host>>

(* A malformed message is given back without being delivered; a descriptor  *)
(* outside the ring ends poll().                                            *)
Take ==
  /\ pc = "take"
  /\ pc' = IF NextDesc(RX) \notin Desc THEN AfterPoll
           ELSE IF buf[RX][NextDesc(RX)] \in Malformed THEN "return" ELSE "reply"
  /\ used' = [used EXCEPT ![RX].quiet = @ /\ NextDesc(RX) \in Desc]
  /\ UNCHANGED <<avail, buf, driverOk, bells, ready, announced, last, pending,
                 rtos, host>>

(* The consumed descriptor goes back to the host; nobody reads it again.    *)
ReturnBuffer ==
  /\ pc = "return"
  /\ used' = Published(RX, NextDesc(RX))
  /\ buf' = [buf EXCEPT ![RX][NextDesc(RX)] = NoMsg]
  /\ last' = Consumed(RX)
  /\ pending' = pending - 1
  /\ pc' = IF pending = 1 THEN "recheck" ELSE "take"
  /\ UNCHANGED <<avail, driverOk, bells, ready, announced, rtos, host>>

(* Where poll() goes when the ring is empty again.                          *)
ReturnSilently == AfterPoll                                     \* mutant
WhenDone == "bell"

Recheck ==
  /\ pc = "recheck"
  /\ pending' = Waiting(RX)
  /\ pc' = IF Waiting(RX) = 0 THEN WhenDone ELSE "take"
  /\ UNCHANGED <<shared, bells, ready, announced, last, rtos, host>>

(* The last doorbell of poll(): request buffers are back.                   *)
PollBell ==
  /\ pc = "bell" /\ pc' = AfterPoll /\ NotifyHost
  /\ UNCHANGED <<shared, toDev, ready, announced, last, pending, rtos, host>>

-----------------------------------------------------------------------------
(* The firmware: reply(), called by the endpoint's callback *)

(* A buffer is lent, or none is, or the ring is corrupt and reply() fails.  *)
ReplyCheck ==
  /\ pc = "reply"
  /\ pc' = IF RingError(TX) THEN "return"
           ELSE IF Waiting(TX) = 0 THEN "open" ELSE "fill"
  /\ UNCHANGED <<shared, bells, ready, announced, last, pending, rtos, host>>

(* No buffer: ask for kicks, ring the host, drain its kicks, look again.    *)
ReplyOpen ==
  /\ pc = "open" /\ pc' = "openbell"
  /\ used' = [used EXCEPT ![TX].quiet = FALSE]
  /\ UNCHANGED <<avail, buf, driverOk, bells, ready, announced, last, pending,
                 rtos, host>>

ReplyWaitBell ==
  /\ pc = "openbell" /\ pc' = "opendrain" /\ NotifyHost
  /\ UNCHANGED <<shared, toDev, ready, announced, last, pending, rtos, host>>

LookAgain == "reply"

ReplyWaitDrain ==
  /\ pc = "opendrain" /\ pc' = LookAgain
  /\ toDev' = 0
  /\ UNCHANGED <<shared, toHost, ready, announced, last, pending, rtos, host>>

QuietAgain == TRUE

ReplyFill ==
  /\ pc = "fill"
  /\ IF NextDesc(TX) \in Desc
     THEN /\ buf' = [buf EXCEPT ![TX][NextDesc(TX)] = buf[RX][NextDesc(RX)]]
          /\ last' = Consumed(TX)
          /\ pc' = "filled"
     ELSE pc' = "return" /\ UNCHANGED <<buf, last>>
  /\ used' = [used EXCEPT ![TX].quiet = QuietAgain]
  /\ UNCHANGED <<avail, driverOk, bells, ready, announced, pending, rtos, host>>

ReplyPublish ==
  /\ pc = "filled" /\ pc' = "repbell"
  /\ used' = Published(TX, Filled)
  /\ UNCHANGED <<avail, buf, driverOk, bells, ready, announced, last, pending,
                 rtos, host>>

ReplyBell ==
  /\ pc = "repbell" /\ pc' = "return" /\ NotifyHost
  /\ UNCHANGED <<shared, toDev, ready, announced, last, pending, rtos, host>>

-----------------------------------------------------------------------------
(* The firmware: the worker's way to sleep and the interrupt that wakes it.  *)
(* The line follows the FIFO: its status clears only once that is empty.     *)

KickOn ==
  /\ pc = "kickon" /\ pc' = "unmask"
  /\ used' = [used EXCEPT ![RX].quiet = @ /\ ~ready]
  /\ UNCHANGED <<avail, buf, driverOk, bells, ready, announced, last, pending,
                 rtos, host>>

Unmask ==
  /\ pc = "unmask" /\ pc' = "wait"
  /\ irqOn' = TRUE
  /\ UNCHANGED <<shared, bells, ready, announced, last, pending, sleeps,
                 notified, host>>

Isr ==
  /\ irqOn /\ toDev > 0
  /\ irqOn' = FALSE /\ notified' = TRUE
  /\ UNCHANGED <<shared, bells, device, sleeps, host>>

-----------------------------------------------------------------------------
(* The host (external) *)

(* A kick is a doorbell unless the ring is quiet; with its mailbox queue    *)
(* full the doorbell is lost.                                               *)
Kick(q) ==
  toDev' = IF used[q].quiet \/ toDev = DevFifo THEN toDev ELSE toDev + 1

MoreUsed(q) == used[q].idx # seen[q]

Offered(q, d) ==
  [avail EXCEPT ![q].ring[Slot(avail[q].idx)] = d, ![q].idx = Next1(@)]

(* The driver's probe lends all reply buffers, sets DRIVER_OK and kicks.    *)
HostProbe ==
  /\ ~driverOk /\ driverOk' = TRUE
  /\ avail' = [avail EXCEPT ![TX] = [idx |-> N, ring |-> [s \in Desc |-> s]]]
  /\ recvPc' = "probe"
  /\ UNCHANGED <<used, buf, bells, device, rtos, free, seen, sendPc, work>>

(* Whether to kick was decided before DRIVER_OK, when no ring was quiet.    *)
HostProbeKick ==
  /\ recvPc = "probe" /\ recvPc' = "idle"
  /\ toDev' = IF toDev = DevFifo THEN toDev ELSE toDev + 1
  /\ UNCHANGED <<shared, toHost, device, rtos, free, seen, sendPc, work>>

(* A sender takes an idle buffer, or one the firmware has returned.         *)
HostSend(m) ==
  /\ driverOk /\ sendPc = "idle" /\ sendPc' = "kick"
  /\ \E d \in Desc :
       /\ \/ d \in free /\ free' = free \ {d} /\ UNCHANGED seen
          \/ /\ free = {} /\ MoreUsed(RX) /\ d = used[RX].ring[Slot(seen[RX])]
             /\ seen' = [seen EXCEPT ![RX] = Next1(@)] /\ UNCHANGED free
       /\ buf' = [buf EXCEPT ![RX][d] = m]
       /\ avail' = Offered(RX, d)
  /\ UNCHANGED <<used, driverOk, bells, device, rtos, recvPc, work>>

HostSendKick ==
  /\ sendPc = "kick" /\ sendPc' = "idle"
  /\ Kick(RX)
  /\ UNCHANGED <<shared, toHost, device, rtos, free, seen, recvPc, work>>

(* No buffer: the sender sleeps until the ring's callback.                  *)
HostSendBlocks ==
  /\ driverOk /\ sendPc = "idle" /\ sendPc' = "blocked"
  /\ free = {} /\ ~MoreUsed(RX)
  /\ UNCHANGED <<shared, bells, device, rtos, free, seen, recvPc, work>>

HostDoorbell ==
  /\ toHost > 0 /\ toHost' = toHost - 1
  /\ work' = TRUE
  /\ UNCHANGED <<shared, toDev, device, rtos, free, seen, sendPc, recvPc>>

(* The vring work calls the callback of each ring that has used buffers.    *)
HostWork ==
  /\ work /\ recvPc = "idle" /\ work' = FALSE
  /\ sendPc' = IF sendPc = "blocked" /\ MoreUsed(RX) THEN "idle" ELSE sendPc
  /\ recvPc' = IF MoreUsed(TX) THEN "recv" ELSE "idle"
  /\ UNCHANGED <<shared, bells, device, rtos, free, seen>>

(* One message is delivered and its buffer lent again.                      *)
HostReceive ==
  /\ recvPc = "recv" /\ MoreUsed(TX)
  /\ LET d == used[TX].ring[Slot(seen[TX])]
     IN /\ buf' = [buf EXCEPT ![TX][d] = NoMsg]
        /\ avail' = Offered(TX, d)
  /\ seen' = [seen EXCEPT ![TX] = Next1(@)]
  /\ UNCHANGED <<used, driverOk, bells, device, rtos, free, sendPc, recvPc, work>>

HostReceiveEnd ==
  /\ recvPc = "recv" /\ ~MoreUsed(TX) /\ recvPc' = "idle"
  /\ Kick(TX)
  /\ UNCHANGED <<shared, toHost, device, rtos, free, seen, sendPc, work>>

-----------------------------------------------------------------------------
Poll  == DrainDoorbells \/ CheckAvail \/ Suppress \/ Take \/ ReturnBuffer
         \/ Recheck \/ PollBell
Reply == ReplyCheck \/ ReplyOpen \/ ReplyWaitBell \/ ReplyWaitDrain
         \/ ReplyFill \/ ReplyPublish \/ ReplyBell
Firmware == Wake \/ IsDriverReady \/ Announce \/ AnnouncePublish \/ AnnounceBell
            \/ Poll \/ Reply \/ KickOn \/ Unmask
HostVrings == HostWork \/ HostReceive \/ HostReceiveEnd \/ HostProbeKick

Next == Firmware \/ Isr \/ HostProbe \/ HostDoorbell \/ HostVrings
        \/ HostSendKick \/ HostSendBlocks \/ \E m \in Msgs : HostSend(m)

Spec == Init /\ [][Next]_vars

(* The core runs, its interrupt is taken, the host's driver probes, serves  *)
(* its mailbox and runs its work; nobody has to send.                       *)
FairSpec == Spec /\ WF_vars(Firmware) /\ WF_vars(Isr) /\ WF_vars(HostProbe)
                 /\ WF_vars(HostDoorbell) /\ WF_vars(HostVrings)
                 /\ WF_vars(HostSendKick)

-----------------------------------------------------------------------------
(* Properties *)

InWait == {"open", "openbell", "opendrain"}
InReply == InWait \cup {"reply", "fill", "filled", "repbell"}
InPoll  == InReply \cup {"suppress", "take", "return", "recheck", "bell"}
Pcs == InPoll \cup {"wait", "ready", "announce", "announced", "annbell", "drain",
                    "check", "kickon", "unmask"}

(* Every variable has its type; the FIFOs stay within their size.           *)
TypeOK ==
  /\ avail \in [Rings -> [idx : Index, ring : [Desc -> Desc]]]
  /\ used \in [Rings -> [idx : Index, ring : [Desc -> Desc], quiet : BOOLEAN]]
  /\ buf \in [Rings -> [Desc -> Msgs \cup {NoMsg, Announcement}]]
  /\ driverOk \in BOOLEAN /\ toHost \in 0 .. HostFifo /\ toDev \in 0 .. DevFifo
  /\ ready \in BOOLEAN /\ announced \in BOOLEAN /\ last \in [Rings -> Index]
  /\ pc \in Pcs /\ pending \in 0 .. N
  /\ sleeps \in BOOLEAN /\ irqOn \in BOOLEAN /\ notified \in BOOLEAN
  /\ free \subseteq Desc /\ seen \in [Rings -> Index]
  /\ sendPc \in {"idle", "kick", "blocked"}
  /\ recvPc \in {"probe", "idle", "recv"} /\ work \in BOOLEAN

LentTo(q)     == {avail[q].ring[Slot(last[q] + k)] : k \in 0 .. Pending(q) - 1}
Unread(q)     == Ahead(used[q].idx, seen[q])
Returned(q)   == {used[q].ring[Slot(seen[q] + k)] : k \in 0 .. Unread(q) - 1}
HeldInside(q) == IF q = TX /\ pc \in {"announced", "filled"} THEN {Filled} ELSE {}
HostKeeps(q)  == IF q = RX THEN free ELSE IF driverOk THEN {} ELSE Desc

(* Every buffer of both rings has one owner: it is lent to the firmware, in *)
(* the firmware's hands, returned and not yet seen, or the host's.  None is *)
(* lost, none is twice in a ring (last_avail_idx and used->idx in poll(),   *)
(* reply() and announce_service()).  And what the host finds in a returned  *)
(* reply buffer is a whole message: filled before it is published and never *)
(* touched after.                                                           *)
OneOwner ==
  \A q \in Rings :
    /\ Cardinality(LentTo(q)) = Pending(q)
    /\ Cardinality(Returned(q)) = Unread(q)
    /\ LentTo(q) \cup Returned(q) \cup HeldInside(q) \cup HostKeeps(q) = Desc
    /\ Pending(q) + Unread(q) + Cardinality(HeldInside(q))
         + Cardinality(HostKeeps(q)) = N
    /\ q = TX => \A d \in Returned(q) : buf[q][d] \notin {NoMsg} \cup Malformed

(* Nothing the host waits for is left without a doorbell on its way: neither *)
(* a published reply nor, for a sender out of buffers, a returned one.  The  *)
(* doorbell of reply() comes before the request's buffer is returned, so a   *)
(* sleeping sender depends on the one at the end of poll().                  *)
HostIsTold ==
  \/ toHost > 0 \/ work
  \/ /\ MoreUsed(TX) => recvPc = "recv" \/ pc \in {"annbell", "repbell"}
     /\ sendPc = "blocked" /\ MoreUsed(RX) => pc \in InPoll

(* A worker that sleeps can be woken: its interrupt is unmasked and, once it *)
(* has seen the rings, the host may kick.                                    *)
SleeperIsReachable ==
  sleeps /\ pc = "wait" /\ ~notified => irqOn /\ ~used[RX].quiet

(* Kicks are wanted only by a worker about to sleep, and by a reply() that   *)
(* waits for a buffer: "maintain suppression continuously" (the fix for the  *)
(* overflows of the host's mailbox queue).                                   *)
KicksOnlyWhenWanted ==
  ready => /\ used[RX].quiet \/ (sleeps /\ pc \in {"unmask", "wait"})
           /\ used[TX].quiet \/ pc \in InWait \cup {"reply", "fill"}

(* Both directions: no doorbell is missing, and kicks are on exactly where   *)
(* the code depends on one or wants one.                                     *)
Doorbells == HostIsTold /\ SleeperIsReachable /\ KicksOnlyWhenWanted

(* "enable kicks so host will wake us when a new message arrives, then       *)
(* unmask the interrupt before waiting" (testFreeRTOS/main.cpp): a worker    *)
(* asleep with no doorbell on its way has no message to read.                *)
NothingLeftBehind ==
  (/\ sleeps /\ ready /\ pc = "wait" /\ ~notified
   /\ toDev = 0 /\ sendPc # "kick") => Pending(RX) = 0

(* reply() always gets its buffer: the host returns what it was told of      *)
(* while the firmware waits, and neither side's full FIFO stops the other.   *)
ReplyEnds == (pc \in InWait) ~> (pc = "filled")

(* With the polling program a sender out of buffers is always woken, without *)
(* its timeout.                                                              *)
SendersWake == (~sleeps /\ sendPc = "blocked") ~> (sendPc # "blocked")

(* Requests on their way or answered, and not yet delivered as replies.      *)
AskedAt(k) == buf[RX][avail[RX].ring[Slot(last[RX] + k)]]
InFlight == \/ \E k \in 0 .. Pending(RX) - 1 : AskedAt(k) \notin Malformed
            \/ Unread(TX) > 0

(* With the polling program replies keep arriving while requests are out.    *)
RepliesArrive ==
  \A i \in Index : (~sleeps /\ InFlight /\ seen[TX] = i)
                      ~> (~InFlight \/ seen[TX] # i)

(* Firmware and host, each waiting for the other's buffers, both go on.      *)
EchoProgress == ReplyEnds /\ SendersWake /\ RepliesArrive
=============================================================================
