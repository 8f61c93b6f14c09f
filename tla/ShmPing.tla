------------------------------- MODULE ShmPing -------------------------------
(***************************************************************************)
(* The ping/pong slot in SRAM (firmware/common/include/shm_ping_protocol.h)*)
(* between a Linux program, ping_shm or ping_uio, and the firmware         *)
(* testPing on the E906.                                                   *)
(*                                                                         *)
(* Linux posts ping n by writing the packet and then ping_seq = n; the     *)
(* E906 answers by writing its packet and then pong_seq = n.  ping_shm     *)
(* spins on pong_seq.  ping_uio sleeps in epoll_wait() until the E906's    *)
(* doorbell raises an interrupt, which the UIO driver masks each time and  *)
(* the program unmasks.  Either side may stop at any step: the program is  *)
(* killed or gives up and another run starts; the core crashes and is      *)
(* recovered with the slot as it was, or booted with SRAM cleared.  One    *)
(* action is one access to memory or to a register the other side uses.    *)
(***************************************************************************)
EXTENDS Naturals

CONSTANTS SeqMod,       (* 2^32: where a sequence number wraps              *)
          NoBody,       (* a payload nobody has written                     *)
          MaxPings,     (* bound: pings in a behaviour                      *)
          MaxRuns,      (* bound: runs of the programs                      *)
          MaxRestarts   (* bound: restarts of the E906                      *)

ASSUME ShmPingAssumption ==
  /\ SeqMod \in Nat /\ SeqMod > 2
  /\ NoBody \notin 0 .. SeqMod - 1
  /\ MaxPings \in Nat /\ MaxRuns \in Nat /\ MaxRestarts \in Nat

VARIABLES
  pingSeq, ping,      (* ping_seq and ping_pkt: written by Linux            *)
  pongSeq, pong,      (* pong_seq and pong_pkt: written by the E906         *)
  bells, pending,     (* doorbells in the host's FIFO, RD_IRQ_STATUS bit    *)
  enabled,            (* RD_IRQ_EN bit                                      *)
  unmasked, unread,   (* UIO: line not masked, event the program can read   *)
  host,               (* the Linux program                                  *)
  core,               (* the firmware                                       *)
  clock,              (* now_ns(): identifies a ping                        *)
  made,               (* history: pings the E906 has echoed in full         *)
  disturbed,          (* history: the E906 was not up all through this run  *)
  runs, restarts      (* how much of the bounds is used                     *)

slot  == <<pingSeq, ping, pongSeq, pong>>
line  == <<bells, pending, enabled, unmasked, unread>>
bound == <<clock, made, disturbed, runs, restarts>>
vars  == <<slot, line, host, core, bound>>

Seqs  == 0 .. SeqMod - 1
Times == 0 .. MaxPings

(* A packet: its magic number, sequence number, timestamp, and the sequence *)
(* number its payload pattern was made for.                                 *)
Blank   == [magic |-> "none", seq |-> 0, time |-> 0, body |-> NoBody]
Packets(magics) ==
  [magic : magics \cup {"none"}, seq : Seqs, time : Times, body : Seqs \cup {NoBody}]

Succ(n) == (n + 1) % SeqMod

Init ==
  /\ pingSeq = 0 /\ pongSeq = 0 /\ ping = Blank /\ pong = Blank
  /\ bells = 0 /\ pending = FALSE /\ enabled = FALSE
  /\ unmasked = TRUE /\ unread = FALSE
  /\ host = [pc |-> "off", uio |-> FALSE, seq |-> 0, time |-> 0, synced |-> FALSE]
  /\ core = [pc |-> "boot", handled |-> 0, posted |-> 0, ok |-> TRUE]
  /\ clock = 0 /\ made = {} /\ disturbed = FALSE /\ runs = 0 /\ restarts = 0

HostGoes(pc) == host' = [host EXCEPT !.pc = pc]
CoreGoes(pc) == core' = [core EXCEPT !.pc = pc]

-----------------------------------------------------------------------------
(* testPing on the E906 *)

(* handled = ch->ping_seq: what was posted before this boot is history.     *)
Adopt ==
  /\ core.pc = "boot"
  /\ core' = [core EXCEPT !.pc = "adopt", !.handled = pingSeq]
  /\ UNCHANGED <<slot, line, host, bound>>

PongKept == pongSeq                                             \* mutant
PongAdopted == core.handled

(* ch->pong_seq = handled: the slot is free again.                          *)
FreeSlot ==
  /\ core.pc = "adopt"
  /\ pongSeq' = PongAdopted
  /\ CoreGoes("poll")
  /\ UNCHANGED <<pingSeq, ping, pong, line, host, bound>>

See ==
  /\ core.pc = "poll"
  /\ pingSeq # core.handled
  /\ core' = [core EXCEPT !.pc = "check", !.posted = pingSeq]
  /\ UNCHANGED <<slot, line, host, bound>>

WellFormed ==
  /\ core.posted = Succ(core.handled)
  /\ ping.seq = core.posted
  /\ ping.magic = "PING"

(* The checks of the ping, then the header of the pong.                     *)
PongHeader ==
  /\ core.pc = "check"
  /\ pong' = [pong EXCEPT !.magic = IF WellFormed THEN "PONG" ELSE "ERRO",
                          !.seq = core.posted, !.time = ping.time]
  /\ core' = [core EXCEPT !.pc = "body", !.ok = WellFormed]
  /\ UNCHANGED <<pingSeq, ping, pongSeq, line, host, bound>>

(* Echo the payload and tag it.                                             *)
PongBody ==
  /\ core.pc = "body"
  /\ pong' = [pong EXCEPT !.body = ping.body]
  /\ made' = IF core.ok THEN made \cup {pong.time} ELSE made
  /\ CoreGoes("publish")
  /\ UNCHANGED <<pingSeq, ping, pongSeq, line, host, clock, disturbed, runs, restarts>>

(* The fence before pong_seq: the packet is complete first.                 *)
NoFence == core.pc \in {"body", "publish"}                      \* mutant
PongComplete == core.pc = "publish"

Publish ==
  /\ PongComplete
  /\ pongSeq' = core.posted
  /\ CoreGoes("ring")
  /\ UNCHANGED <<pingSeq, ping, pong, line, host, bound>>

AlwaysRings == TRUE                                             \* mutant
NoBellWaiting == bells = 0

(* tx_pending() == 0, then send(); only the E906 adds to this FIFO.         *)
Ring ==
  /\ core.pc = "ring"
  /\ IF NoBellWaiting
     THEN bells' = bells + 1 /\ pending' = TRUE
     ELSE UNCHANGED <<bells, pending>>
  /\ core' = [core EXCEPT !.pc = "poll", !.handled = core.posted]
  /\ UNCHANGED <<slot, enabled, unmasked, unread, host, bound>>

Firmware == Adopt \/ FreeSlot \/ See \/ PongHeader \/ PongBody \/ Publish \/ Ring

(* External: the core stops, by a crash or by the user.                     *)
CoreStops ==
  /\ core.pc # "down"
  /\ restarts < MaxRestarts
  /\ restarts' = restarts + 1
  /\ disturbed' = TRUE
  /\ CoreGoes("down")
  /\ UNCHANGED <<slot, line, host, clock, made, runs>>

(* External: crash recovery leaves SRAM as it is, a boot clears it first.   *)
CoreStarts ==
  /\ core.pc = "down"
  /\ CoreGoes("boot")
  /\ \/ UNCHANGED slot
     \/ pingSeq' = 0 /\ pongSeq' = 0 /\ ping' = Blank /\ pong' = Blank
  /\ UNCHANGED <<line, host, bound>>

-----------------------------------------------------------------------------
(* ping_shm and ping_uio *)

(* A program starts; ping_uio opens the device, enables the receive         *)
(* interrupt and empties the FIFO before it waits for the slot.             *)
Start ==
  /\ host.pc \in {"off", "failed"}
  /\ runs < MaxRuns
  /\ runs' = runs + 1
  /\ unread' = FALSE
  /\ \E uio \in BOOLEAN :
       /\ host' = [host EXCEPT !.pc = IF uio THEN "drain" ELSE "sync",
                               !.uio = uio, !.synced = FALSE]
       /\ enabled' = (enabled \/ uio)
  /\ UNCHANGED <<slot, bells, pending, unmasked, core, clock, made, disturbed, restarts>>

NeverWaits == TRUE                                              \* mutant
SlotFree == pingSeq = pongSeq

(* sync(): wait until the slot is free, continue after its last number.     *)
Sync ==
  /\ host.pc = "sync"
  /\ SlotFree
  /\ host' = [host EXCEPT !.pc = "ready", !.seq = pingSeq, !.synced = TRUE]
  /\ disturbed' = (core.pc \in {"down", "boot", "adopt"})
  /\ UNCHANGED <<slot, line, core, clock, made, runs, restarts>>

(* The next ping's packet, all but its timestamp.                           *)
Fill ==
  /\ host.pc = "ready"
  /\ clock < MaxPings
  /\ LET next == Succ(host.seq)
     IN /\ host' = [host EXCEPT !.pc = "stamp", !.seq = next]
        /\ ping' = [ping EXCEPT !.magic = "PING", !.seq = next, !.body = next]
  /\ UNCHANGED <<pingSeq, pongSeq, pong, line, core, bound>>

Stamp ==
  /\ host.pc = "stamp"
  /\ clock < MaxPings
  /\ clock' = clock + 1
  /\ host' = [host EXCEPT !.pc = "post", !.time = clock + 1]
  /\ ping' = [ping EXCEPT !.time = clock + 1]
  /\ UNCHANGED <<pingSeq, pongSeq, pong, line, core, made, disturbed, runs, restarts>>

(* __sync_synchronize(), then ping_seq = seq.                               *)
Post ==
  /\ host.pc = "post"
  /\ pingSeq' = host.seq
  /\ HostGoes("look")
  /\ UNCHANGED <<ping, pongSeq, pong, line, core, bound>>

Answered == pongSeq = host.seq

(* ping_shm: one turn of the spin in exchange().                            *)
Spin ==
  /\ host.pc = "look" /\ ~host.uio
  /\ \/ Answered /\ HostGoes("verify")
     \/ ~Answered /\ Succ(pongSeq) # host.seq /\ HostGoes("failed")
  /\ UNCHANGED <<slot, line, core, bound>>

(* ping_uio: look, unmask the interrupt, look again, sleep.                 *)
Look ==
  /\ host.pc = "look" /\ host.uio
  /\ HostGoes(IF Answered THEN "verify" ELSE "unmask")
  /\ UNCHANGED <<slot, line, core, bound>>

Unmask ==
  /\ host.pc = "unmask"
  /\ unmasked' = TRUE
  /\ HostGoes("relook")
  /\ UNCHANGED <<slot, bells, pending, enabled, unread, core, bound>>

LookAgain ==
  /\ host.pc = "relook"
  /\ HostGoes(IF Answered THEN "verify" ELSE "sleep")
  /\ UNCHANGED <<slot, line, core, bound>>

(* epoll_wait() returns with the device readable; read() takes the event.   *)
Wake ==
  /\ host.pc = "sleep"
  /\ unread
  /\ unread' = FALSE
  /\ HostGoes("drain")
  /\ UNCHANGED <<slot, bells, pending, enabled, unmasked, core, bound>>

(* drain_doorbells(): pop until the count is zero.                          *)
Pop ==
  /\ host.pc = "drain"
  /\ IF bells > 0
     THEN bells' = bells - 1 /\ UNCHANGED host
     ELSE HostGoes("ack") /\ UNCHANGED bells
  /\ UNCHANGED <<slot, pending, enabled, unmasked, unread, core, bound>>

SleepsOn == IF host.synced THEN "sleep" ELSE "sync"             \* mutant
AfterDrain == IF host.synced THEN "look" ELSE "sync"

(* ... then clear the pending bit, which stays if the FIFO is not empty.    *)
Ack ==
  /\ host.pc = "ack"
  /\ pending' = (bells > 0)
  /\ HostGoes(AfterDrain)
  /\ UNCHANGED <<slot, bells, enabled, unmasked, unread, core, bound>>

BelievesSeq == pong.magic = "PONG"                              \* mutant
Genuine ==
  /\ pong.magic = "PONG"
  /\ pong.seq = host.seq
  /\ pong.time = host.time
  /\ pong.body = host.seq

(* Every byte of the pong is checked.                                       *)
Verify ==
  /\ host.pc = "verify"
  /\ HostGoes(IF Genuine THEN "ready" ELSE "failed")
  /\ UNCHANGED <<slot, line, core, bound>>

(* The program ends, times out or is killed, wherever it is.                *)
Quit ==
  /\ host.pc \notin {"off", "failed"}
  /\ HostGoes("off")
  /\ UNCHANGED <<slot, line, core, bound>>

(* External: the UIO interrupt handler masks the line and counts an event.  *)
Isr ==
  /\ pending /\ enabled /\ unmasked
  /\ unmasked' = FALSE
  /\ unread' = TRUE
  /\ UNCHANGED <<slot, bells, pending, enabled, host, core, bound>>

Waits   == Sync \/ Spin \/ Look \/ Unmask \/ LookAgain \/ Wake \/ Pop \/ Ack \/ Verify
Program == Start \/ Fill \/ Stamp \/ Post \/ Waits \/ Quit

Next == Firmware \/ CoreStops \/ CoreStarts \/ Program \/ Isr

Spec == Init /\ [][Next]_vars

(* The E906 loops, a stopped core is started again, interrupts are taken,   *)
(* and a program that neither ended nor gave up keeps running.              *)
FairSpec ==
  Spec /\ WF_vars(Firmware) /\ WF_vars(CoreStarts) /\ WF_vars(Waits) /\ WF_vars(Isr)

-----------------------------------------------------------------------------
HostStates ==
  [pc : {"off", "failed", "sync", "ready", "stamp", "post", "look",
         "unmask", "relook", "sleep", "drain", "ack", "verify"},
   uio : BOOLEAN, seq : Seqs, time : Times, synced : BOOLEAN]
CoreStates ==
  [pc : {"down", "boot", "adopt", "poll", "check", "body", "publish", "ring"},
   handled : Seqs, posted : Seqs, ok : BOOLEAN]

(* Types; at most one doorbell waits in the FIFO, since the E906 rings only *)
(* when it finds none.                                                      *)
TypeOK ==
  /\ pingSeq \in Seqs /\ pongSeq \in Seqs
  /\ ping \in Packets({"PING"}) /\ pong \in Packets({"PONG", "ERRO"})
  /\ bells \in 0 .. 1
  /\ pending \in BOOLEAN /\ enabled \in BOOLEAN
  /\ unmasked \in BOOLEAN /\ unread \in BOOLEAN
  /\ host \in HostStates /\ core \in CoreStates
  /\ clock \in Times /\ made \subseteq Times /\ disturbed \in BOOLEAN
  /\ runs \in 0 .. MaxRuns /\ restarts \in 0 .. MaxRestarts

(* Neither packet is read while the other side writes it, whichever side    *)
(* was restarted and however late the answer to an abandoned ping comes.    *)
SlotExclusion ==
  /\ core.pc \in {"check", "body"} => host.pc \notin {"stamp", "post"}
  /\ core.pc \in {"body", "publish"} => host.pc # "verify"

(* A pong that a program accepts was made by the E906, in full, from this   *)
(* very ping: neither the answer to an earlier run's ping, nor a number the *)
(* restarted firmware adopted, nor a half-written packet passes the checks. *)
AcceptedWasMade ==
  [][host.pc = "verify" /\ host'.pc = "ready" => host.time \in made]_vars

(* A program is told of a malformed or impossible answer, and the E906 of a *)
(* malformed ping, only if the E906 was restarted during that run: not by   *)
(* what earlier runs left in the slot, at any step they were killed.        *)
NoFalseAlarm ==
  /\ host.pc = "failed" => disturbed
  /\ core.pc \in {"body", "publish"} /\ ~core.ok => disturbed

(* A ping_uio that sleeps while its pong is in the slot is about to be      *)
(* woken: the doorbell, its interrupt or its event is still on the way.     *)
SleeperWillWake ==
  host.pc = "sleep" /\ Answered /\ ~disturbed
    => unread \/ (pending /\ enabled /\ unmasked) \/ core.pc = "ring"

(* A ping that nobody gives up on is answered while the E906 stays up; no   *)
(* doorbell is slept through although the E906 leaves out a second one.     *)
(* And whatever was abandoned in the slot, on either side, a program that   *)
(* waits for it in sync() gets it.                                          *)
PingsAreAnswered ==
  host.pc = "look" ~> (host.pc \in {"verify", "off", "failed"} \/ disturbed)
SlotFreesUp == host.pc = "sync" ~> host.pc # "sync"
PingProgress == PingsAreAnswered /\ SlotFreesUp
=============================================================================
