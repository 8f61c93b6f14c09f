------------------------------- MODULE DramMsg -------------------------------
(***************************************************************************)
(* The DRAM message pair: testDRAMMsg on the E906 echoes what the Linux    *)
(* program ping_dram sends.  Two shared-memory rings in SRAM carry the     *)
(* descriptors, tx from Linux and rx to Linux; each is an instance of      *)
(* SpscRing, whose actions the steps of both programs call.                *)
(*                                                                         *)
(* A descriptor stands for itself and for its payload buffer in DRAM,      *)
(* which has the slot's number and is written and read between the same    *)
(* two ring operations.  ping_dram may end or be killed at any step, and   *)
(* the next one continues from the indices in the ring.  The E906 may      *)
(* stop at any step; it comes back with SRAM as it was (crash recovery) or *)
(* cleared (a boot), and initialises the rings, whoever is using them.     *)
(***************************************************************************)
EXTENDS Integers, Sequences

CONSTANTS Entries,    (* DRAM_SPSC_RING_ENTRIES                             *)
          IndexMod,   (* 2^32: where an index wraps                         *)
          Window,     (* ping_dram -w: messages in flight                   *)
          Count,      (* ping_dram -n: messages in a run                    *)
          Junk,       (* a slot nobody finished writing                     *)
          NoItem,
          MaxRuns,    (* bound: runs of ping_dram                           *)
          MaxBoots    (* bound: restarts of the E906                        *)

ASSUME DramMsgAssumption ==
  /\ Entries \in Nat \ {0} /\ IndexMod \in Nat
  /\ IndexMod > Entries /\ IndexMod % Entries = 0
  /\ Window \in 1 .. Entries /\ Count \in Nat
  /\ MaxRuns \in Nat /\ MaxBoots \in Nat

VARIABLES
  txHead, txTail, txSlots,                          (* tx_ring               *)
  txPHead, txPTail, txPCorrupt, txPPc, txPItem,     (* tx_producer, Linux    *)
  txCHead, txCTail, txCCorrupt, txCPc, txCItem,     (* tx_consumer, E906     *)
  txMade,                                           (* its endpoints so far  *)
  rxHead, rxTail, rxSlots,                          (* rx_ring               *)
  rxPHead, rxPTail, rxPCorrupt, rxPPc, rxPItem,     (* rx_producer, E906     *)
  rxCHead, rxCTail, rxCCorrupt, rxCPc, rxCItem,     (* rx_consumer, Linux    *)
  rxMade,                                           (* its endpoints so far  *)
  magic,          (* SPSC_CTRL->magic = DRAM_SPSC_MAGIC_INIT                 *)
  core,           (* where main() of testDRAMMsg is                          *)
  client,         (* ping_dram                                               *)
  boots,          (* restarts of the E906 so far                             *)
  upset           (* history: the rings were initialised under a client      *)

txShared == <<txHead, txTail, txSlots>>
rxShared == <<rxHead, rxTail, rxSlots>>
txPriv   == <<txPHead, txPTail, txPCorrupt, txPPc, txPItem,
              txCHead, txCTail, txCCorrupt, txCPc, txCItem, txMade>>
rxPriv   == <<rxPHead, rxPTail, rxPCorrupt, rxPPc, rxPItem,
              rxCHead, rxCTail, rxCCorrupt, rxCPc, rxCItem, rxMade>>
tx   == <<txShared, txPriv>>
rx   == <<rxShared, rxPriv>>
vars == <<tx, rx, magic, core, client, boots, upset>>

(* A message is named by its run and sequence number; the timestamp in the  *)
(* descriptor tells runs apart.                                             *)
Pings   == [run : 1 .. MaxRuns, seq : 1 .. Count]
Ack(p)  == [flags |-> "ACK", of |-> p]
Error   == [flags |-> "ERROR", of |-> NoItem]
Replies == {Ack(p) : p \in Pings} \cup {Error}

(* What stands for no message is no message of any run.                     *)
ASSUME MarkersAssumption ==
  \A x \in {Junk, NoItem} :
    /\ x \notin [run : Nat, seq : Nat]
    /\ x \notin [flags : {"ACK", "ERROR"}, of : [run : Nat, seq : Nat] \cup {NoItem}]

Tx == INSTANCE SpscRing WITH
  N <- Entries, Items <- Pings, MaxRestarts <- MaxRuns + MaxBoots + 1,
  head <- txHead, tail <- txTail, slots <- txSlots,
  pHead <- txPHead, pTail <- txPTail, pCorrupt <- txPCorrupt, pPc <- txPPc, pItem <- txPItem,
  cHead <- txCHead, cTail <- txCTail, cCorrupt <- txCCorrupt, cPc <- txCPc, cItem <- txCItem,
  restarts <- txMade

Rx == INSTANCE SpscRing WITH
  N <- Entries, Items <- Replies, MaxRestarts <- MaxRuns + MaxBoots + 1,
  head <- rxHead, tail <- rxTail, slots <- rxSlots,
  pHead <- rxPHead, pTail <- rxPTail, pCorrupt <- rxPCorrupt, pPc <- rxPPc, pItem <- rxPItem,
  cHead <- rxCHead, cTail <- rxCTail, cCorrupt <- rxCCorrupt, cPc <- rxCPc, cItem <- rxCItem,
  restarts <- rxMade

Init ==
  /\ Tx!Init /\ Rx!Init
  /\ magic = FALSE /\ boots = 0 /\ upset = FALSE
  /\ core = "magicOff"
  /\ client = [pc |-> "off", run |-> 0, sent |-> 0, received |-> 0]

CoreGoes(pc)   == core' = pc
ClientGoes(pc) == client' = [client EXCEPT !.pc = pc]

-----------------------------------------------------------------------------
(* testDRAMMsg: main() up to the loop.  Rings first, magic last.            *)

MagicOff ==
  /\ core = "magicOff"
  /\ magic' = FALSE
  /\ CoreGoes("initTx")
  /\ UNCHANGED <<tx, rx, client, boots, upset>>

(* A program that saw the magic of an earlier boot may still be at work.    *)
UsesRings == client.pc \notin {"off", "failed", "magic"}

InitTx ==
  /\ core = "initTx"
  /\ txHead' = 0 /\ txTail' = 0
  /\ upset' = UsesRings
  /\ CoreGoes("initRx")
  /\ UNCHANGED <<txSlots, txPriv, rx, magic, client, boots>>

InitRx ==
  /\ core = "initRx"
  /\ rxHead' = 0 /\ rxTail' = 0
  /\ CoreGoes("magicOn")
  /\ UNCHANGED <<rxSlots, rxPriv, tx, magic, client, boots, upset>>

MagicOn ==
  /\ core = "magicOn"
  /\ magic' = TRUE
  /\ CoreGoes("consumer")
  /\ UNCHANGED <<tx, rx, client, boots, upset>>

NewTxConsumer ==
  /\ core = "consumer"
  /\ Tx!RestartConsumer
  /\ CoreGoes("producer")
  /\ UNCHANGED <<rx, magic, client, boots, upset>>

NewRxProducer ==
  /\ core = "producer"
  /\ Rx!RestartProducer
  /\ CoreGoes("loop")
  /\ UNCHANGED <<tx, magic, client, boots, upset>>

Sound == txCCorrupt = FALSE /\ rxPCorrupt = FALSE

(* peek(); a corrupt ring is never touched again.                           *)
SeePing ==
  /\ core = "loop"
  /\ Sound
  /\ Tx!Peek
  /\ CoreGoes(IF txCPc' = "peeked" THEN "room" ELSE "loop")
  /\ UNCHANGED <<rx, magic, client, boots, upset>>

(* reserve(); while the reply ring is full the loop comes back here, since  *)
(* a repeated peek() answers from its private indices.                      *)
FindRoom ==
  /\ core = "room"
  /\ Sound
  /\ Rx!Reserve
  /\ CoreGoes(IF rxPPc' = "reserved" THEN "read" ELSE "room")
  /\ UNCHANGED <<tx, magic, client, boots, upset>>

ReadPing ==
  /\ core = "read"
  /\ Tx!ReadSlot
  /\ CoreGoes("echo")
  /\ UNCHANGED <<rx, magic, client, boots, upset>>

(* The checks of the descriptor, then the reply and its payload.            *)
Reply(item) == IF item = Junk THEN Error ELSE Ack(item)

WriteReply ==
  /\ core = "echo"
  /\ rxPItem' = Reply(txCItem)
  /\ Rx!BeginWrite
  /\ CoreGoes("written")
  /\ UNCHANGED <<tx, magic, client, boots, upset>>

ReplyWritten ==
  /\ core = "written"
  /\ Rx!EndWrite
  /\ CoreGoes("first")
  /\ UNCHANGED <<tx, magic, client, boots, upset>>

ReleaseFirst == <<"release", "commit">>                         \* mutant
ReplyThenRelease == <<"commit", "release">>

(* "Commit the reply, then release the ping slot."                          *)
CommitReply ==
  /\ core \in {"first", "second"}
  /\ ReplyThenRelease[IF core = "first" THEN 1 ELSE 2] = "commit"
  /\ Rx!Commit
  /\ CoreGoes(IF core = "first" THEN "second" ELSE "loop")
  /\ UNCHANGED <<tx, magic, client, boots, upset>>

ReleasePing ==
  /\ core \in {"first", "second"}
  /\ ReplyThenRelease[IF core = "first" THEN 1 ELSE 2] = "release"
  /\ Tx!Release
  /\ CoreGoes(IF core = "first" THEN "second" ELSE "loop")
  /\ UNCHANGED <<rx, magic, client, boots, upset>>

Firmware ==
  \/ MagicOff \/ InitTx \/ InitRx \/ MagicOn \/ NewTxConsumer \/ NewRxProducer
  \/ SeePing \/ FindRoom \/ ReadPing \/ WriteReply \/ ReplyWritten
  \/ CommitReply \/ ReleasePing

(* External: the core stops, by a crash or by the user.                     *)
CoreStops ==
  /\ core # "down"
  /\ boots < MaxBoots
  /\ boots' = boots + 1
  /\ upset' = TRUE
  /\ CoreGoes("down")
  /\ UNCHANGED <<tx, rx, magic, client>>

(* External: crash recovery leaves SRAM as it is, a boot clears it.         *)
CoreStarts ==
  /\ core = "down"
  /\ CoreGoes("magicOff")
  /\ \/ UNCHANGED <<txShared, rxShared, magic>>
     \/ /\ magic' = FALSE
        /\ txHead' = 0 /\ txTail' = 0 /\ txSlots' = [s \in Tx!Slot |-> Junk]
        /\ rxHead' = 0 /\ rxTail' = 0 /\ rxSlots' = [s \in Rx!Slot |-> Junk]
  /\ UNCHANGED <<txPriv, rxPriv, client, boots, upset>>

-----------------------------------------------------------------------------
(* ping_dram *)

Start ==
  /\ client.pc \in {"off", "failed"}
  /\ client.run < MaxRuns
  /\ client' = [pc |-> "magic", run |-> client.run + 1, sent |-> 0, received |-> 0]
  /\ UNCHANGED <<tx, rx, magic, core, boots, upset>>

CheckMagic ==
  /\ client.pc = "magic"
  /\ ClientGoes(IF magic THEN "producer" ELSE "off")
  /\ UNCHANGED <<tx, rx, magic, core, boots, upset>>

NewTxProducer ==
  /\ client.pc = "producer"
  /\ Tx!RestartProducer
  /\ ClientGoes("consumer")
  /\ UNCHANGED <<rx, magic, core, boots, upset>>

NewRxConsumer ==
  /\ client.pc = "consumer"
  /\ Rx!RestartConsumer
  /\ ClientGoes("txIdle")
  /\ UNCHANGED <<tx, magic, core, boots, upset>>

(* in_flight() != 0: not idle yet, look again.                              *)
WaitTxIdle ==
  /\ client.pc = "txIdle"
  /\ Tx!InFlight
  /\ ClientGoes(IF txPHead = txPTail' THEN "rxIdle" ELSE "txIdle")
  /\ UNCHANGED <<rx, magic, core, boots, upset>>

(* peek() != nullptr stays so, as nobody else takes the reply: the program  *)
(* ends with "rings not idle at start" when its time is up.                 *)
CheckRxIdle ==
  /\ client.pc = "rxIdle"
  /\ Rx!Peek
  /\ ClientGoes(IF rxCPc' = "peeked" THEN "off" ELSE "post")
  /\ UNCHANGED <<tx, magic, core, boots, upset>>

MayPost == client.sent < Count /\ client.sent - client.received < Window

(* The window or the count is used up: see whether replies have come.       *)
EnoughPosted ==
  /\ client.pc = "post"
  /\ ~MayPost \/ client.received = Count
  /\ ClientGoes(IF client.received = Count THEN "off" ELSE "take")
  /\ UNCHANGED <<tx, rx, magic, core, boots, upset>>

ReservePing ==
  /\ client.pc = "post"
  /\ MayPost
  /\ Tx!Reserve
  /\ ClientGoes(IF txPPc' = "reserved" THEN "fill"
                ELSE IF txPCorrupt' THEN "failed" ELSE "take")
  /\ UNCHANGED <<rx, magic, core, boots, upset>>

FillPing ==
  /\ client.pc = "fill"
  /\ txPItem' = [run |-> client.run, seq |-> client.sent + 1]
  /\ Tx!BeginWrite
  /\ ClientGoes("filled")
  /\ UNCHANGED <<rx, magic, core, boots, upset>>

PingFilled ==
  /\ client.pc = "filled"
  /\ Tx!EndWrite
  /\ ClientGoes("commit")
  /\ UNCHANGED <<rx, magic, core, boots, upset>>

CommitPing ==
  /\ client.pc = "commit"
  /\ Tx!Commit
  /\ client' = [client EXCEPT !.pc = "post", !.sent = @ + 1]
  /\ UNCHANGED <<rx, magic, core, boots, upset>>

(* peek(), at the end of a posting round and after every reply.             *)
SeeReply ==
  /\ client.pc \in {"take", "again"}
  /\ Rx!Peek
  /\ ClientGoes(IF rxCPc' = "peeked" THEN "read"
                ELSE IF client.pc = "take" /\ rxCCorrupt' THEN "failed" ELSE "post")
  /\ UNCHANGED <<tx, magic, core, boots, upset>>

ReadReply ==
  /\ client.pc = "read"
  /\ Rx!ReadSlot
  /\ ClientGoes("check")
  /\ UNCHANGED <<tx, magic, core, boots, upset>>

Expected == Ack([run |-> client.run, seq |-> client.received + 1])

AcceptReply ==
  /\ client.pc = "check"
  /\ rxCItem = Expected
  /\ Rx!Release
  /\ client' = [client EXCEPT !.pc = "again", !.received = @ + 1]
  /\ UNCHANGED <<tx, magic, core, boots, upset>>

(* Flags, sequence number, timestamp, length, offset or payload are wrong.  *)
RejectReply ==
  /\ client.pc = "check"
  /\ rxCItem # Expected
  /\ ClientGoes("failed")
  /\ UNCHANGED <<tx, rx, magic, core, boots, upset>>

(* The program ends, times out or is killed, wherever it is.                *)
Quit ==
  /\ client.pc \notin {"off", "failed"}
  /\ ClientGoes("off")
  /\ UNCHANGED <<tx, rx, magic, core, boots, upset>>

Program ==
  \/ CheckMagic \/ NewTxProducer \/ NewRxConsumer \/ WaitTxIdle \/ CheckRxIdle
  \/ EnoughPosted \/ ReservePing \/ FillPing \/ PingFilled \/ CommitPing
  \/ SeeReply \/ ReadReply \/ AcceptReply \/ RejectReply

Next == Firmware \/ CoreStops \/ CoreStarts \/ Start \/ Program \/ Quit

Spec == Init /\ [][Next]_vars

(* Both programs run on; nobody need start, stop or give up.                *)
FairSpec == Spec /\ WF_vars(Firmware) /\ WF_vars(Program)

-----------------------------------------------------------------------------
(* Types of what the rings do not have themselves.                          *)
TypeOK ==
  /\ Tx!TypeOK /\ Rx!TypeOK
  /\ magic \in BOOLEAN /\ upset \in BOOLEAN /\ boots \in 0 .. MaxBoots
  /\ core \in {"down", "magicOff", "initTx", "initRx", "magicOn", "consumer", "producer",
               "loop", "room", "read", "echo", "written", "first", "second"}
  /\ client \in [pc : {"off", "failed", "magic", "producer", "consumer", "txIdle", "rxIdle",
                       "post", "fill", "filled", "commit", "take", "again", "read", "check"},
                 run : 0 .. MaxRuns, sent : 0 .. Count, received : 0 .. Count]

Booting == core \in {"down", "magicOff", "initTx", "initRx", "magicOn", "consumer", "producer"}

(* ping_dram finds nothing wrong (no malformed, foreign, duplicate or       *)
(* skipped reply and no corrupt index) however earlier runs ended, unless   *)
(* the E906 initialised the rings while a client had them in use.           *)
CleanRuns ==
  [][client.pc # "failed" /\ client'.pc = "failed" => upset]_vars

(* The same seen from the rings: with endpoints that are killed and made    *)
(* anew in mid-operation, both keep the invariant SpscRing is proved from   *)
(* while both sides have theirs, as long as no initialisation met a client; *)
(* and the E906 never waits for room in the reply ring, because what a      *)
(* killed run left behind and what a new run may send do not fill it.       *)
Constructed == ~Booting /\ client.pc \notin {"off", "failed", "magic", "producer", "consumer"}
RingsHold ==
  /\ TypeOK
  /\ ~upset => /\ Constructed => Tx!RingInv /\ Rx!RingInv
               /\ core = "room" => Rx!Ahead(rxHead, rxTail) < Entries

(* Every ping of a run that goes on is answered.                            *)
PingsReturn ==
  \A r \in 0 .. Count - 1 :
    (client.pc = "take" /\ client.received = r /\ client.sent > r)
      ~> (client.received # r \/ client.pc \in {"off", "failed"} \/ upset)
=============================================================================
