---------------------------- MODULE DramMsgProofs ----------------------------
(***************************************************************************)
(* Proofs about DramMsg for every ring size, window, number of pings, of   *)
(* runs and of restarts.  The two rings are instances of SpscRing, so what *)
(* one call does to a ring is cited from SpscRingProofs, once for each     *)
(* ring; what is proved here is which calls the two programs make in which *)
(* state, also when one of them is killed or the E906 starts over.  First  *)
(* the rings and how many messages they hold (DramInv), then which         *)
(* messages these are (OrderedInv), which is what ping_dram checks.        *)
(***************************************************************************)
EXTENDS DramMsg, TLAPS

(* The two instances of DramMsg with what is proved of every ring.          *)
TxP == INSTANCE SpscRingProofs WITH
  N <- Entries, Items <- Pings, MaxRestarts <- MaxRuns + MaxBoots + 1,
  head <- txHead, tail <- txTail, slots <- txSlots,
  pHead <- txPHead, pTail <- txPTail, pCorrupt <- txPCorrupt, pPc <- txPPc, pItem <- txPItem,
  cHead <- txCHead, cTail <- txCTail, cCorrupt <- txCCorrupt, cPc <- txCPc, cItem <- txCItem,
  restarts <- txMade

RxP == INSTANCE SpscRingProofs WITH
  N <- Entries, Items <- Replies, MaxRestarts <- MaxRuns + MaxBoots + 1,
  head <- rxHead, tail <- rxTail, slots <- rxSlots,
  pHead <- rxPHead, pTail <- rxPTail, pCorrupt <- rxPCorrupt, pPc <- rxPPc, pItem <- rxPItem,
  cHead <- rxCHead, cTail <- rxCTail, cCorrupt <- rxCCorrupt, cPc <- rxCPc, cItem <- rxCItem,
  restarts <- rxMade

(* Messages in each ring; a ping is in both from the commit of its reply to *)
(* the release of its slot.                                                 *)
InTx == TxP!Fill
InRx == RxP!Fill
Answered == IF core = "second" THEN 1 ELSE 0

(* Who is where: an endpoint's part of the ring invariant holds from its    *)
(* construction on.                                                         *)
Reset     == core \in {"magicOff", "initTx", "initRx", "magicOn"}
Serving   == core \in {"loop", "room", "read", "echo", "written", "first", "second"}
HasTxConsumer == core = "producer" \/ Serving
HasTxProducer == client.pc \notin {"off", "failed", "magic", "producer"}
HasRxConsumer == HasTxProducer /\ client.pc # "consumer"
Pinging ==
  client.pc \in {"post", "fill", "filled", "commit", "take", "again", "read", "check"}

(* Types of what the rings do not have themselves, and where the programs   *)
(* can be: this holds in any history.                                       *)
ScalarsOK ==
  /\ magic \in BOOLEAN /\ upset \in BOOLEAN /\ boots \in 0 .. MaxBoots
  /\ core \in {"down", "magicOff", "initTx", "initRx", "magicOn", "consumer", "producer",
               "loop", "room", "read", "echo", "written", "first", "second"}
  /\ client \in [pc : {"off", "failed", "magic", "producer", "consumer", "txIdle", "rxIdle",
                       "post", "fill", "filled", "commit", "take", "again", "read", "check"},
                 run : 0 .. MaxRuns, sent : 0 .. Count, received : 0 .. Count]
  /\ client.pc \in {"fill", "filled", "commit"} => client.sent < Count
  /\ client.pc \in {"magic", "producer", "consumer", "txIdle", "rxIdle"} =>
       client.sent = 0 /\ client.received = 0
  /\ core \in {"initTx", "initRx", "magicOn"} => magic = FALSE
  /\ core = "down" => upset
  /\ core \in {"room", "read", "echo", "written", "first", "second"} => txCPc # "idle"

(* Each ring's invariant, in as many parts as there are endpoints.          *)
RingsInv ==
  /\ TxP!SharedInv
  /\ core # "initRx" => RxP!SharedInv
  /\ HasTxProducer => TxP!ProducerInv
  /\ HasTxConsumer => TxP!ConsumerInv
  /\ Serving => RxP!ProducerInv
  /\ HasRxConsumer => RxP!ConsumerInv

(* The window bounds what both rings hold, whoever put it there, and while  *)
(* a client is at its pings the rings hold exactly what it waits for.  The  *)
(* magic word keeps clients out while the rings are initialised.            *)
CountsInv ==
  /\ Reset => magic = FALSE /\ ~UsesRings
  /\ core = "initRx" => InTx = 0
  /\ core # "initRx" => InTx + InRx <= Window + Answered
  /\ client.pc = "rxIdle" => InTx = 0
  /\ Pinging => /\ InTx + InRx = client.sent - client.received + Answered
                /\ client.sent - client.received <= Window
  /\ client.pc \in {"fill", "filled", "commit"} => client.sent - client.received < Window

(* The inductive invariant; an initialisation that met a client voids all   *)
(* but the types until the next one that meets none.                        *)
DramInv ==
  /\ TxP!TypeInv /\ RxP!TypeInv /\ ScalarsOK
  /\ ~upset => RingsInv /\ CountsInv

-----------------------------------------------------------------------------
(* The instances: what SpscRing assumes holds, and the actions are the same *)

LEMMA TxAssumptions == TxP!RingAssumption
BY DramMsgAssumption, MarkersAssumption DEF Pings

LEMMA RxAssumptions == RxP!RingAssumption
BY DramMsgAssumption, MarkersAssumption DEF Pings, Replies, Ack, Error

LEMMA TxSame ==
  /\ Tx!Init <=> TxP!Init
  /\ Tx!TypeOK <=> TxP!TypeOK
  /\ Tx!RingInv <=> TxP!RingInv
  /\ Tx!Reserve <=> TxP!Reserve
  /\ Tx!BeginWrite <=> TxP!BeginWrite
  /\ Tx!EndWrite <=> TxP!EndWrite
  /\ Tx!Commit <=> TxP!Commit
  /\ Tx!InFlight <=> TxP!InFlight
  /\ Tx!RestartProducer <=> TxP!RestartProducer
  /\ Tx!Peek <=> TxP!Peek
  /\ Tx!ReadSlot <=> TxP!ReadSlot
  /\ Tx!Release <=> TxP!Release
  /\ Tx!RestartConsumer <=> TxP!RestartConsumer
<1>1. Tx!Init <=> TxP!Init
  BY DEF Tx!Init, TxP!Init, Tx!Slot, TxP!Slot
<1>2. Tx!TypeOK <=> TxP!TypeOK
  BY DEF Tx!TypeOK, TxP!TypeOK, Tx!Index, TxP!Index, Tx!Slot, TxP!Slot
<1>3. Tx!RingInv <=> TxP!RingInv
  BY DEF Tx!RingInv, TxP!RingInv, Tx!TypeOK, TxP!TypeOK, Tx!Index, TxP!Index, Tx!Slot,
         TxP!Slot, Tx!CopiesLag, TxP!CopiesLag, Tx!NoFalseAlarm, TxP!NoFalseAlarm,
         Tx!Ahead, TxP!Ahead, Tx!SlotOf, TxP!SlotOf, Tx!Plus, TxP!Plus
<1>4. Tx!Reserve <=> TxP!Reserve
  BY DEF Tx!Reserve, TxP!Reserve, Tx!SeenTail, TxP!SeenTail, Tx!SeemsFull, TxP!SeemsFull,
         Tx!HasRoom, TxP!HasRoom, Tx!Ahead, TxP!Ahead, Tx!shared, TxP!shared, Tx!consumer,
         TxP!consumer
<1>5. Tx!BeginWrite <=> TxP!BeginWrite
  BY DEF Tx!BeginWrite, TxP!BeginWrite, Tx!SlotOf, TxP!SlotOf, Tx!consumer, TxP!consumer
<1>6. Tx!EndWrite <=> TxP!EndWrite
  BY DEF Tx!EndWrite, TxP!EndWrite, Tx!SlotOf, TxP!SlotOf, Tx!consumer, TxP!consumer
<1>7. Tx!Commit <=> TxP!Commit
  BY DEF Tx!Commit, TxP!Commit, Tx!SlotWritten, TxP!SlotWritten, Tx!Succ, TxP!Succ,
         Tx!consumer, TxP!consumer
<1>8. Tx!InFlight <=> TxP!InFlight
  BY DEF Tx!InFlight, TxP!InFlight, Tx!shared, TxP!shared, Tx!consumer, TxP!consumer
<1>9. Tx!RestartProducer <=> TxP!RestartProducer
  BY DEF Tx!RestartProducer, TxP!RestartProducer, Tx!shared, TxP!shared, Tx!consumer,
         TxP!consumer
<1>10. Tx!Peek <=> TxP!Peek
  BY DEF Tx!Peek, TxP!Peek, Tx!HasItem, TxP!HasItem, Tx!LoadedHead, TxP!LoadedHead,
         Tx!Ahead, TxP!Ahead, Tx!shared, TxP!shared, Tx!producer, TxP!producer
<1>11. Tx!ReadSlot <=> TxP!ReadSlot
  BY DEF Tx!ReadSlot, TxP!ReadSlot, Tx!SlotOf, TxP!SlotOf, Tx!shared, TxP!shared,
         Tx!producer, TxP!producer
<1>12. Tx!Release <=> TxP!Release
  BY DEF Tx!Release, TxP!Release, Tx!Succ, TxP!Succ, Tx!producer, TxP!producer
<1>13. Tx!RestartConsumer <=> TxP!RestartConsumer
  BY DEF Tx!RestartConsumer, TxP!RestartConsumer, Tx!ContinuesAt, TxP!ContinuesAt,
         Tx!shared, TxP!shared, Tx!producer, TxP!producer
<1> QED BY <1>1, <1>2, <1>3, <1>4, <1>5, <1>6, <1>7, <1>8, <1>9, <1>10, <1>11, <1>12, <1>13

LEMMA RxSame ==
  /\ Rx!Init <=> RxP!Init
  /\ Rx!TypeOK <=> RxP!TypeOK
  /\ Rx!RingInv <=> RxP!RingInv
  /\ Rx!Reserve <=> RxP!Reserve
  /\ Rx!BeginWrite <=> RxP!BeginWrite
  /\ Rx!EndWrite <=> RxP!EndWrite
  /\ Rx!Commit <=> RxP!Commit
  /\ Rx!InFlight <=> RxP!InFlight
  /\ Rx!RestartProducer <=> RxP!RestartProducer
  /\ Rx!Peek <=> RxP!Peek
  /\ Rx!ReadSlot <=> RxP!ReadSlot
  /\ Rx!Release <=> RxP!Release
  /\ Rx!RestartConsumer <=> RxP!RestartConsumer
<1>1. Rx!Init <=> RxP!Init
  BY DEF Rx!Init, RxP!Init, Rx!Slot, RxP!Slot
<1>2. Rx!TypeOK <=> RxP!TypeOK
  BY DEF Rx!TypeOK, RxP!TypeOK, Rx!Index, RxP!Index, Rx!Slot, RxP!Slot
<1>3. Rx!RingInv <=> RxP!RingInv
  BY DEF Rx!RingInv, RxP!RingInv, Rx!TypeOK, RxP!TypeOK, Rx!Index, RxP!Index, Rx!Slot,
         RxP!Slot, Rx!CopiesLag, RxP!CopiesLag, Rx!NoFalseAlarm, RxP!NoFalseAlarm,
         Rx!Ahead, RxP!Ahead, Rx!SlotOf, RxP!SlotOf, Rx!Plus, RxP!Plus
<1>4. Rx!Reserve <=> RxP!Reserve
  BY DEF Rx!Reserve, RxP!Reserve, Rx!SeenTail, RxP!SeenTail, Rx!SeemsFull, RxP!SeemsFull,
         Rx!HasRoom, RxP!HasRoom, Rx!Ahead, RxP!Ahead, Rx!shared, RxP!shared, Rx!consumer,
         RxP!consumer
<1>5. Rx!BeginWrite <=> RxP!BeginWrite
  BY DEF Rx!BeginWrite, RxP!BeginWrite, Rx!SlotOf, RxP!SlotOf, Rx!consumer, RxP!consumer
<1>6. Rx!EndWrite <=> RxP!EndWrite
  BY DEF Rx!EndWrite, RxP!EndWrite, Rx!SlotOf, RxP!SlotOf, Rx!consumer, RxP!consumer
<1>7. Rx!Commit <=> RxP!Commit
  BY DEF Rx!Commit, RxP!Commit, Rx!SlotWritten, RxP!SlotWritten, Rx!Succ, RxP!Succ,
         Rx!consumer, RxP!consumer
<1>8. Rx!InFlight <=> RxP!InFlight
  BY DEF Rx!InFlight, RxP!InFlight, Rx!shared, RxP!shared, Rx!consumer, RxP!consumer
<1>9. Rx!RestartProducer <=> RxP!RestartProducer
  BY DEF Rx!RestartProducer, RxP!RestartProducer, Rx!shared, RxP!shared, Rx!consumer,
         RxP!consumer
<1>10. Rx!Peek <=> RxP!Peek
  BY DEF Rx!Peek, RxP!Peek, Rx!HasItem, RxP!HasItem, Rx!LoadedHead, RxP!LoadedHead,
         Rx!Ahead, RxP!Ahead, Rx!shared, RxP!shared, Rx!producer, RxP!producer
<1>11. Rx!ReadSlot <=> RxP!ReadSlot
  BY DEF Rx!ReadSlot, RxP!ReadSlot, Rx!SlotOf, RxP!SlotOf, Rx!shared, RxP!shared,
         Rx!producer, RxP!producer
<1>12. Rx!Release <=> RxP!Release
  BY DEF Rx!Release, RxP!Release, Rx!Succ, RxP!Succ, Rx!producer, RxP!producer
<1>13. Rx!RestartConsumer <=> RxP!RestartConsumer
  BY DEF Rx!RestartConsumer, RxP!RestartConsumer, Rx!ContinuesAt, RxP!ContinuesAt,
         Rx!shared, RxP!shared, Rx!producer, RxP!producer
<1> QED BY <1>1, <1>2, <1>3, <1>4, <1>5, <1>6, <1>7, <1>8, <1>9, <1>10, <1>11, <1>12, <1>13

-----------------------------------------------------------------------------
(* The inductive invariant *)

(* Outside of initialisations each ring is only touched through its calls.  *)
RingSteps ==
  /\ Tx!Next \/ UNCHANGED tx
  /\ Rx!Next \/ UNCHANGED rx

LEMMA CallsOnly ==
  ASSUME Next, ~InitTx, ~InitRx, ~CoreStarts
  PROVE  RingSteps
<1>1. CASE Firmware
  BY <1>1
  DEF Firmware, MagicOff, MagicOn, NewTxConsumer, NewRxProducer, SeePing, FindRoom,
      ReadPing, WriteReply, ReplyWritten, CommitReply, ReleasePing, RingSteps,
      Tx!Next, Tx!Produce, Tx!Consume, Rx!Next, Rx!Produce, Rx!Consume
<1>2. CASE Program
  BY <1>2
  DEF Program, CheckMagic, NewTxProducer, NewRxConsumer, WaitTxIdle, CheckRxIdle,
      EnoughPosted, ReservePing, FillPing, PingFilled, CommitPing, SeeReply, ReadReply,
      AcceptReply, RejectReply, RingSteps,
      Tx!Next, Tx!Produce, Tx!Consume, Rx!Next, Rx!Produce, Rx!Consume
<1>3. CASE CoreStops \/ Start \/ Quit
  BY <1>3 DEF CoreStops, Start, Quit, RingSteps
<1> QED BY <1>1, <1>2, <1>3 DEF Next

LEMMA TypesStep ==
  ASSUME TxP!TypeInv, RxP!TypeInv, Next
  PROVE  TxP!TypeInv' /\ RxP!TypeInv'
<1>1. CASE ~InitTx /\ ~InitRx /\ ~CoreStarts
  <2>1. (TxP!Next \/ UNCHANGED TxP!vars) /\ (RxP!Next \/ UNCHANGED RxP!vars)
    BY <1>1, CallsOnly, TxSame, RxSame
    DEF RingSteps, Tx!Next, Tx!Produce, Tx!Consume, Rx!Next, Rx!Produce, Rx!Consume,
        TxP!Next, TxP!Produce, TxP!Consume, RxP!Next, RxP!Produce, RxP!Consume,
        tx, rx, txShared, txPriv, rxShared, rxPriv, TxP!vars, TxP!shared, TxP!producer,
        TxP!consumer, RxP!vars, RxP!shared, RxP!producer, RxP!consumer
  <2>2. TxP!TypeInv'
    BY <2>1, TxAssumptions, TxP!TypeInvStep
  <2>3. RxP!TypeInv'
    BY <2>1, RxAssumptions, RxP!TypeInvStep
  <2> QED BY <2>2, <2>3
<1>2. 0 \in TxP!Index /\ 0 \in RxP!Index
  BY DramMsgAssumption DEF TxP!Index, RxP!Index
<1>3. CASE InitTx
  BY <1>2, <1>3
  DEF InitTx, rx, rxShared, rxPriv, txPriv, TxP!TypeInv, TxP!TypeOK, RxP!TypeInv, RxP!TypeOK
<1>4. CASE InitRx
  BY <1>2, <1>4
  DEF InitRx, tx, txShared, txPriv, rxPriv, TxP!TypeInv, TxP!TypeOK, RxP!TypeInv, RxP!TypeOK
<1>5. CASE CoreStarts
  <2>1. txHead' \in TxP!Index /\ txTail' \in TxP!Index
        /\ txSlots' \in [TxP!Slot -> Pings \cup {Junk}]
    BY <1>2, <1>5 DEF CoreStarts, txShared, TxP!TypeInv, TxP!TypeOK, TxP!Slot, Tx!Slot
  <2>2. rxHead' \in RxP!Index /\ rxTail' \in RxP!Index
        /\ rxSlots' \in [RxP!Slot -> Replies \cup {Junk}]
    BY <1>2, <1>5 DEF CoreStarts, rxShared, RxP!TypeInv, RxP!TypeOK, RxP!Slot, Rx!Slot
  <2> QED
    BY <1>5, <2>1, <2>2
    DEF CoreStarts, txPriv, rxPriv, TxP!TypeInv, TxP!TypeOK, RxP!TypeInv, RxP!TypeOK
<1> QED BY <1>1, <1>3, <1>4, <1>5

(* Only the peek(), the release() and a new consumer move where the E906    *)
(* is in a ping.                                                            *)
LEMMA OthersKeepPlace ==
  ASSUME Tx!Reserve \/ Tx!BeginWrite \/ Tx!EndWrite \/ Tx!Commit \/ Tx!InFlight
           \/ Tx!RestartProducer \/ UNCHANGED tx \/ UNCHANGED txPriv
  PROVE  txCPc' = txCPc
BY DEF Tx!Reserve, Tx!BeginWrite, Tx!EndWrite, Tx!Commit, Tx!InFlight,
       Tx!RestartProducer, Tx!consumer, tx, txPriv

(* A program that moves on keeps its counters.                              *)
LEMMA ClientMoves ==
  ASSUME ScalarsOK, NEW pc, ClientGoes(pc)
  PROVE  /\ client'.pc = pc
         /\ client'.run = client.run /\ client'.sent = client.sent
         /\ client'.received = client.received
         /\ client' = [pc |-> pc, run |-> client.run, sent |-> client.sent,
                       received |-> client.received]
BY DEF ScalarsOK, ClientGoes

(* No reply passes for one to a ping that was not to be sent.               *)
LEMMA ExpectedCounts ==
  ASSUME ScalarsOK, RxP!TypeInv, rxCItem = Expected
  PROVE  client.received + 1 \in 0 .. Count
<1> DEFINE q == [run |-> client.run, seq |-> client.received + 1]
<1>1. client.run \in Nat /\ client.received + 1 \in Nat /\ Count \in Nat
  BY DramMsgAssumption DEF ScalarsOK
<1>2. Expected = Ack(q) /\ q \in [run : Nat, seq : Nat]
  BY <1>1 DEF Expected
<1>3. Expected \notin {Junk, NoItem}
  BY <1>2, MarkersAssumption DEF Ack
<1>4. Expected \in Replies
  BY <1>3 DEF RxP!TypeInv, RxP!TypeOK
<1>5. Expected # Error
  BY <1>2 DEF Ack, Error
<1>6. PICK p \in Pings : Ack(p) = Ack(q)
  BY <1>2, <1>4, <1>5 DEF Replies
<1>7. p = q
  BY <1>6 DEF Ack
<1> QED BY <1>1, <1>6, <1>7 DEF Pings

LEMMA FirmwareScalars ==
  ASSUME ScalarsOK, Firmware \/ CoreStops \/ CoreStarts
  PROVE  ScalarsOK'
<1> USE DEF ScalarsOK, CoreGoes
<1>1. CASE MagicOff
  BY <1>1 DEF MagicOff
<1>2. CASE InitTx
  BY <1>2 DEF InitTx, UsesRings
<1>3. CASE InitRx
  BY <1>3 DEF InitRx
<1>4. CASE MagicOn
  BY <1>4 DEF MagicOn
<1>5. CASE NewTxConsumer
  BY <1>5 DEF NewTxConsumer
<1>6. CASE NewRxProducer
  BY <1>6 DEF NewRxProducer
<1>7. CASE SeePing
  BY <1>7 DEF SeePing
<1>8. CASE FindRoom
  BY <1>8, OthersKeepPlace DEF FindRoom
<1>9. CASE ReadPing
  BY <1>9 DEF ReadPing, Tx!ReadSlot
<1>10. CASE WriteReply
  BY <1>10, OthersKeepPlace DEF WriteReply
<1>11. CASE ReplyWritten
  BY <1>11, OthersKeepPlace DEF ReplyWritten
<1>12. CASE CommitReply
  BY <1>12, OthersKeepPlace DEF CommitReply, ReplyThenRelease
<1>13. CASE ReleasePing
  BY <1>13 DEF ReleasePing, ReplyThenRelease
<1>14. CASE CoreStops
  <2>1. boots' \in 0 .. MaxBoots
    BY <1>14, DramMsgAssumption DEF CoreStops
  <2> QED BY <1>14, <2>1 DEF CoreStops
<1>15. CASE CoreStarts
  BY <1>15 DEF CoreStarts
<1> QED
  BY <1>1, <1>2, <1>3, <1>4, <1>5, <1>6, <1>7, <1>8, <1>9, <1>10, <1>11, <1>12, <1>13,
     <1>14, <1>15 DEF Firmware

LEMMA ProgramScalars ==
  ASSUME ScalarsOK, RxP!TypeInv, Start \/ Program \/ Quit
  PROVE  ScalarsOK'
<1>1. UNCHANGED <<magic, core, boots, upset>> /\ txCPc' = txCPc
  BY OthersKeepPlace
  DEF Start, Quit, Program, CheckMagic, NewTxProducer, NewRxConsumer, WaitTxIdle,
      CheckRxIdle, EnoughPosted, ReservePing, FillPing, PingFilled, CommitPing, SeeReply,
      ReadReply, AcceptReply, RejectReply
<1>2. ASSUME NEW pc, NEW run \in 0 .. MaxRuns, NEW sent \in 0 .. Count,
             NEW received \in 0 .. Count,
             client' = [pc |-> pc, run |-> run, sent |-> sent, received |-> received],
             \/ pc \in {"off", "failed", "post", "take", "again", "read", "check"}
             \/ pc \in {"fill", "filled", "commit"} /\ sent < Count
             \/ /\ pc \in {"magic", "producer", "consumer", "txIdle", "rxIdle"}
                /\ sent = 0 /\ received = 0
      PROVE  ScalarsOK'
  BY <1>1, <1>2 DEF ScalarsOK
<1>3. ASSUME NEW pc, ClientGoes(pc),
             \/ pc \in {"off", "failed", "post", "take", "again", "read", "check"}
             \/ pc \in {"fill", "filled", "commit"} /\ client.sent < Count
             \/ /\ pc \in {"magic", "producer", "consumer", "txIdle", "rxIdle"}
                /\ client.sent = 0 /\ client.received = 0
      PROVE  ScalarsOK'
  <2>1. client' = [pc |-> pc, run |-> client.run, sent |-> client.sent,
                   received |-> client.received]
    BY <1>3, ClientMoves
  <2>2. client.run \in 0 .. MaxRuns /\ client.sent \in 0 .. Count
        /\ client.received \in 0 .. Count
    BY DEF ScalarsOK
  <2> QED BY <1>2, <1>3, <2>1, <2>2
<1>4. CASE Start
  <2>1. client.run + 1 \in 0 .. MaxRuns /\ 0 \in 0 .. Count
    BY <1>4, DramMsgAssumption DEF Start, ScalarsOK
  <2> QED BY <1>2, <1>4, <2>1 DEF Start
<1>5. CASE CommitPing
  <2>1. client.sent + 1 \in 0 .. Count
    BY <1>5, DramMsgAssumption DEF CommitPing, ScalarsOK
  <2>2. client' = [pc |-> "post", run |-> client.run, sent |-> client.sent + 1,
                   received |-> client.received]
    BY <1>5 DEF CommitPing, ScalarsOK
  <2> QED BY <1>2, <2>1, <2>2 DEF ScalarsOK
<1>6. CASE AcceptReply
  <2>1. client.received + 1 \in 0 .. Count
    BY <1>6, ExpectedCounts DEF AcceptReply
  <2>2. client' = [pc |-> "again", run |-> client.run, sent |-> client.sent,
                   received |-> client.received + 1]
    BY <1>6 DEF AcceptReply, ScalarsOK
  <2> QED BY <1>2, <2>1, <2>2 DEF ScalarsOK
<1>7. CASE Quit \/ CheckMagic \/ NewTxProducer \/ NewRxConsumer \/ WaitTxIdle \/ CheckRxIdle
  <2>1. PICK pc \in {"off", "producer", "consumer", "txIdle", "rxIdle", "post"} :
          ClientGoes(pc) /\ (pc \notin {"off", "post"} =>
                               client.pc \in {"magic", "producer", "consumer", "txIdle"})
    BY <1>7 DEF Quit, CheckMagic, NewTxProducer, NewRxConsumer, WaitTxIdle, CheckRxIdle
  <2> QED BY <1>3, <2>1 DEF ScalarsOK
<1>8. CASE EnoughPosted \/ ReservePing \/ FillPing \/ PingFilled \/ SeeReply \/ ReadReply
             \/ RejectReply
  <2>1. PICK pc \in {"off", "take", "fill", "failed", "filled", "commit", "read", "post",
                     "check"} :
          ClientGoes(pc) /\ (pc \in {"fill", "filled", "commit"} =>
                               MayPost \/ client.pc \in {"fill", "filled"})
    BY <1>8
    DEF EnoughPosted, ReservePing, FillPing, PingFilled, SeeReply, ReadReply, RejectReply
  <2> QED BY <1>3, <2>1 DEF ScalarsOK, MayPost
<1> QED BY <1>4, <1>5, <1>6, <1>7, <1>8 DEF Program

LEMMA TxFacts ==
  ASSUME TxP!TypeInv
  PROVE  /\ InTx \in Nat /\ (InTx = 0 <=> txHead = txTail)
         /\ TxP!ConsumerInv /\ txCPc # "idle" => InTx > 0
BY TxAssumptions, TxP!FillFacts DEF InTx

LEMMA RxFacts ==
  ASSUME RxP!TypeInv
  PROVE  InRx \in Nat /\ (InRx = 0 <=> rxHead = rxTail)
BY RxAssumptions, RxP!FillFacts DEF InRx

(* An initialised ring.                                                     *)
LEMMA TxEmpty == TxP!TypeInv /\ txHead = txTail => TxP!SharedInv /\ InTx = 0
BY TxAssumptions, TxP!FillFacts DEF InTx

LEMMA RxEmpty == RxP!TypeInv /\ rxHead = rxTail => RxP!SharedInv /\ InRx = 0
BY RxAssumptions, RxP!FillFacts DEF InRx

(* A ring no step calls.                                                    *)
LEMMA TxKept ==
  ASSUME UNCHANGED tx
  PROVE  /\ TxP!SharedInv => TxP!SharedInv'
         /\ TxP!ProducerInv => TxP!ProducerInv'
         /\ TxP!ConsumerInv => TxP!ConsumerInv'
         /\ InTx' = InTx
<1>1. UNCHANGED TxP!vars
  BY DEF tx, txShared, txPriv, TxP!vars, TxP!shared, TxP!producer, TxP!consumer
<1> QED BY <1>1, TxAssumptions, TxP!NoCall DEF InTx

LEMMA RxKept ==
  ASSUME UNCHANGED rx
  PROVE  /\ RxP!SharedInv => RxP!SharedInv'
         /\ RxP!ProducerInv => RxP!ProducerInv'
         /\ RxP!ConsumerInv => RxP!ConsumerInv'
         /\ InRx' = InRx
<1>1. UNCHANGED RxP!vars
  BY DEF rx, rxShared, rxPriv, RxP!vars, RxP!shared, RxP!producer, RxP!consumer
<1> QED BY <1>1, RxAssumptions, RxP!NoCall DEF InRx

(* testDRAMMsg keeps the rings and the counts.                              *)
LEMMA FirmwareHolds ==
  ASSUME TxP!TypeInv, RxP!TypeInv, TxP!TypeInv', RxP!TypeInv', ScalarsOK,
         ~upset => RingsInv /\ CountsInv, Firmware, ~upset'
  PROVE  RingsInv' /\ CountsInv'
<1>nat. /\ InTx \in Nat /\ InRx \in Nat /\ Window \in Nat
        /\ client.sent \in Nat /\ client.received \in Nat
  BY TxFacts, RxFacts, DramMsgAssumption DEF ScalarsOK
<1>new. /\ txHead' = txTail' => TxP!SharedInv' /\ InTx' = 0
        /\ rxHead' = rxTail' => RxP!SharedInv' /\ InRx' = 0
  <2>1. (TxP!TypeInv /\ txHead = txTail => TxP!SharedInv /\ InTx = 0)'
    BY TxEmpty, PTL
  <2>2. (RxP!TypeInv /\ rxHead = rxTail => RxP!SharedInv /\ InRx = 0)'
    BY RxEmpty, PTL
  <2> QED BY <2>1, <2>2
<1> USE DEF CoreGoes, Reset, Serving, HasTxConsumer, HasTxProducer, HasRxConsumer, Pinging,
            UsesRings, Answered
<1>1. CASE InitTx
  BY <1>1, <1>new, <1>nat, RxKept DEF InitTx, RingsInv, CountsInv, ScalarsOK
<1>2. CASE ~InitTx
  <2>1. RingsInv /\ CountsInv /\ client' = client /\ upset' = upset
    BY <1>2 DEF Firmware, MagicOff, InitRx, MagicOn, NewTxConsumer, NewRxProducer, SeePing,
                FindRoom, ReadPing, WriteReply, ReplyWritten, CommitReply, ReleasePing
  <2>2. CASE MagicOff
    BY <2>1, <2>2, <1>nat, TxKept, RxKept DEF MagicOff, RingsInv, CountsInv
  <2>3. CASE InitRx
    BY <2>1, <2>3, <1>new, <1>nat, TxKept DEF InitRx, RingsInv, CountsInv
  <2>4. CASE MagicOn
    BY <2>1, <2>4, <1>nat, TxKept, RxKept DEF MagicOn, RingsInv, CountsInv
  <2>5. CASE NewTxConsumer
    <3>1. Tx!RestartConsumer /\ core = "consumer"
      BY <2>5 DEF NewTxConsumer
    <3>2. /\ TxP!SharedInv' /\ TxP!ConsumerInv' /\ (TxP!ProducerInv => TxP!ProducerInv')
          /\ InTx' = InTx
      BY <3>1, <2>1, TxSame, TxAssumptions, TxP!EndpointCall DEF RingsInv, InTx
    <3> QED BY <2>1, <2>5, <3>2, <1>nat, RxKept DEF NewTxConsumer, RingsInv, CountsInv
  <2>6. CASE NewRxProducer
    <3>1. Rx!RestartProducer /\ core = "producer"
      BY <2>6 DEF NewRxProducer
    <3>2. /\ RxP!SharedInv' /\ RxP!ProducerInv' /\ (RxP!ConsumerInv => RxP!ConsumerInv')
          /\ InRx' = InRx
      BY <3>1, <2>1, RxSame, RxAssumptions, RxP!EndpointCall DEF RingsInv, InRx
    <3> QED BY <2>1, <2>6, <3>2, <1>nat, TxKept DEF NewRxProducer, RingsInv, CountsInv
  <2>7. CASE SeePing \/ ReadPing
    <3>1. /\ Tx!Peek \/ Tx!ReadSlot
          /\ core \in {"loop", "read"} /\ core' \in {"loop", "room", "echo"}
          /\ UNCHANGED <<rx, magic>>
      BY <2>7 DEF SeePing, ReadPing
    <3>2. /\ TxP!SharedInv' /\ TxP!ConsumerInv' /\ (TxP!ProducerInv => TxP!ProducerInv')
          /\ InTx' = InTx
      BY <3>1, <2>1, TxSame, TxAssumptions, TxP!ConsumerCall DEF RingsInv, InTx
    <3> QED BY <2>1, <3>1, <3>2, <1>nat, RxKept DEF RingsInv, CountsInv
  <2>8. CASE FindRoom \/ WriteReply \/ ReplyWritten
    <3>1. /\ Rx!Reserve \/ Rx!BeginWrite \/ Rx!EndWrite
          /\ core \in {"room", "echo", "written"}
          /\ core' \in {"read", "room", "written", "first"}
          /\ UNCHANGED <<tx, magic>>
      BY <2>8 DEF FindRoom, WriteReply, ReplyWritten
    <3>2. /\ RxP!SharedInv' /\ RxP!ProducerInv' /\ (RxP!ConsumerInv => RxP!ConsumerInv')
          /\ InRx' = InRx
      BY <3>1, <2>1, RxSame, RxAssumptions, RxP!ProducerCall DEF RingsInv, InRx
    <3> QED BY <2>1, <3>1, <3>2, <1>nat, TxKept DEF RingsInv, CountsInv
  <2>9. CASE CommitReply
    <3>1. Rx!Commit /\ core = "first" /\ core' = "second" /\ UNCHANGED <<tx, magic>>
      BY <2>9 DEF CommitReply, ReplyThenRelease
    <3>2. /\ RxP!SharedInv' /\ RxP!ProducerInv' /\ (RxP!ConsumerInv => RxP!ConsumerInv')
          /\ InRx' = InRx + 1
      BY <3>1, <2>1, RxSame, RxAssumptions, RxP!CommitCall DEF RingsInv, InRx
    <3> QED BY <2>1, <3>1, <3>2, <1>nat, TxKept DEF RingsInv, CountsInv
  <2>10. CASE ReleasePing
    <3>1. Tx!Release /\ core = "second" /\ core' = "loop" /\ UNCHANGED <<rx, magic>>
      BY <2>10 DEF ReleasePing, ReplyThenRelease
    <3>2. /\ TxP!SharedInv' /\ TxP!ConsumerInv' /\ (TxP!ProducerInv => TxP!ProducerInv')
          /\ InTx' = InTx - 1
      BY <3>1, <2>1, TxSame, TxAssumptions, TxP!ReleaseCall DEF RingsInv, InTx
    <3>3. InTx > 0
      BY <2>1, <3>1, TxFacts DEF ScalarsOK, RingsInv
    <3> QED BY <2>1, <3>1, <3>2, <3>3, <1>nat, RxKept DEF RingsInv, CountsInv
  <2> QED
    BY <1>2, <2>2, <2>3, <2>4, <2>5, <2>6, <2>7, <2>8, <2>9, <2>10 DEF Firmware
<1> QED BY <1>1, <1>2

(* So does ping_dram.                                                       *)
LEMMA ProgramHolds ==
  ASSUME TxP!TypeInv, RxP!TypeInv, ScalarsOK, RingsInv, CountsInv, Start \/ Program \/ Quit
  PROVE  RingsInv' /\ CountsInv'
<1>nat. /\ InTx \in Nat /\ InRx \in Nat /\ Window \in Nat
        /\ client.sent \in Nat /\ client.received \in Nat
  BY TxFacts, RxFacts, DramMsgAssumption DEF ScalarsOK
<1>same. UNCHANGED <<magic, core, upset>>
  BY DEF Start, Quit, Program, CheckMagic, NewTxProducer, NewRxConsumer, WaitTxIdle,
         CheckRxIdle, EnoughPosted, ReservePing, FillPing, PingFilled, CommitPing, SeeReply,
         ReadReply, AcceptReply, RejectReply
<1>far. HasTxProducer => core # "initRx"
  BY DEF HasTxProducer, CountsInv, Reset, UsesRings
<1> USE <1>same, <1>nat, <1>far
    DEF Reset, Serving, HasTxConsumer, HasTxProducer, HasRxConsumer, Pinging, UsesRings,
        Answered
<1>1. CASE Start
  BY <1>1, TxKept, RxKept DEF Start, RingsInv, CountsInv
<1>2. CASE Quit
  BY <1>2, ClientMoves, TxKept, RxKept DEF Quit, RingsInv, CountsInv
<1>3. CASE CheckMagic
  BY <1>3, ClientMoves, TxKept, RxKept DEF CheckMagic, RingsInv, CountsInv
<1>4. CASE EnoughPosted \/ RejectReply
  <2>1. PICK pc \in {"off", "take", "failed"} : ClientGoes(pc)
    BY <1>4 DEF EnoughPosted, RejectReply
  <2>2. client.pc \in {"post", "check"} /\ UNCHANGED <<tx, rx>>
    BY <1>4 DEF EnoughPosted, RejectReply
  <2> QED BY <2>1, <2>2, ClientMoves, TxKept, RxKept DEF RingsInv, CountsInv
<1>5. CASE NewTxProducer
  <2>1. Tx!RestartProducer /\ client.pc = "producer" /\ ClientGoes("consumer")
        /\ UNCHANGED rx
    BY <1>5 DEF NewTxProducer
  <2>2. /\ TxP!SharedInv' /\ TxP!ProducerInv' /\ (TxP!ConsumerInv => TxP!ConsumerInv')
        /\ InTx' = InTx
    BY <2>1, TxSame, TxAssumptions, TxP!EndpointCall DEF RingsInv, InTx
  <2> QED BY <2>1, <2>2, ClientMoves, RxKept DEF RingsInv, CountsInv
<1>6. CASE NewRxConsumer
  <2>1. Rx!RestartConsumer /\ client.pc = "consumer" /\ ClientGoes("txIdle") /\ UNCHANGED tx
    BY <1>6 DEF NewRxConsumer
  <2>2. /\ RxP!SharedInv' /\ RxP!ConsumerInv' /\ (RxP!ProducerInv => RxP!ProducerInv')
        /\ InRx' = InRx
    BY <2>1, RxSame, RxAssumptions, RxP!EndpointCall DEF RingsInv, InRx
  <2> QED BY <2>1, <2>2, ClientMoves, TxKept DEF RingsInv, CountsInv
<1>7. CASE WaitTxIdle
  <2>1. /\ Tx!InFlight /\ client.pc = "txIdle" /\ UNCHANGED rx
        /\ ClientGoes("txIdle") \/ (ClientGoes("rxIdle") /\ txPHead = txPTail')
    BY <1>7 DEF WaitTxIdle, ClientGoes
  <2>2. /\ TxP!SharedInv' /\ TxP!ProducerInv' /\ (TxP!ConsumerInv => TxP!ConsumerInv')
        /\ InTx' = InTx
    BY <2>1, TxSame, TxAssumptions, TxP!ProducerCall DEF RingsInv, InTx
  <2>3. txPHead = txPTail' => InTx = 0
    BY <2>1, TxFacts DEF Tx!InFlight, RingsInv, TxP!ProducerInv
  <2> QED BY <2>1, <2>2, <2>3, ClientMoves, RxKept DEF RingsInv, CountsInv
<1>8. CASE CheckRxIdle
  <2>1. /\ Rx!Peek /\ client.pc = "rxIdle" /\ UNCHANGED tx
        /\ ClientGoes("off") \/ (ClientGoes("post") /\ rxCPc' # "peeked")
    BY <1>8 DEF CheckRxIdle, ClientGoes
  <2>2. /\ RxP!SharedInv' /\ RxP!ConsumerInv' /\ (RxP!ProducerInv => RxP!ProducerInv')
        /\ InRx' = InRx /\ (rxCPc' # "peeked" => InRx = 0)
    BY <2>1, RxSame, RxAssumptions, RxP!ConsumerCall DEF RingsInv, InRx
  <2>3. core # "second"
    BY <2>1, TxFacts DEF ScalarsOK, RingsInv, CountsInv
  <2>4. client.sent = 0 /\ client.received = 0 /\ InTx = 0
    BY <2>1 DEF ScalarsOK, CountsInv
  <2>5. CASE ClientGoes("off")
    BY <2>1, <2>2, <2>5, ClientMoves, TxKept DEF RingsInv, CountsInv
  <2>6. CASE ClientGoes("post") /\ rxCPc' # "peeked"
    BY <2>1, <2>2, <2>3, <2>4, <2>6, ClientMoves, TxKept DEF RingsInv, CountsInv
  <2> QED BY <2>1, <2>5, <2>6
<1>9. CASE ReservePing \/ FillPing \/ PingFilled
  <2>1. /\ Tx!Reserve \/ Tx!BeginWrite \/ Tx!EndWrite
        /\ client.pc \in {"post", "fill", "filled"} /\ UNCHANGED rx
    BY <1>9 DEF ReservePing, FillPing, PingFilled
  <2>2. PICK pc \in {"fill", "failed", "take", "filled", "commit"} :
          ClientGoes(pc) /\ (pc \in {"fill", "filled", "commit"} =>
                               client.sent - client.received < Window)
    BY <1>9 DEF ReservePing, FillPing, PingFilled, MayPost, CountsInv
  <2>3. /\ TxP!SharedInv' /\ TxP!ProducerInv' /\ (TxP!ConsumerInv => TxP!ConsumerInv')
        /\ InTx' = InTx
    BY <2>1, TxSame, TxAssumptions, TxP!ProducerCall DEF RingsInv, InTx
  <2> QED BY <2>1, <2>2, <2>3, ClientMoves, RxKept DEF RingsInv, CountsInv
<1>10. CASE CommitPing
  <2>1. /\ Tx!Commit /\ client.pc = "commit" /\ UNCHANGED rx
        /\ client' = [client EXCEPT !.pc = "post", !.sent = @ + 1]
    BY <1>10 DEF CommitPing
  <2>2. /\ TxP!SharedInv' /\ TxP!ProducerInv' /\ (TxP!ConsumerInv => TxP!ConsumerInv')
        /\ InTx' = InTx + 1
    BY <2>1, TxSame, TxAssumptions, TxP!CommitCall DEF RingsInv, InTx
  <2>3. client'.pc = "post" /\ client'.sent = client.sent + 1
        /\ client'.received = client.received
    BY <2>1 DEF ScalarsOK
  <2> QED BY <2>1, <2>2, <2>3, RxKept DEF RingsInv, CountsInv
<1>11. CASE SeeReply \/ ReadReply
  <2>1. /\ Rx!Peek \/ Rx!ReadSlot
        /\ client.pc \in {"take", "again", "read"} /\ UNCHANGED tx
    BY <1>11 DEF SeeReply, ReadReply
  <2>2. PICK pc \in {"read", "failed", "post", "check"} : ClientGoes(pc)
    BY <1>11 DEF SeeReply, ReadReply
  <2>3. /\ RxP!SharedInv' /\ RxP!ConsumerInv' /\ (RxP!ProducerInv => RxP!ProducerInv')
        /\ InRx' = InRx
    BY <2>1, RxSame, RxAssumptions, RxP!ConsumerCall DEF RingsInv, InRx
  <2> QED BY <2>1, <2>2, <2>3, ClientMoves, TxKept DEF RingsInv, CountsInv
<1>12. CASE AcceptReply
  <2>1. /\ Rx!Release /\ client.pc = "check" /\ UNCHANGED tx
        /\ client' = [client EXCEPT !.pc = "again", !.received = @ + 1]
    BY <1>12 DEF AcceptReply
  <2>2. /\ RxP!SharedInv' /\ RxP!ConsumerInv' /\ (RxP!ProducerInv => RxP!ProducerInv')
        /\ InRx' = InRx - 1
    BY <2>1, RxSame, RxAssumptions, RxP!ReleaseCall DEF RingsInv, InRx
  <2>3. client'.pc = "again" /\ client'.sent = client.sent
        /\ client'.received = client.received + 1
    BY <2>1 DEF ScalarsOK
  <2> QED BY <2>1, <2>2, <2>3, TxKept DEF RingsInv, CountsInv
<1> QED
  BY <1>1, <1>2, <1>3, <1>4, <1>5, <1>6, <1>7, <1>8, <1>9, <1>10, <1>11, <1>12 DEF Program

LEMMA DramInvInit == Init => DramInv
<1> SUFFICES ASSUME Init PROVE DramInv
  OBVIOUS
<1>1. TxP!Init /\ RxP!Init
  BY TxSame, RxSame DEF Init
<1>2. TxP!RingInv /\ RxP!RingInv
  BY <1>1, TxAssumptions, RxAssumptions, TxP!RingInvInit, RxP!RingInvInit
<1>3. /\ TxP!TypeInv /\ TxP!SharedInv /\ RxP!TypeInv /\ RxP!SharedInv
  BY <1>2, TxAssumptions, RxAssumptions, TxP!RingParts, RxP!RingParts
<1>4. InTx = 0 /\ InRx = 0
  BY <1>1, <1>3, TxEmpty, RxEmpty DEF TxP!Init, RxP!Init
<1>5. ScalarsOK
  <2>1. 0 \in 0 .. MaxBoots /\ 0 \in 0 .. MaxRuns /\ 0 \in 0 .. Count
    BY DramMsgAssumption
  <2> QED BY <2>1 DEF Init, ScalarsOK
<1>6. RingsInv /\ CountsInv
  BY <1>3, <1>4, DramMsgAssumption
  DEF Init, RingsInv, CountsInv, Reset, Serving, HasTxConsumer, HasTxProducer,
      HasRxConsumer, Pinging, UsesRings, Answered
<1> QED BY <1>3, <1>5, <1>6 DEF DramInv

LEMMA DramInvStep == DramInv /\ [Next]_vars => DramInv'
<1> SUFFICES ASSUME DramInv, [Next]_vars PROVE DramInv'
  OBVIOUS
<1>1. CASE Next
  <2>1. TxP!TypeInv' /\ RxP!TypeInv'
    BY <1>1, TypesStep DEF DramInv
  <2>2. ScalarsOK'
    BY <1>1, FirmwareScalars, ProgramScalars DEF DramInv, Next
  <2>3. ASSUME ~upset' PROVE RingsInv' /\ CountsInv'
    <3>1. CASE Firmware
      BY <2>1, <2>3, <3>1, FirmwareHolds DEF DramInv
    <3>2. CASE Start \/ Program \/ Quit
      <4>1. ~upset
        BY <2>3, <3>2
        DEF Start, Quit, Program, CheckMagic, NewTxProducer, NewRxConsumer, WaitTxIdle,
            CheckRxIdle, EnoughPosted, ReservePing, FillPing, PingFilled, CommitPing,
            SeeReply, ReadReply, AcceptReply, RejectReply
      <4> QED BY <3>2, <4>1, ProgramHolds DEF DramInv
    <3>3. CASE CoreStops \/ CoreStarts
      BY <2>3, <3>3 DEF CoreStops, CoreStarts, DramInv, ScalarsOK
    <3> QED BY <1>1, <3>1, <3>2, <3>3 DEF Next
  <2> QED BY <2>1, <2>2, <2>3 DEF DramInv
<1>2. CASE UNCHANGED vars
  <2>1. UNCHANGED <<tx, rx, magic, core, client, boots, upset>>
    BY <1>2 DEF vars
  <2>2. TxP!TypeInv' /\ RxP!TypeInv' /\ ScalarsOK'
    BY <2>1 DEF tx, rx, txShared, txPriv, rxShared, rxPriv, DramInv, ScalarsOK,
                TxP!TypeInv, TxP!TypeOK, RxP!TypeInv, RxP!TypeOK
  <2>3. upset \/ (RingsInv' /\ CountsInv')
    BY <2>1, TxKept, RxKept
    DEF DramInv, RingsInv, CountsInv, Reset, Serving, HasTxConsumer, HasTxProducer,
        HasRxConsumer, Pinging, UsesRings, Answered
  <2> QED BY <2>1, <2>2, <2>3 DEF DramInv
<1> QED BY <1>1, <1>2

(* Rings, counts and types in every reachable state, with endpoints killed  *)
(* and made anew at any step and the E906 stopped and started.              *)
THEOREM DramInvariant == Spec => []DramInv
BY DramInvInit, DramInvStep, PTL DEF Spec

LEMMA DramInvRingsHold == DramInv => RingsHold
<1> SUFFICES ASSUME DramInv PROVE RingsHold
  OBVIOUS
<1>1. TypeOK
  BY TxSame, RxSame DEF DramInv, ScalarsOK, TypeOK, TxP!TypeInv, RxP!TypeInv
<1>2. ASSUME ~upset, Constructed PROVE Tx!RingInv /\ Rx!RingInv
  <2>1. /\ TxP!TypeInv /\ TxP!SharedInv /\ TxP!ProducerInv /\ TxP!ConsumerInv
        /\ RxP!TypeInv /\ RxP!SharedInv /\ RxP!ProducerInv /\ RxP!ConsumerInv
    BY <1>2
    DEF DramInv, RingsInv, ScalarsOK, Constructed, Booting, Serving, HasTxConsumer,
        HasTxProducer, HasRxConsumer
  <2>2. TxP!RingInv
    BY <2>1, TxAssumptions, TxP!RingParts
  <2>3. RxP!RingInv
    BY <2>1, RxAssumptions, RxP!RingParts
  <2> QED BY <2>2, <2>3, TxSame, RxSame
<1>3. ASSUME ~upset, core = "room" PROVE Rx!Ahead(rxHead, rxTail) < Entries
  <2>1. InTx \in Nat /\ InTx > 0 /\ InRx \in Nat /\ InTx + InRx <= Window
    BY <1>3, TxFacts, RxFacts, DramMsgAssumption
    DEF DramInv, RingsInv, CountsInv, ScalarsOK, HasTxConsumer, Serving, Answered
  <2>2. InRx < Entries
    BY <2>1, DramMsgAssumption
  <2> QED BY <2>2 DEF InRx, RxP!Fill, RxP!Ahead, Rx!Ahead
<1> QED BY <1>1, <1>2, <1>3 DEF RingsHold

(* Both rings keep the invariant SpscRing is proved from, and the E906      *)
(* always finds room for its reply, as long as no initialisation met a      *)
(* client that was using the rings.                                         *)
THEOREM RingsAlwaysHold == Spec => []RingsHold
BY DramInvariant, DramInvRingsHold, PTL

-----------------------------------------------------------------------------
(* What is in the rings *)

(* The ping with number n of the run that is on.                            *)
Msg(n) == [run |-> client.run, seq |-> n]

(* A program that decides on a message has copied it.                       *)
PlacesOK ==
  /\ client.pc = "check" => rxCPc = "read"
  /\ core = "echo" => txCPc = "read"

(* The replies from the next one expected on, then the pings from the first *)
(* unanswered one on, then what each side is about to commit.               *)
RepliesInOrder ==
  \A k \in 0 .. InRx - 1 : RxP!Item(k) = Ack(Msg(client.received + 1 + k))

PingsInOrder ==
  \A k \in 0 .. InTx - 1 :
    TxP!Item(k) = Msg(client.received + InRx - Answered + 1 + k)

PingInHand == client.pc \in {"filled", "commit"} => txPItem = Msg(client.sent + 1)

ReplyInHand ==
  core \in {"written", "first"} => rxPItem = Ack(Msg(client.received + InRx + 1))

OrderInv ==
  Pinging => RepliesInOrder /\ PingsInOrder /\ PingInHand /\ ReplyInHand

OrderedInv == PlacesOK /\ (~upset => OrderInv)

(* What a step leaves alone.                                                *)
LEMMA OthersKeepRxPlace ==
  ASSUME Rx!Reserve \/ Rx!BeginWrite \/ Rx!EndWrite \/ Rx!Commit \/ Rx!InFlight
           \/ Rx!RestartProducer \/ UNCHANGED rx \/ UNCHANGED rxPriv
  PROVE  rxCPc' = rxCPc
BY DEF Rx!Reserve, Rx!BeginWrite, Rx!EndWrite, Rx!Commit, Rx!InFlight,
       Rx!RestartProducer, Rx!consumer, rx, rxPriv

LEMMA TxItemsStay ==
  ASSUME Tx!Peek \/ Tx!ReadSlot \/ Tx!RestartConsumer \/ UNCHANGED tx
  PROVE  txPItem' = txPItem /\ InTx' = InTx /\ \A k : TxP!Item(k)' = TxP!Item(k)
<1>1. UNCHANGED <<txHead, txTail, txSlots, txPItem>>
  BY DEF Tx!Peek, Tx!ReadSlot, Tx!RestartConsumer, Tx!shared, Tx!producer, tx, txShared,
         txPriv
<1>2. InTx' = InTx
  BY <1>1 DEF InTx, TxP!Fill, TxP!Ahead
<1> QED BY <1>1, <1>2, TxAssumptions, TxP!ItemsStay

LEMMA RxItemsStay ==
  ASSUME Rx!Peek \/ Rx!ReadSlot \/ Rx!RestartProducer \/ UNCHANGED rx
  PROVE  /\ InRx' = InRx /\ \A k : RxP!Item(k)' = RxP!Item(k)
         /\ Rx!RestartProducer \/ rxPItem' = rxPItem
<1>1. UNCHANGED <<rxHead, rxTail, rxSlots>> /\ (Rx!RestartProducer \/ rxPItem' = rxPItem)
  BY DEF Rx!Peek, Rx!ReadSlot, Rx!RestartProducer, Rx!shared, Rx!producer, rx, rxShared,
         rxPriv
<1>2. InRx' = InRx
  BY <1>1 DEF InRx, RxP!Fill, RxP!Ahead
<1> QED BY <1>1, <1>2, RxAssumptions, RxP!ItemsStay

LEMMA PlacesStep ==
  ASSUME PlacesOK, ScalarsOK, Next
  PROVE  PlacesOK'
<1>1. CASE Firmware \/ CoreStops \/ CoreStarts
  <2>1. client' = client /\ rxCPc' = rxCPc
    BY <1>1, OthersKeepRxPlace
    DEF Firmware, MagicOff, InitTx, InitRx, MagicOn, NewTxConsumer, NewRxProducer, SeePing,
        FindRoom, ReadPing, WriteReply, ReplyWritten, CommitReply, ReleasePing, CoreStops,
        CoreStarts
  <2>2. core' = "echo" => txCPc' = "read"
    BY <1>1
    DEF Firmware, MagicOff, InitTx, InitRx, MagicOn, NewTxConsumer, NewRxProducer, SeePing,
        FindRoom, ReadPing, WriteReply, ReplyWritten, CommitReply, ReleasePing, CoreStops,
        CoreStarts, CoreGoes, Tx!ReadSlot
  <2> QED BY <2>1, <2>2 DEF PlacesOK
<1>2. CASE Start \/ Program \/ Quit
  <2>1. core' = core /\ txCPc' = txCPc
    BY <1>2, OthersKeepPlace
    DEF Start, Quit, Program, CheckMagic, NewTxProducer, NewRxConsumer, WaitTxIdle,
        CheckRxIdle, EnoughPosted, ReservePing, FillPing, PingFilled, CommitPing, SeeReply,
        ReadReply, AcceptReply, RejectReply
  <2>2. client'.pc = "check" => rxCPc' = "read"
    <3>1. CASE ReadReply
      BY <3>1 DEF ReadReply, Rx!ReadSlot
    <3>2. CASE Start \/ CommitPing \/ AcceptReply
      <4>1. CASE Start
        BY <4>1 DEF Start
      <4>2. CASE CommitPing
        BY <4>2 DEF CommitPing, ScalarsOK
      <4>3. CASE AcceptReply
        BY <4>3 DEF AcceptReply, ScalarsOK
      <4> QED BY <3>2, <4>1, <4>2, <4>3
    <3>3. ASSUME NEW pc, ClientGoes(pc), pc # "check" PROVE client'.pc # "check"
      BY <3>3, ClientMoves
    <3>4. CASE Quit \/ CheckMagic \/ NewTxProducer \/ NewRxConsumer \/ WaitTxIdle
                 \/ CheckRxIdle \/ EnoughPosted
      <4>1. PICK pc \in {"off", "producer", "consumer", "txIdle", "rxIdle", "post", "take"} :
              ClientGoes(pc)
        BY <3>4
        DEF Quit, CheckMagic, NewTxProducer, NewRxConsumer, WaitTxIdle, CheckRxIdle,
            EnoughPosted
      <4> QED BY <3>3, <4>1
    <3>5. CASE ReservePing \/ FillPing \/ PingFilled \/ SeeReply \/ RejectReply
      <4>1. PICK pc \in {"fill", "failed", "take", "filled", "commit", "read", "post"} :
              ClientGoes(pc)
        BY <3>5 DEF ReservePing, FillPing, PingFilled, SeeReply, RejectReply
      <4> QED BY <3>3, <4>1
    <3> QED BY <1>2, <3>1, <3>2, <3>4, <3>5 DEF Program
  <2> QED BY <2>1, <2>2 DEF PlacesOK
<1> QED BY <1>1, <1>2 DEF Next

(* Nothing moved that the order speaks of.                                  *)
LEMMA OrderKept ==
  ASSUME OrderInv, Pinging, UNCHANGED <<InTx, InRx, Answered>>,
         client'.run = client.run, client'.received = client.received,
         \A k \in 0 .. InTx - 1 : TxP!Item(k)' = TxP!Item(k),
         \A k \in 0 .. InRx - 1 : RxP!Item(k)' = RxP!Item(k),
         PingInHand', ReplyInHand'
  PROVE  OrderInv'
BY DEF OrderInv, RepliesInOrder, PingsInOrder, Msg

(* testDRAMMsg answers the oldest ping, once, behind the earlier replies.   *)
LEMMA FirmwareOrder ==
  ASSUME TxP!TypeInv, RxP!TypeInv, ScalarsOK, RingsInv, CountsInv, PlacesOK, OrderInv,
         Firmware, Pinging
  PROVE  OrderInv'
<1>nat. /\ InTx \in Nat /\ InRx \in Nat
        /\ client.run \in Nat /\ client.sent \in Nat /\ client.received \in Nat
  BY TxFacts, RxFacts, DramMsgAssumption DEF ScalarsOK
<1>up. /\ core \notin {"magicOff", "initTx", "initRx", "magicOn"}
       /\ TxP!SharedInv /\ RxP!SharedInv
  BY DEF CountsInv, RingsInv, Reset, UsesRings, Pinging
<1>ord. RepliesInOrder /\ PingsInOrder /\ PingInHand /\ ReplyInHand
  BY DEF OrderInv
<1>cl. client' = client
  BY DEF Firmware, MagicOff, InitTx, InitRx, MagicOn, NewTxConsumer, NewRxProducer, SeePing,
         FindRoom, ReadPing, WriteReply, ReplyWritten, CommitReply, ReleasePing
<1>inv. /\ HasTxConsumer => TxP!ConsumerInv
        /\ Serving => RxP!ProducerInv
  BY DEF RingsInv
<1> USE DEF CoreGoes
<1>1. CASE NewTxConsumer \/ SeePing \/ ReadPing
  <2>1. /\ Tx!RestartConsumer \/ Tx!Peek \/ Tx!ReadSlot
        /\ core' \in {"producer", "loop", "room", "echo"}
        /\ core \in {"consumer", "loop", "read"} /\ UNCHANGED rx
    BY <1>1 DEF NewTxConsumer, SeePing, ReadPing
  <2>2. /\ InTx' = InTx /\ InRx' = InRx /\ txPItem' = txPItem /\ rxPItem' = rxPItem
        /\ \A k \in 0 .. InTx - 1 : TxP!Item(k)' = TxP!Item(k)
        /\ \A k \in 0 .. InRx - 1 : RxP!Item(k)' = RxP!Item(k)
    BY <2>1, TxItemsStay, RxItemsStay DEF rx, rxPriv
  <2>3. PingInHand' /\ ReplyInHand' /\ Answered' = Answered
    BY <2>1, <2>2, <1>ord, <1>cl DEF PingInHand, ReplyInHand, Answered, Msg
  <2> QED BY <2>2, <2>3, <1>cl, OrderKept
<1>2. CASE NewRxProducer
  <2>1. Rx!RestartProducer /\ core = "producer" /\ core' = "loop" /\ UNCHANGED tx
    BY <1>2 DEF NewRxProducer
  <2>2. /\ InTx' = InTx /\ InRx' = InRx /\ txPItem' = txPItem
        /\ \A k \in 0 .. InTx - 1 : TxP!Item(k)' = TxP!Item(k)
        /\ \A k \in 0 .. InRx - 1 : RxP!Item(k)' = RxP!Item(k)
    BY <2>1, TxItemsStay, RxItemsStay
  <2>3. PingInHand' /\ ReplyInHand' /\ Answered' = Answered
    BY <2>1, <2>2, <1>ord, <1>cl DEF PingInHand, ReplyInHand, Answered, Msg
  <2> QED BY <2>2, <2>3, <1>cl, OrderKept
<1>3. CASE FindRoom \/ WriteReply \/ ReplyWritten
  <2>1. /\ Rx!Reserve \/ Rx!BeginWrite \/ Rx!EndWrite
        /\ core \in {"room", "echo", "written"}
        /\ core' \in {"room", "read", "written", "first"} /\ UNCHANGED tx
    BY <1>3 DEF FindRoom, WriteReply, ReplyWritten
  <2>2. /\ InTx' = InTx /\ txPItem' = txPItem
        /\ \A k \in 0 .. InTx - 1 : TxP!Item(k)' = TxP!Item(k)
    BY <2>1, TxItemsStay
  <2>3. RxP!ProducerInv /\ (RxP!Reserve \/ RxP!BeginWrite \/ RxP!EndWrite)
    BY <2>1, <1>inv, RxSame DEF Serving
  <2>4. InRx' = InRx
    BY <2>3, <1>up, RxAssumptions, RxP!ProducerCall DEF InRx
  <2>5. \A k \in 0 .. InRx - 1 : RxP!Item(k)' = RxP!Item(k)
    BY <2>3, <1>nat, RxAssumptions, RxP!ProducerKeepsItems DEF InRx, RxP!Produce
  <2>6. core' = "written" => rxPItem' = Ack(Msg(client.received + InRx + 1))
    <3>1. SUFFICES ASSUME core' = "written"
                   PROVE  rxPItem' = Ack(Msg(client.received + InRx + 1))
      OBVIOUS
    <3>2. core = "echo" /\ rxPItem' = Reply(txCItem)
      BY <1>3, <3>1 DEF FindRoom, WriteReply, ReplyWritten
    <3>3. txCItem = TxP!Item(0) /\ InTx > 0 /\ Answered = 0
      BY <3>2, <1>inv, TxAssumptions, TxP!ReadsOldest, TxFacts
      DEF PlacesOK, HasTxConsumer, Serving, Answered
    <3>4. TxP!Item(0) = Msg(client.received + InRx - 0 + 1 + 0)
      BY <3>3, <1>nat, <1>ord DEF PingsInOrder
    <3>5. client.received + InRx - 0 + 1 + 0 = client.received + InRx + 1
      BY <1>nat
    <3>6. txCItem = Msg(client.received + InRx + 1) /\ txCItem \in [run : Nat, seq : Nat]
      BY <3>3, <3>4, <3>5, <1>nat DEF Msg
    <3> QED BY <3>2, <3>6, MarkersAssumption DEF Reply
  <2>7. core' = "first" => rxPItem' = rxPItem /\ core = "written"
    BY <1>3 DEF FindRoom, WriteReply, ReplyWritten, Rx!EndWrite
  <2>8. PingInHand' /\ ReplyInHand' /\ Answered' = Answered
    BY <2>1, <2>2, <2>4, <2>6, <2>7, <1>ord, <1>cl
    DEF PingInHand, ReplyInHand, Answered, Msg
  <2> QED BY <2>2, <2>4, <2>5, <2>8, <1>cl, OrderKept
<1>4. CASE CommitReply
  <2>1. Rx!Commit /\ core = "first" /\ core' = "second" /\ UNCHANGED tx
    BY <1>4 DEF CommitReply, ReplyThenRelease
  <2>2. /\ InTx' = InTx /\ txPItem' = txPItem
        /\ \A k \in 0 .. InTx - 1 : TxP!Item(k)' = TxP!Item(k)
    BY <2>1, TxItemsStay
  <2>3. RxP!ProducerInv /\ RxP!Commit
    BY <2>1, <1>inv, RxSame DEF Serving
  <2>4. InRx' = InRx + 1
    BY <2>3, <1>up, RxAssumptions, RxP!CommitCall DEF InRx
  <2>5. \A k \in 0 .. InRx - 1 : RxP!Item(k)' = RxP!Item(k)
    BY <2>3, <1>nat, RxAssumptions, RxP!ProducerKeepsItems DEF InRx, RxP!Produce
  <2>6. \A k \in Nat : k = InRx => RxP!Item(k)' = rxPItem
    BY <2>3, RxAssumptions, RxP!CommitAppends DEF InRx
  <2>7. rxPItem = Ack(Msg(client.received + InRx + 1))
    BY <2>1, <1>ord DEF ReplyInHand
  <2>8. RepliesInOrder'
    <3> SUFFICES ASSUME NEW k \in 0 .. InRx
                 PROVE  RxP!Item(k)' = Ack(Msg(client.received + 1 + k))
      BY <2>4, <1>nat, <1>cl DEF RepliesInOrder, Msg
    <3>1. CASE k \in 0 .. InRx - 1
      BY <3>1, <2>5, <1>ord DEF RepliesInOrder
    <3>2. CASE k = InRx
      <4>1. client.received + 1 + k = client.received + InRx + 1
        BY <3>2, <1>nat
      <4> QED BY <3>2, <4>1, <2>6, <2>7, <1>nat
    <3> QED BY <3>1, <3>2, <1>nat
  <2>9. PingsInOrder'
    <3> SUFFICES ASSUME NEW k \in 0 .. InTx - 1
                 PROVE  TxP!Item(k)' = Msg(client.received + (InRx + 1) - 1 + 1 + k)
      BY <2>1, <2>2, <2>4, <1>cl DEF PingsInOrder, Msg, Answered
    <3>1. TxP!Item(k) = Msg(client.received + InRx - 0 + 1 + k)
      BY <2>1, <1>ord DEF PingsInOrder, Answered
    <3>2. client.received + InRx - 0 + 1 + k = client.received + (InRx + 1) - 1 + 1 + k
      BY <1>nat
    <3> QED BY <3>1, <3>2, <2>2
  <2>10. PingInHand' /\ ReplyInHand'
    BY <2>1, <2>2, <1>ord, <1>cl DEF PingInHand, ReplyInHand, Msg
  <2> QED BY <2>8, <2>9, <2>10 DEF OrderInv
<1>5. CASE ReleasePing
  <2>1. Tx!Release /\ core = "second" /\ core' = "loop" /\ UNCHANGED rx
    BY <1>5 DEF ReleasePing, ReplyThenRelease
  <2>2. /\ InRx' = InRx /\ \A k \in 0 .. InRx - 1 : RxP!Item(k)' = RxP!Item(k)
    BY <2>1, RxItemsStay
  <2>3. TxP!ConsumerInv /\ TxP!Release /\ txPItem' = txPItem
    BY <2>1, <1>inv, TxSame DEF HasTxConsumer, Serving, Tx!Release, Tx!producer
  <2>4. InTx' = InTx - 1
    BY <2>3, <1>up, TxAssumptions, TxP!ReleaseCall DEF InTx
  <2>5. \A k \in Nat : k + 1 < InTx => TxP!Item(k)' = TxP!Item(k + 1)
    BY <2>3, TxAssumptions, TxP!ReleaseShifts DEF InTx
  <2>6. RepliesInOrder'
    BY <2>2, <1>ord, <1>cl DEF RepliesInOrder, Msg
  <2>7. PingsInOrder'
    <3> SUFFICES ASSUME NEW k \in 0 .. (InTx - 1) - 1
                 PROVE  TxP!Item(k)' = Msg(client.received + InRx - 0 + 1 + k)
      BY <2>1, <2>2, <2>4, <1>cl DEF PingsInOrder, Msg, Answered
    <3>1. k \in Nat /\ k + 1 < InTx /\ k + 1 \in 0 .. InTx - 1
      BY <1>nat
    <3>2. TxP!Item(k + 1) = Msg(client.received + InRx - 1 + 1 + (k + 1))
      BY <2>1, <3>1, <1>ord DEF PingsInOrder, Answered
    <3>3. client.received + InRx - 1 + 1 + (k + 1) = client.received + InRx - 0 + 1 + k
      BY <3>1, <1>nat
    <3> QED BY <3>1, <3>2, <3>3, <2>5
  <2>8. PingInHand' /\ ReplyInHand'
    BY <2>1, <2>3, <1>ord, <1>cl DEF PingInHand, ReplyInHand, Msg
  <2> QED BY <2>6, <2>7, <2>8 DEF OrderInv
<1> QED
  BY <1>1, <1>2, <1>3, <1>4, <1>5, <1>up
  DEF Firmware, MagicOff, InitTx, InitRx, MagicOn

(* ping_dram appends the next ping and takes the oldest reply; a new run    *)
(* posts nothing before both rings are empty.                               *)
LEMMA ProgramOrder ==
  ASSUME TxP!TypeInv, RxP!TypeInv, ScalarsOK, RingsInv, CountsInv, PlacesOK, OrderInv,
         Start \/ Program \/ Quit
  PROVE  OrderInv'
<1>nat. /\ InTx \in Nat /\ InRx \in Nat /\ Answered \in {0, 1}
        /\ client.run \in Nat /\ client.sent \in Nat /\ client.received \in Nat
  BY TxFacts, RxFacts, DramMsgAssumption DEF ScalarsOK, Answered
<1>same. core' = core /\ Answered' = Answered
  BY DEF Start, Quit, Program, CheckMagic, NewTxProducer, NewRxConsumer, WaitTxIdle,
         CheckRxIdle, EnoughPosted, ReservePing, FillPing, PingFilled, CommitPing, SeeReply,
         ReadReply, AcceptReply, RejectReply, Answered
<1>far. HasTxProducer => RxP!SharedInv
  BY DEF HasTxProducer, CountsInv, RingsInv, Reset, UsesRings
<1>inv. /\ TxP!SharedInv
        /\ HasTxProducer => TxP!ProducerInv
        /\ HasRxConsumer => RxP!ConsumerInv
  BY DEF RingsInv
<1>ord. Pinging => RepliesInOrder /\ PingsInOrder /\ PingInHand /\ ReplyInHand
  BY DEF OrderInv
<1> USE DEF HasTxProducer, HasRxConsumer
<1>1. CASE Start
  BY <1>1 DEF Start, OrderInv, Pinging
<1>2. CASE Quit \/ CheckMagic \/ NewTxProducer \/ NewRxConsumer \/ WaitTxIdle
  <2>1. PICK pc \in {"off", "producer", "consumer", "txIdle", "rxIdle"} : ClientGoes(pc)
    BY <1>2 DEF Quit, CheckMagic, NewTxProducer, NewRxConsumer, WaitTxIdle
  <2> QED BY <2>1, ClientMoves DEF OrderInv, Pinging
<1>3. CASE CheckRxIdle
  <2>1. /\ Rx!Peek /\ client.pc = "rxIdle" /\ UNCHANGED tx
        /\ ClientGoes("off") \/ (ClientGoes("post") /\ rxCPc' # "peeked")
    BY <1>3 DEF CheckRxIdle, ClientGoes
  <2>2. InTx' = 0 /\ InTx = 0
    BY <2>1, TxKept DEF CountsInv
  <2>3. rxCPc' # "peeked" => InRx = 0
    BY <2>1, <1>far, <1>inv, RxSame, RxAssumptions, RxP!ConsumerCall DEF InRx
  <2>4. InRx' = InRx
    BY <2>1, RxItemsStay
  <2>5. core \notin {"written", "first"}
    BY <2>2, TxFacts DEF ScalarsOK, RingsInv, HasTxConsumer, Serving
  <2>6. CASE ClientGoes("off")
    BY <2>6, ClientMoves DEF OrderInv, Pinging
  <2>7. CASE ClientGoes("post") /\ rxCPc' # "peeked"
    <3>1. client'.pc = "post" /\ InRx' = 0
      BY <2>3, <2>4, <2>7, ClientMoves
    <3> QED
      BY <3>1, <2>2, <2>5, <1>same
      DEF OrderInv, RepliesInOrder, PingsInOrder, PingInHand, ReplyInHand
  <2> QED BY <2>1, <2>6, <2>7
<1>4. CASE EnoughPosted \/ RejectReply \/ SeeReply \/ ReadReply
  <2>1. /\ Rx!Peek \/ Rx!ReadSlot \/ UNCHANGED rx
        /\ UNCHANGED tx /\ Pinging
    BY <1>4 DEF EnoughPosted, RejectReply, SeeReply, ReadReply, Pinging
  <2>2. PICK pc \in {"off", "take", "failed", "read", "post", "check"} : ClientGoes(pc)
    BY <1>4 DEF EnoughPosted, RejectReply, SeeReply, ReadReply
  <2>3. /\ InTx' = InTx /\ InRx' = InRx /\ rxPItem' = rxPItem
        /\ \A k \in 0 .. InTx - 1 : TxP!Item(k)' = TxP!Item(k)
        /\ \A k \in 0 .. InRx - 1 : RxP!Item(k)' = RxP!Item(k)
    BY <2>1, TxItemsStay, RxItemsStay DEF Rx!Peek, Rx!ReadSlot, Rx!producer, rx, rxPriv
  <2>4. /\ client'.pc = pc /\ client'.run = client.run /\ client'.sent = client.sent
        /\ client'.received = client.received
    BY <2>2, ClientMoves
  <2>5. PingInHand' /\ ReplyInHand'
    BY <2>1, <2>3, <2>4, <1>ord, <1>same DEF PingInHand, ReplyInHand, Msg
  <2> QED BY <2>1, <2>3, <2>4, <2>5, <1>same, OrderKept
<1>5. CASE ReservePing \/ FillPing \/ PingFilled
  <2>1. /\ Tx!Reserve \/ Tx!BeginWrite \/ Tx!EndWrite
        /\ UNCHANGED rx /\ Pinging /\ HasTxProducer
    BY <1>5 DEF ReservePing, FillPing, PingFilled, Pinging
  <2>2. PICK pc \in {"fill", "failed", "take", "filled", "commit"} :
          /\ ClientGoes(pc)
          /\ pc \in {"filled", "commit"} => txPItem' = Msg(client.sent + 1)
    <3>1. CASE ReservePing
      BY <3>1 DEF ReservePing
    <3>2. CASE FillPing
      BY <3>2 DEF FillPing, Msg
    <3>3. CASE PingFilled
      BY <3>3, <2>1, <1>ord DEF PingFilled, Tx!EndWrite, PingInHand
    <3> QED BY <1>5, <3>1, <3>2, <3>3
  <2>3. /\ InRx' = InRx /\ rxPItem' = rxPItem
        /\ \A k \in 0 .. InRx - 1 : RxP!Item(k)' = RxP!Item(k)
    BY <2>1, RxItemsStay DEF rx, rxPriv
  <2>4. TxP!ProducerInv /\ (TxP!Reserve \/ TxP!BeginWrite \/ TxP!EndWrite)
    BY <2>1, <1>inv, TxSame
  <2>5. InTx' = InTx
    BY <2>4, <1>inv, TxAssumptions, TxP!ProducerCall DEF InTx
  <2>6. \A k \in 0 .. InTx - 1 : TxP!Item(k)' = TxP!Item(k)
    BY <2>4, <1>nat, TxAssumptions, TxP!ProducerKeepsItems DEF InTx, TxP!Produce
  <2>7. /\ client'.pc = pc /\ client'.run = client.run /\ client'.sent = client.sent
        /\ client'.received = client.received
    BY <2>2, ClientMoves
  <2>8. PingInHand' /\ ReplyInHand'
    BY <2>1, <2>2, <2>3, <2>7, <1>ord, <1>same DEF PingInHand, ReplyInHand, Msg
  <2> QED BY <2>1, <2>3, <2>5, <2>6, <2>7, <2>8, <1>same, OrderKept
<1>6. CASE CommitPing
  <2>1. /\ Tx!Commit /\ client.pc = "commit" /\ UNCHANGED rx /\ Pinging
        /\ client' = [client EXCEPT !.pc = "post", !.sent = @ + 1]
    BY <1>6 DEF CommitPing, Pinging
  <2>2. /\ client'.pc = "post" /\ client'.run = client.run
        /\ client'.received = client.received
    BY <2>1 DEF ScalarsOK
  <2>3. /\ InRx' = InRx /\ rxPItem' = rxPItem
        /\ \A k \in 0 .. InRx - 1 : RxP!Item(k)' = RxP!Item(k)
    BY <2>1, RxItemsStay DEF rx, rxPriv
  <2>4. TxP!ProducerInv /\ TxP!Commit
    BY <2>1, <1>inv, TxSame
  <2>5. InTx' = InTx + 1
    BY <2>4, <1>inv, TxAssumptions, TxP!CommitCall DEF InTx
  <2>6. \A k \in 0 .. InTx - 1 : TxP!Item(k)' = TxP!Item(k)
    BY <2>4, <1>nat, TxAssumptions, TxP!ProducerKeepsItems DEF InTx, TxP!Produce
  <2>7. \A k \in Nat : k = InTx => TxP!Item(k)' = txPItem
    BY <2>4, TxAssumptions, TxP!CommitAppends DEF InTx
  <2>8. /\ txPItem = Msg(client.sent + 1)
        /\ InTx + InRx = client.sent - client.received + Answered
    BY <2>1, <1>ord DEF PingInHand, CountsInv
  <2>9. PingsInOrder'
    <3> SUFFICES ASSUME NEW k \in 0 .. InTx
                 PROVE  TxP!Item(k)' = Msg(client.received + InRx - Answered + 1 + k)
      BY <2>2, <2>3, <2>5, <1>nat, <1>same DEF PingsInOrder, Msg
    <3>1. CASE k \in 0 .. InTx - 1
      BY <3>1, <2>1, <2>6, <1>ord DEF PingsInOrder
    <3>2. CASE k = InTx
      <4>1. client.received + InRx - Answered + 1 + k = client.sent + 1
        BY <3>2, <2>8, <1>nat
      <4> QED BY <3>2, <4>1, <2>7, <2>8, <1>nat
    <3> QED BY <3>1, <3>2, <1>nat
  <2>10. RepliesInOrder' /\ PingInHand' /\ ReplyInHand'
    BY <2>1, <2>2, <2>3, <1>ord, <1>same
    DEF RepliesInOrder, PingInHand, ReplyInHand, Msg
  <2> QED BY <2>9, <2>10 DEF OrderInv
<1>7. CASE AcceptReply
  <2>1. /\ Rx!Release /\ client.pc = "check" /\ UNCHANGED tx /\ Pinging
        /\ client' = [client EXCEPT !.pc = "again", !.received = @ + 1]
    BY <1>7 DEF AcceptReply, Pinging
  <2>2. /\ client'.pc = "again" /\ client'.run = client.run
        /\ client'.received = client.received + 1
    BY <2>1 DEF ScalarsOK
  <2>3. /\ InTx' = InTx /\ \A k \in 0 .. InTx - 1 : TxP!Item(k)' = TxP!Item(k)
    BY <2>1, TxItemsStay
  <2>4. RxP!ConsumerInv /\ RxP!Release /\ rxPItem' = rxPItem
    BY <2>1, <1>inv, RxSame DEF Rx!Release, Rx!producer
  <2>5. InRx' = InRx - 1
    BY <2>1, <2>4, <1>far, RxAssumptions, RxP!ReleaseCall DEF InRx
  <2>6. \A k \in Nat : k + 1 < InRx => RxP!Item(k)' = RxP!Item(k + 1)
    BY <2>4, RxAssumptions, RxP!ReleaseShifts DEF InRx
  <2>7. RepliesInOrder'
    <3> SUFFICES ASSUME NEW k \in 0 .. (InRx - 1) - 1
                 PROVE  RxP!Item(k)' = Ack(Msg((client.received + 1) + 1 + k))
      BY <2>2, <2>5 DEF RepliesInOrder, Msg
    <3>1. k \in Nat /\ k + 1 < InRx /\ k + 1 \in 0 .. InRx - 1
      BY <1>nat
    <3>2. RxP!Item(k + 1) = Ack(Msg(client.received + 1 + (k + 1)))
      BY <2>1, <3>1, <1>ord DEF RepliesInOrder
    <3>3. client.received + 1 + (k + 1) = (client.received + 1) + 1 + k
      BY <3>1, <1>nat
    <3> QED BY <3>1, <3>2, <3>3, <2>6
  <2>8. PingsInOrder'
    <3> SUFFICES ASSUME NEW k \in 0 .. InTx - 1
                 PROVE  TxP!Item(k)'
                          = Msg((client.received + 1) + (InRx - 1) - Answered + 1 + k)
      BY <2>2, <2>3, <2>5, <1>same DEF PingsInOrder, Msg
    <3>1. (client.received + 1) + (InRx - 1) - Answered + 1 + k
            = client.received + InRx - Answered + 1 + k
      BY <1>nat
    <3> QED BY <3>1, <2>1, <2>3, <1>ord DEF PingsInOrder
  <2>9. PingInHand' /\ ReplyInHand'
    <3>1. (client.received + 1) + (InRx - 1) + 1 = client.received + InRx + 1
      BY <1>nat
    <3> QED
      BY <3>1, <2>1, <2>2, <2>4, <2>5, <1>ord, <1>same DEF PingInHand, ReplyInHand, Msg
  <2> QED BY <2>7, <2>8, <2>9 DEF OrderInv
<1> QED
  BY <1>1, <1>2, <1>3, <1>4, <1>5, <1>6, <1>7 DEF Program

LEMMA OrderedInvInit == Init => OrderedInv
<1> SUFFICES ASSUME Init PROVE OrderedInv
  OBVIOUS
<1>1. client.pc = "off" /\ core = "magicOff"
  BY DEF Init
<1> QED BY <1>1 DEF OrderedInv, PlacesOK, OrderInv, Pinging

LEMMA OrderedInvStep == DramInv /\ OrderedInv /\ [Next]_vars => OrderedInv'
<1> SUFFICES ASSUME DramInv, OrderedInv, [Next]_vars PROVE OrderedInv'
  OBVIOUS
<1>1. CASE Next
  <2>1. PlacesOK'
    BY <1>1, PlacesStep DEF DramInv, OrderedInv
  <2>2. ASSUME ~upset' PROVE OrderInv'
    <3>1. CASE Start \/ Program \/ Quit
      <4>1. ~upset
        BY <2>2, <3>1
        DEF Start, Quit, Program, CheckMagic, NewTxProducer, NewRxConsumer, WaitTxIdle,
            CheckRxIdle, EnoughPosted, ReservePing, FillPing, PingFilled, CommitPing,
            SeeReply, ReadReply, AcceptReply, RejectReply
      <4> QED BY <3>1, <4>1, ProgramOrder DEF DramInv, OrderedInv
    <3>2. CASE InitTx
      BY <2>2, <3>2 DEF InitTx, OrderInv, Pinging, UsesRings
    <3>3. CASE Firmware /\ ~InitTx
      <4>1. client' = client /\ ~upset
        BY <2>2, <3>3
        DEF Firmware, MagicOff, InitRx, MagicOn, NewTxConsumer, NewRxProducer, SeePing,
            FindRoom, ReadPing, WriteReply, ReplyWritten, CommitReply, ReleasePing
      <4>2. CASE Pinging
        BY <3>3, <4>1, <4>2, FirmwareOrder DEF DramInv, OrderedInv
      <4>3. CASE ~Pinging
        BY <4>1, <4>3 DEF OrderInv, Pinging
      <4> QED BY <4>2, <4>3
    <3>4. CASE CoreStops \/ CoreStarts
      BY <2>2, <3>4 DEF CoreStops, CoreStarts, DramInv, ScalarsOK
    <3> QED BY <1>1, <3>1, <3>2, <3>3, <3>4 DEF Next
  <2> QED BY <2>1, <2>2 DEF OrderedInv
<1>2. CASE UNCHANGED vars
  <2>1. UNCHANGED <<tx, rx, core, client, upset>>
    BY <1>2 DEF vars
  <2>2. /\ InTx' = InTx /\ InRx' = InRx
        /\ \A k \in 0 .. InTx - 1 : TxP!Item(k)' = TxP!Item(k)
        /\ \A k \in 0 .. InRx - 1 : RxP!Item(k)' = RxP!Item(k)
    BY <2>1, TxItemsStay, RxItemsStay
  <2>3. UNCHANGED <<txPItem, txCPc, rxPItem, rxCPc>>
    BY <2>1 DEF tx, txPriv, rx, rxPriv
  <2>4. PlacesOK' /\ Answered' = Answered /\ (Pinging' <=> Pinging)
    BY <2>1, <2>3 DEF OrderedInv, PlacesOK, Answered, Pinging
  <2>5. ASSUME ~upset, Pinging PROVE OrderInv'
    <3>1. PingInHand' /\ ReplyInHand'
      BY <2>1, <2>2, <2>3, <2>5 DEF OrderedInv, OrderInv, PingInHand, ReplyInHand, Msg
    <3> QED BY <2>1, <2>2, <2>4, <2>5, <3>1, OrderKept DEF OrderedInv
  <2> QED BY <2>1, <2>4, <2>5 DEF OrderedInv, OrderInv
<1> QED BY <1>1, <1>2

(* While a client is at its pings and nobody initialised the rings under    *)
(* it, they hold its messages and nothing else, in the order it sent them:  *)
(* answered ones from the next it expects on, then the unanswered.          *)
THEOREM RingsHoldTheRun == Spec => []OrderedInv
BY DramInvInit, DramInvStep, OrderedInvInit, OrderedInvStep, PTL DEF Spec

-----------------------------------------------------------------------------
(* What ping_dram checks *)

LEMMA CleanStep ==
  ASSUME DramInv, OrderedInv, Next, client.pc # "failed", client'.pc = "failed"
  PROVE  upset
<1> SUFFICES ASSUME ~upset PROVE FALSE
  BY DEF DramInv, ScalarsOK
<1>inv. /\ TxP!TypeInv /\ RxP!TypeInv /\ ScalarsOK /\ RingsInv /\ CountsInv
        /\ OrderInv /\ PlacesOK
  BY DEF DramInv, OrderedInv
<1>1. client' # client
  OBVIOUS
<1>2. ASSUME NEW pc, ClientGoes(pc), pc # "failed" PROVE FALSE
  BY <1>2, <1>inv, ClientMoves
<1>3. CASE Firmware \/ CoreStops \/ CoreStarts
  BY <1>1, <1>3
  DEF Firmware, MagicOff, InitTx, InitRx, MagicOn, NewTxConsumer, NewRxProducer, SeePing,
      FindRoom, ReadPing, WriteReply, ReplyWritten, CommitReply, ReleasePing, CoreStops,
      CoreStarts
<1>4. CASE Start
  BY <1>4 DEF Start
<1>5. CASE CommitPing
  BY <1>5, <1>inv DEF CommitPing, ScalarsOK
<1>6. CASE AcceptReply
  BY <1>6, <1>inv DEF AcceptReply, ScalarsOK
<1>7. CASE Quit \/ CheckMagic \/ NewTxProducer \/ NewRxConsumer \/ WaitTxIdle
  <2>1. PICK pc \in {"off", "producer", "consumer", "txIdle", "rxIdle"} : ClientGoes(pc)
    BY <1>7 DEF Quit, CheckMagic, NewTxProducer, NewRxConsumer, WaitTxIdle
  <2> QED BY <1>2, <2>1
<1>8. CASE CheckRxIdle \/ EnoughPosted \/ FillPing \/ PingFilled \/ ReadReply
  <2>1. PICK pc \in {"off", "post", "take", "filled", "commit", "check"} : ClientGoes(pc)
    BY <1>8 DEF CheckRxIdle, EnoughPosted, FillPing, PingFilled, ReadReply
  <2> QED BY <1>2, <2>1
<1>9. CASE ReservePing
  <2>1. Tx!Reserve /\ client.pc = "post"
    BY <1>9 DEF ReservePing
  <2>2. TxP!ProducerInv'
    BY <2>1, <1>inv, TxSame, TxAssumptions, TxP!ProducerCall DEF RingsInv, HasTxProducer
  <2>3. txPCorrupt' = FALSE
    BY <2>2 DEF TxP!ProducerInv
  <2>4. ClientGoes("fill") \/ ClientGoes("take")
    BY <1>9, <2>3 DEF ReservePing, ClientGoes
  <2> QED BY <1>2, <2>4
<1>10. CASE SeeReply
  <2>1. Rx!Peek /\ client.pc \in {"take", "again"}
    BY <1>10 DEF SeeReply
  <2>2. RxP!SharedInv /\ RxP!ConsumerInv
    BY <2>1, <1>inv
    DEF RingsInv, HasRxConsumer, HasTxProducer, CountsInv, Reset, UsesRings
  <2>3. RxP!ConsumerInv'
    BY <2>1, <2>2, <1>inv, RxSame, RxAssumptions, RxP!ConsumerCall
  <2>4. rxCCorrupt' = FALSE
    BY <2>3 DEF RxP!ConsumerInv
  <2>5. ClientGoes("read") \/ ClientGoes("post")
    BY <1>10, <2>4 DEF SeeReply, ClientGoes
  <2> QED BY <1>2, <2>5
<1>11. CASE RejectReply
  <2>1. client.pc = "check" /\ rxCItem # Expected
    BY <1>11 DEF RejectReply
  <2>2. RxP!ConsumerInv /\ rxCPc = "read"
    BY <2>1, <1>inv DEF RingsInv, HasRxConsumer, HasTxProducer, PlacesOK
  <2>3. rxCItem = RxP!Item(0) /\ InRx > 0 /\ InRx \in Nat
    BY <2>2, <1>inv, RxAssumptions, RxP!ReadsOldest, RxP!FillFacts DEF InRx
  <2>4. RxP!Item(0) = Ack(Msg(client.received + 1 + 0))
    BY <2>1, <2>3, <1>inv DEF OrderInv, Pinging, RepliesInOrder
  <2>5. client.received + 1 + 0 = client.received + 1
    BY <1>inv DEF ScalarsOK
  <2> QED BY <2>1, <2>3, <2>4, <2>5 DEF Expected, Msg
<1> QED
  BY <1>3, <1>4, <1>5, <1>6, <1>7, <1>8, <1>9, <1>10, <1>11 DEF Next, Program

(* ping_dram finds nothing wrong unless the rings were initialised under    *)
(* it, for every ring size, window, number of pings, of runs and of stops.  *)
THEOREM RunsAreClean == Spec => CleanRuns
<1>1. DramInv /\ OrderedInv /\ [Next]_vars =>
        [client.pc # "failed" /\ client'.pc = "failed" => upset]_vars
  BY CleanStep
<1> QED BY <1>1, DramInvariant, RingsHoldTheRun, PTL DEF Spec, CleanRuns
=============================================================================
