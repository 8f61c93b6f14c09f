---------------------------- MODULE Sun55iMsgbox ----------------------------
(***************************************************************************)
(* The Linux message box driver (drivers/mailbox/sun55i-msgbox.c, v3       *)
(* series) for the channels of one route: the transmit path in write-IRQ   *)
(* and in timer mode, the receive interrupt, startup and shutdown.         *)
(*                                                                         *)
(* The mailbox core that calls the driver, the FIFOs with their pending    *)
(* bits, and the remote processor are external: they are modelled as the   *)
(* driver and its KUnit hardware mock use them.  One action is one         *)
(* critical section of mbox->lock, or of the core's chan->lock; a receive  *)
(* drain is one action per register access, because the remote writes the  *)
(* FIFO without the lock.  Messages of a channel are numbered as sent.     *)
(***************************************************************************)
EXTENDS Integers, Sequences, FiniteSets

CONSTANTS Chan,         (* the channels of the route                        *)
          FifoMax,      (* SUN55I_FIFO_MAX                                  *)
          TxDoneModes,  (* "allwinner,tx-done-irq" present or not           *)
          NoChan, NoSub, NoDrain,
          MaxTx,        (* bound: messages a client sends on a channel      *)
          MaxRx,        (* bound: messages the remote sends on a channel    *)
          MaxTimeouts,  (* bound: blocking sends that time out              *)
          MaxBinds      (* bound: times a channel is requested              *)

ASSUME MsgboxAssumption ==
  /\ IsFiniteSet(Chan) /\ NoChan \notin Chan
  /\ FifoMax \in Nat \ {0}
  /\ TxDoneModes \subseteq BOOLEAN
  /\ NoSub \notin [by : {"client", "tick"}, full : BOOLEAN]
  /\ NoDrain \notin [by : {"irq", "start", "stop"}, chan : Chan, n : 0 .. FifoMax,
                     pc : {"read", "ack"}]
  /\ MaxTx \in Nat /\ MaxRx \in Nat /\ MaxTimeouts \in Nat /\ MaxBinds \in Nat

VARIABLES
  txFifo, txPend, txEn,     (* the remote's FIFO, write IRQ status, enable  *)
  rxFifo, rxPend, rxEn,     (* our FIFO, read IRQ status, enable            *)
  held,                     (* tx_held and tx_held_msg                      *)
  txDoneIrq,                (* TX done by write IRQ, else polled            *)
  irqHeld, users, mutex,    (* tx_irq_held, tx_irqs[].users, tx_irq_lock    *)
  ctl,                      (* where startup() or shutdown() is             *)
  queue, active,            (* chan->msg_data, chan->active_req             *)
  sub,                      (* the send_data() that holds chan->lock        *)
  cl,                       (* the client's thread in the core              *)
  tick,                     (* the TX-done handler or poll timer, per chan  *)
  drain,                    (* the rx_drain() that holds mbox->lock         *)
  rxPc, rxTodo, rxBuf,      (* the receive handler and its msgs[][]         *)
  txSent, txGot, base,      (* last sent, last read by the remote, last     *)
                            (* sent before the channel was requested        *)
  rxSent, rxGot,            (* last sent by the remote, last delivered      *)
  timeouts, binds,
  lapsed                    (* history: blocking sends that gave up since   *)
                            (* the poll timer's visit to the channel began  *)

txHw    == <<txFifo, txPend, txEn>>
rxHw    == <<rxFifo, rxPend, rxEn>>
line    == <<txDoneIrq, irqHeld, users, mutex>>
txCore  == <<queue, active, sub, cl, tick>>
rxIrq   == <<rxPc, rxTodo, rxBuf>>
rxSide  == <<rxHw, rxIrq, drain>>
counts  == <<txSent, txGot, base, rxSent, rxGot, timeouts, binds>>
ghosts  == <<counts, lapsed>>
vars    == <<txHw, rxSide, held, line, ctl, txCore, ghosts>>

None     == 0                          (* no message: they count from 1     *)
LockFree == drain = NoDrain            (* mbox->lock, between two actions   *)
ChanLockFree(c) == sub[c] = NoSub      (* chan->lock of the core            *)

(* probe(): every write IRQ disarmed, every read IRQ disabled and cleared.   *)
Init ==
  /\ txFifo = [c \in Chan |-> <<>>] /\ txPend = [c \in Chan |-> TRUE]
  /\ rxFifo = [c \in Chan |-> <<>>] /\ rxPend = [c \in Chan |-> FALSE]
  /\ txEn = [c \in Chan |-> FALSE] /\ rxEn = [c \in Chan |-> FALSE]
  /\ held = [c \in Chan |-> None]
  /\ txDoneIrq \in TxDoneModes
  /\ irqHeld = [c \in Chan |-> FALSE] /\ users = 0 /\ mutex = NoChan
  /\ ctl = [c \in Chan |-> "down"]
  /\ queue = [c \in Chan |-> <<>>] /\ active = [c \in Chan |-> None]
  /\ sub = [c \in Chan |-> NoSub]
  /\ cl = [c \in Chan |-> "idle"] /\ tick = [c \in Chan |-> "none"]
  /\ drain = NoDrain
  /\ rxPc = "idle" /\ rxTodo = {} /\ rxBuf = [c \in Chan |-> <<>>]
  /\ txSent = [c \in Chan |-> 0] /\ txGot = [c \in Chan |-> 0]
  /\ base = [c \in Chan |-> 0]
  /\ rxSent = [c \in Chan |-> 0] /\ rxGot = [c \in Chan |-> 0]
  /\ timeouts = 0 /\ binds = [c \in Chan |-> 0] /\ lapsed = [c \in Chan |-> 0]

-----------------------------------------------------------------------------
(* Sending: the client, the mailbox core and send_data() *)

(* mbox_send_message(): the request is queued, then submitted. *)
SendMessage(c) ==
  /\ ctl[c] = "up" /\ cl[c] = "idle" /\ ChanLockFree(c)
  /\ txSent[c] < MaxTx
  /\ txSent' = [txSent EXCEPT ![c] = @ + 1]
  /\ queue' = [queue EXCEPT ![c] = Append(@, txSent[c] + 1)]
  /\ cl' = [cl EXCEPT ![c] = "submit"]
  /\ UNCHANGED <<txHw, rxSide, held, line, ctl, active, sub, tick,
                 txGot, base, rxSent, rxGot, timeouts, binds, lapsed>>

(* A thread is in the core's msg_submit() for a channel. *)
Submitting(c, by) ==
  IF by = "client" THEN cl[c] = "submit" ELSE tick[c] = "submit"

Return(c, by) ==
  /\ cl' = IF by = "client" THEN [cl EXCEPT ![c] = "idle"] ELSE cl
  /\ tick' = IF by = "tick" THEN [tick EXCEPT ![c] = "none"] ELSE tick

CanSubmit(c) == queue[c] # <<>> /\ active[c] = None

NothingToSubmit(c, by) ==
  /\ Submitting(c, by) /\ ChanLockFree(c) /\ ~CanSubmit(c)
  /\ Return(c, by)
  /\ UNCHANGED <<txHw, rxSide, held, line, ctl, queue, active, sub, ghosts>>

(* tx_count() >= SUN55I_FIFO_MAX *)
FullLate(c) == Len(txFifo[c]) > FifoMax                         \* mutant
Full(c) == Len(txFifo[c]) >= FifoMax

(* The core takes a request off its queue when send_data() returned 0. *)
Accept(c) ==
  /\ active' = [active EXCEPT ![c] = Head(queue[c])]
  /\ queue' = [queue EXCEPT ![c] = Tail(@)]

(* What send_data() keeps for last_tx_done(): an older held message goes.   *)
StaleHeldKept(c) == IF Full(c) /\ ~txDoneIrq THEN Head(queue[c]) ELSE held[c] \* mutant
HeldAfterSend(c) == IF Full(c) /\ ~txDoneIrq THEN Head(queue[c]) ELSE None

(* return full ? -EBUSY : 0 *)
NeverRefused(c) == FALSE                                        \* mutant
Refused(c) == Full(c)

(* send_data() up to its unlock, called by msg_submit() under chan->lock.   *)
SendData(c, by) ==
  /\ Submitting(c, by) /\ ChanLockFree(c) /\ CanSubmit(c) /\ LockFree
  /\ held' = [held EXCEPT ![c] = HeldAfterSend(c)]
  /\ txFifo' = IF Full(c) THEN txFifo
               ELSE [txFifo EXCEPT ![c] = Append(@, Head(queue[c]))]
  /\ IF txDoneIrq
     THEN /\ sub' = [sub EXCEPT ![c] = [by |-> by, full |-> Refused(c)]]
          /\ UNCHANGED <<queue, active, cl, tick>>
     ELSE Accept(c) /\ Return(c, by) /\ UNCHANGED sub
  /\ UNCHANGED <<txPend, txEn, rxSide, line, ctl, ghosts>>

(* tx_irq_enable(true): the stale status is cleared before the enable.  A   *)
(* clear only takes while no slot is free.                                  *)
ArmedStatus(c) == txPend[c] /\ ~Full(c)

ArmedEnable(c) == TRUE

(* The rest of send_data() in write IRQ mode: arm, then 0 or -EBUSY.         *)
SendDataArm(c) ==
  /\ ~ChanLockFree(c) /\ LockFree
  /\ txPend' = [txPend EXCEPT ![c] = ArmedStatus(c)]
  /\ txEn' = [txEn EXCEPT ![c] = ArmedEnable(c)]
  /\ IF sub[c].full THEN UNCHANGED <<queue, active>> ELSE Accept(c)
  /\ sub' = [sub EXCEPT ![c] = NoSub]
  /\ Return(c, sub[c].by)
  /\ UNCHANGED <<txFifo, rxSide, held, line, ctl, ghosts>>

(* A blocking send gives up: the core's tx_tick(-ETIME). *)
Timeout(c) ==
  /\ ctl[c] = "up" /\ cl[c] = "idle" /\ txSent[c] > base[c]
  /\ timeouts < MaxTimeouts
  /\ timeouts' = timeouts + 1
  /\ cl' = [cl EXCEPT ![c] = "etime"]
  /\ UNCHANGED <<txHw, rxSide, held, line, ctl, queue, active, sub, tick,
                 txSent, txGot, base, rxSent, rxGot, binds, lapsed>>

TimeoutTick(c) ==
  /\ cl[c] = "etime" /\ ChanLockFree(c)
  /\ active' = [active EXCEPT ![c] = None]
  /\ cl' = [cl EXCEPT ![c] = "submit"]
  /\ lapsed' = [lapsed EXCEPT ![c] = @ + 1]
  /\ UNCHANGED <<txHw, rxSide, held, line, ctl, queue, sub, tick, counts>>

(* The remote takes a message: a slot is free, which raises the write IRQ.   *)
RemoteRead(c) ==
  /\ txFifo[c] # <<>>
  /\ txGot' = [txGot EXCEPT ![c] = Head(txFifo[c])]
  /\ txFifo' = [txFifo EXCEPT ![c] = Tail(@)]
  /\ txPend' = [txPend EXCEPT ![c] = TRUE]
  /\ UNCHANGED <<txEn, rxSide, held, line, ctl, txCore,
                 txSent, base, rxSent, rxGot, timeouts, binds, lapsed>>

-----------------------------------------------------------------------------
(* TX done: the write IRQ or the poll timer *)

TxHandlerIdle == \A c \in Chan : tick[c] = "none"

TxAsserted == {c \in Chan : txEn[c] /\ txPend[c]}

(* tx_irq() under the lock: every asserted channel is masked, then acked.   *)
TxIrq ==
  /\ txDoneIrq /\ users > 0 /\ TxHandlerIdle /\ LockFree
  /\ TxAsserted # {}
  /\ txEn' = [c \in Chan |-> txEn[c] /\ c \notin TxAsserted]
  /\ txPend' = [c \in Chan |-> IF c \in TxAsserted THEN ArmedStatus(c) ELSE txPend[c]]
  /\ tick' = [c \in Chan |-> IF c \in TxAsserted THEN "clear" ELSE "none"]
  /\ UNCHANGED <<txFifo, rxSide, held, line, ctl, queue, active, sub, cl, ghosts>>

(* The poll timer visits the channels one by one: it sees a request active  *)
(* before it calls last_tx_done(), without chan->lock.                      *)
TimerCheck(c) ==
  /\ ~txDoneIrq /\ TxHandlerIdle
  /\ active[c] # None /\ ctl[c] # "down"
  /\ tick' = [tick EXCEPT ![c] = "poll"]
  /\ lapsed' = [lapsed EXCEPT ![c] = 0]
  /\ UNCHANGED <<txHw, rxSide, held, line, ctl, queue, active, sub, cl, counts>>

HeldNeverWritten(c) == FALSE                                    \* mutant
WritesHeld(c) == ~Full(c) /\ held[c] # None

PollDone(count) == count < FifoMax

(* last_tx_done(): writes a held message as soon as there is room.          *)
LastTxDone(c) ==
  LET write == WritesHeld(c)
      count == Len(txFifo[c]) + (IF write THEN 1 ELSE 0)
  IN /\ tick[c] = "poll" /\ LockFree
     /\ txFifo' = IF write THEN [txFifo EXCEPT ![c] = Append(@, held[c])] ELSE txFifo
     /\ held' = IF write THEN [held EXCEPT ![c] = None] ELSE held
     /\ tick' = [tick EXCEPT ![c] = IF PollDone(count) THEN "clear" ELSE "none"]
     /\ UNCHANGED <<txPend, txEn, rxSide, line, ctl, queue, active, sub, cl, ghosts>>

(* mbox_chan_txdone(chan, 0), tx_tick(): the active request is done, then   *)
(* the next one is submitted.  One channel after the other.                 *)
TickClear(c) ==
  /\ tick[c] = "clear" /\ ChanLockFree(c)
  /\ \A d \in Chan : tick[d] # "submit"
  /\ active' = [active EXCEPT ![c] = None]
  /\ tick' = [tick EXCEPT ![c] = "submit"]
  /\ UNCHANGED <<txHw, rxSide, held, line, ctl, queue, sub, cl, ghosts>>

-----------------------------------------------------------------------------
(* Receiving *)

(* The remote writes a message: the read pending bit follows the FIFO.      *)
RemoteSend(c) ==
  /\ Len(rxFifo[c]) < FifoMax /\ rxSent[c] < MaxRx
  /\ rxSent' = [rxSent EXCEPT ![c] = @ + 1]
  /\ rxFifo' = [rxFifo EXCEPT ![c] = Append(@, rxSent[c] + 1)]
  /\ rxPend' = [rxPend EXCEPT ![c] = TRUE]
  /\ UNCHANGED <<txHw, rxEn, rxIrq, drain, held, line, ctl, txCore,
                 txSent, txGot, base, rxGot, timeouts, binds, lapsed>>

DrainOf(by, c) == [by |-> by, chan |-> c, n |-> 0, pc |-> "read"]

(* irq(): takes the lock and looks which enabled channels are pending.      *)
RxIrq ==
  LET pending == {c \in Chan : rxEn[c] /\ rxPend[c]}
  IN /\ rxPc = "idle" /\ LockFree
     /\ \E c \in pending :
          /\ drain' = DrainOf("irq", c)
          /\ rxTodo' = pending \ {c}
     /\ rxPc' = "drain"
     /\ UNCHANGED <<txHw, rxHw, rxBuf, held, line, ctl, txCore, ghosts>>

(* rx_drain(): one message, unless the FIFO is empty or FIFO_MAX were read. *)
DrainRead ==
  /\ ~LockFree /\ drain.pc = "read"
  /\ LET c == drain.chan
     IN IF drain.n < FifoMax /\ rxFifo[c] # <<>>
        THEN /\ rxFifo' = [rxFifo EXCEPT ![c] = Tail(@)]
             /\ rxBuf' = IF drain.by = "irq"
                         THEN [rxBuf EXCEPT ![c] = Append(@, Head(rxFifo[c]))]
                         ELSE rxBuf
             /\ drain' = [drain EXCEPT !.n = @ + 1]
        ELSE /\ drain' = [drain EXCEPT !.pc = "ack"]
             /\ UNCHANGED <<rxFifo, rxBuf>>
  /\ UNCHANGED <<txHw, rxPend, rxEn, rxPc, rxTodo, held, line, ctl, txCore, ghosts>>

(* The clear of the pending bit: ignored while a message is waiting.        *)
AckedStatus(c) == rxPend[c] /\ rxFifo[c] # <<>>

(* startup() sets its channel's enable bit before it unlocks.               *)
EnableAfterDrain ==
  IF drain.by = "start" THEN [rxEn EXCEPT ![drain.chan] = TRUE] ELSE rxEn

(* The end of rx_drain() and what its caller does before it unlocks.        *)
DrainAck ==
  /\ ~LockFree /\ drain.pc = "ack"
  /\ LET c == drain.chan
     IN /\ rxPend' = [rxPend EXCEPT ![c] = AckedStatus(c)]
        /\ rxEn' = EnableAfterDrain
        /\ IF drain.by = "irq"
           THEN /\ IF rxTodo = {}
                   THEN /\ drain' = NoDrain /\ rxPc' = "deliver"
                        /\ UNCHANGED rxTodo
                   ELSE \E d \in rxTodo :
                          /\ drain' = DrainOf("irq", d)
                          /\ rxTodo' = rxTodo \ {d} /\ UNCHANGED rxPc
                /\ UNCHANGED ctl
           ELSE /\ drain' = NoDrain
                /\ ctl' = [ctl EXCEPT ![c] = IF drain.by = "start" THEN "up" ELSE "free"]
                /\ UNCHANGED <<rxPc, rxTodo>>
  /\ UNCHANGED <<txHw, rxFifo, rxBuf, held, line, txCore, ghosts>>

(* mbox_chan_received_data(), outside the lock.                             *)
RxDeliver(c) ==
  /\ rxPc = "deliver" /\ rxBuf[c] # <<>>
  /\ rxGot' = [rxGot EXCEPT ![c] = Head(rxBuf[c])]
  /\ rxBuf' = [rxBuf EXCEPT ![c] = Tail(@)]
  /\ UNCHANGED <<txHw, rxHw, rxPc, rxTodo, drain, held, line, ctl, txCore,
                 txSent, txGot, base, rxSent, timeouts, binds, lapsed>>

RxReturn ==
  /\ rxPc = "deliver" /\ \A c \in Chan : rxBuf[c] = <<>>
  /\ rxPc' = "idle"
  /\ UNCHANGED <<txHw, rxHw, rxTodo, rxBuf, drain, held, line, ctl, txCore, ghosts>>

-----------------------------------------------------------------------------
(* startup() and shutdown(), and the core's channel request and free *)

(* mbox_request_channel(): an empty queue, under chan->lock, then startup(). *)
Request(c) ==
  /\ ctl[c] = "down" /\ ChanLockFree(c) /\ binds[c] < MaxBinds
  /\ binds' = [binds EXCEPT ![c] = @ + 1]
  /\ base' = [base EXCEPT ![c] = txSent[c]]
  /\ queue' = [queue EXCEPT ![c] = <<>>]
  /\ active' = [active EXCEPT ![c] = None]
  /\ ctl' = [ctl EXCEPT ![c] = IF txDoneIrq THEN "get" ELSE "drain"]
  /\ UNCHANGED <<txHw, rxSide, held, line, sub, cl, tick,
                 txSent, txGot, rxSent, rxGot, timeouts, lapsed>>

(* tx_irq_get(): request_irq() for the first user may fail; the core then   *)
(* frees the channel.                                                       *)
TxIrqGet(c) ==
  /\ ctl[c] = "get" /\ mutex = NoChan
  /\ \/ /\ users' = users + 1
        /\ irqHeld' = [irqHeld EXCEPT ![c] = TRUE]
        /\ ctl' = [ctl EXCEPT ![c] = "drain"]
     \/ /\ users = 0
        /\ ctl' = [ctl EXCEPT ![c] = "failed"]
        /\ UNCHANGED <<users, irqHeld>>
  /\ UNCHANGED <<txHw, rxSide, held, txDoneIrq, mutex, txCore, ghosts>>

(* Drop stale receive data; DrainAck enables the receive IRQ (startup) or   *)
(* ends shutdown().                                                         *)
DropStale(c) ==
  /\ LockFree
  /\ \/ ctl[c] = "drain" /\ drain' = DrainOf("start", c)
     \/ ctl[c] = "last"  /\ drain' = DrainOf("stop", c)
  /\ ctl' = [ctl EXCEPT ![c] = IF @ = "drain" THEN "starting" ELSE "stopping"]
  /\ UNCHANGED <<txHw, rxHw, rxIrq, held, line, txCore, ghosts>>

(* mbox_free_channel(), shutdown(): no client call is running. *)
Shutdown(c) ==
  /\ ctl[c] \in {"up", "failed"} /\ cl[c] = "idle" /\ LockFree
  /\ rxEn' = [rxEn EXCEPT ![c] = FALSE]
  /\ held' = [held EXCEPT ![c] = None]
  /\ ctl' = [ctl EXCEPT ![c] = "sync"]
  /\ UNCHANGED <<txHw, rxFifo, rxPend, rxIrq, drain, line, txCore, ghosts>>

NoRxSync == TRUE                                                \* mutant
RxHandlerDone == rxPc = "idle"

PutsRegardless(c) == IF txDoneIrq THEN "disarm" ELSE "last"     \* mutant
AfterSync(c) == IF irqHeld[c] THEN "disarm" ELSE "last"

(* synchronize_irq() on the receive line, then test_and_clear of irqHeld.   *)
SyncRx(c) ==
  /\ ctl[c] = "sync" /\ RxHandlerDone
  /\ irqHeld' = [irqHeld EXCEPT ![c] = FALSE]
  /\ ctl' = [ctl EXCEPT ![c] = AfterSync(c)]
  /\ UNCHANGED <<txHw, rxSide, held, txDoneIrq, users, mutex, txCore, ghosts>>

(* tx_irq_enable(false), before and after tx_irq_put(). *)
Disarm(c) ==
  /\ ctl[c] \in {"disarm", "disarm again"} /\ LockFree
  /\ txEn' = [txEn EXCEPT ![c] = FALSE]
  /\ ctl' = [ctl EXCEPT ![c] = IF @ = "disarm" THEN "put" ELSE "last"]
  /\ UNCHANGED <<txFifo, txPend, rxSide, held, line, txCore, ghosts>>

(* tx_irq_put(): the count goes down; at zero the line has no handler.      *)
TxIrqPut(c) ==
  /\ ctl[c] = "put" /\ mutex = NoChan
  /\ mutex' = c /\ users' = users - 1
  /\ ctl' = [ctl EXCEPT ![c] = "wait"]
  /\ UNCHANGED <<txHw, rxSide, held, txDoneIrq, irqHeld, txCore, ghosts>>

DisarmedOnce == "last"                                          \* mutant
AfterPut == "disarm again"

NotUnlockedIfShared(c) == IF users = 0 THEN NoChan ELSE c       \* mutant
MutexAfterPut(c) == NoChan

(* free_irq() and synchronize_irq() both wait for a running handler.        *)
TxIrqPutDone(c) ==
  /\ ctl[c] = "wait" /\ TxHandlerIdle
  /\ mutex' = MutexAfterPut(c)
  /\ ctl' = [ctl EXCEPT ![c] = AfterPut]
  /\ UNCHANGED <<txHw, rxSide, held, txDoneIrq, users, irqHeld, txCore, ghosts>>

(* The core forgets the client.  Requests still queued are aborted.  (The   *)
(* core does not wait for its poll timer here; freeing a channel in the     *)
(* middle of a timer tick is left out.)                                     *)
Free(c) ==
  /\ ctl[c] = "free" /\ ChanLockFree(c)
  /\ txDoneIrq \/ tick[c] = "none"
  /\ active' = [active EXCEPT ![c] = None]
  /\ ctl' = [ctl EXCEPT ![c] = "down"]
  /\ UNCHANGED <<txHw, rxSide, held, line, queue, sub, cl, tick, ghosts>>

-----------------------------------------------------------------------------
Submit(c, by) == NothingToSubmit(c, by) \/ SendData(c, by)

Sending(c) ==
  \/ SendMessage(c) \/ Submit(c, "client") \/ SendDataArm(c)
  \/ Timeout(c) \/ TimeoutTick(c) \/ RemoteRead(c)

TxDone(c) == TimerCheck(c) \/ LastTxDone(c) \/ TickClear(c) \/ Submit(c, "tick")

Control(c) ==
  \/ TxIrqGet(c) \/ DropStale(c) \/ SyncRx(c) \/ Disarm(c)
  \/ TxIrqPut(c) \/ TxIrqPutDone(c) \/ Free(c)

RxHandler == RxIrq \/ DrainRead \/ DrainAck \/ RxReturn

Next ==
  \/ RxHandler \/ TxIrq
  \/ \E c \in Chan :
       \/ Sending(c) \/ TxDone(c) \/ RemoteSend(c) \/ RxDeliver(c)
       \/ Request(c) \/ Shutdown(c) \/ Control(c)

Spec == Init /\ [][Next]_vars

(* Threads that hold or wait for a lock run on; an asserted line is served; *)
(* the poll timer fires again while a request is active and visits every    *)
(* channel; the remote keeps reading.  Clients need not do anything.        *)
FairSpec ==
  /\ Spec
  /\ WF_vars(RxHandler) /\ WF_vars(TxIrq)
  /\ \A c \in Chan :
       /\ WF_vars(RxDeliver(c)) /\ WF_vars(Control(c))
       /\ WF_vars(Submit(c, "client")) /\ WF_vars(Submit(c, "tick"))
       /\ WF_vars(SendDataArm(c)) /\ WF_vars(TimeoutTick(c))
       /\ SF_vars(TimerCheck(c)) /\ WF_vars(LastTxDone(c)) /\ WF_vars(TickClear(c))
       /\ WF_vars(RemoteRead(c))

-----------------------------------------------------------------------------
Elements(s) == {s[i] : i \in 1 .. Len(s)}

(* Types; no FIFO ever holds more than it can ("writing a full FIFO         *)
(* corrupts its count, so never do it").                                    *)
TypeOK ==
  /\ txFifo \in [Chan -> Seq(1 .. MaxTx)] /\ rxFifo \in [Chan -> Seq(1 .. MaxRx)]
  /\ \A c \in Chan : Len(txFifo[c]) <= FifoMax /\ Len(rxFifo[c]) <= FifoMax
  /\ txPend \in [Chan -> BOOLEAN] /\ txEn \in [Chan -> BOOLEAN]
  /\ rxPend \in [Chan -> BOOLEAN] /\ rxEn \in [Chan -> BOOLEAN]
  /\ held \in [Chan -> 0 .. MaxTx] /\ active \in [Chan -> 0 .. MaxTx]
  /\ queue \in [Chan -> Seq(1 .. MaxTx)]
  /\ txDoneIrq \in BOOLEAN
  /\ irqHeld \in [Chan -> BOOLEAN] /\ users \in Nat /\ mutex \in Chan \cup {NoChan}
  /\ ctl \in [Chan -> {"down", "get", "drain", "starting", "up", "failed", "sync", "disarm",
                       "put", "wait", "disarm again", "last", "stopping", "free"}]
  /\ sub \in [Chan -> {NoSub} \cup [by : {"client", "tick"}, full : BOOLEAN]]
  /\ cl \in [Chan -> {"idle", "submit", "etime"}]
  /\ tick \in [Chan -> {"none", "poll", "clear", "submit"}]
  /\ \/ drain = NoDrain
     \/ drain \in [by : {"irq", "start", "stop"}, chan : Chan, n : 0 .. FifoMax,
                   pc : {"read", "ack"}]
  /\ rxPc \in {"idle", "drain", "deliver"} /\ rxTodo \subseteq Chan
  /\ rxBuf \in [Chan -> Seq(1 .. MaxRx)]
  /\ \A c \in Chan : Len(rxBuf[c]) <= FifoMax
  /\ txSent \in [Chan -> 0 .. MaxTx] /\ txGot \in [Chan -> 0 .. MaxTx]
  /\ base \in [Chan -> 0 .. MaxTx]
  /\ rxSent \in [Chan -> 0 .. MaxRx] /\ rxGot \in [Chan -> 0 .. MaxRx]
  /\ timeouts \in 0 .. MaxTimeouts /\ binds \in [Chan -> 0 .. MaxBinds]
  /\ lapsed \in [Chan -> Nat]

(* The messages the driver may still write or the remote still read, in the *)
(* order in which that will happen.                                         *)
Pending(c) ==
  txFifo[c]
  \o (IF held[c] # None /\ held[c] = active[c] THEN <<held[c]>> ELSE <<>>)
  \o (IF sub[c] # NoSub /\ ~sub[c].full THEN Tail(queue[c]) ELSE queue[c])

(* The remote reads a channel's messages in the order they were sent, each  *)
(* at most once: a message resent after -EBUSY was not written before, and  *)
(* one held for a full FIFO and given up never follows a newer one.         *)
SentInOrder ==
  \A c \in Chan :
    LET seq == <<txGot[c]>> \o Pending(c)
    IN \A i \in 1 .. Len(seq) - 1 : seq[i] < seq[i + 1]

(* While a channel is up and no send timed out, no message is lost: each    *)
(* was read by the remote, or is in the FIFO, held, or queued in the core.  *)
NoneLost ==
  \A c \in Chan : ctl[c] = "up" /\ timeouts = 0 =>
    \A m \in base[c] + 1 .. txSent[c] : m <= txGot[c] \/ m \in Elements(Pending(c))

(* The newest message the remote's FIFO took. *)
Newest(c) == IF txFifo[c] = <<>> THEN txGot[c] ELSE txFifo[c][Len(txFifo[c])]

(* The core ends the active request of a channel in use as sent.            *)
ReportsDone(c) ==
  tick[c] = "clear" /\ tick'[c] = "submit" /\ active[c] # None /\ ctl[c] = "up"

(* A request of a channel in use is reported done only once the receiver's  *)
(* FIFO took its message: neither one refused with -EBUSY nor one that      *)
(* send_data() holds counts as sent.  The poll timer acts on an older look  *)
(* at the FIFO, which one blocking send that gives up during its visit does *)
(* not make wrong, but two do (DoneIsAlwaysAccepted).                       *)
DoneIsAccepted ==
  [][\A c \in Chan : ReportsDone(c) /\ (txDoneIrq \/ lapsed[c] < 2) =>
       active[c] = Newest(c)]_vars

(* The comments of the driver promise it without that limit, and that the   *)
(* FIFO has room for the next message when a request is reported done.      *)
DoneIsAlwaysAccepted ==
  [][\A c \in Chan : ReportsDone(c) => active[c] = Newest(c)]_vars

DoneHasRoom ==
  [][\A c \in Chan : ReportsDone(c) => ~Full(c)]_vars

SentOnceInOrder == SentInOrder /\ NoneLost

(* The TX-done line is requested exactly while a started channel needs it:  *)
(* users counts the channels between tx_irq_get() and tx_irq_put(), failed  *)
(* startups left out.                                                       *)
UsersAreStarted ==
  /\ users = Cardinality({c \in Chan : irqHeld[c] \/ ctl[c] \in {"disarm", "put"}})
  /\ \A c \in Chan : txDoneIrq /\ ctl[c] = "up" => irqHeld[c]

(* After shutdown() nobody works for the channel any more: no IRQ is armed, *)
(* no handler is about to deliver to it or to submit its queue.             *)
QuietAfterShutdown ==
  \A c \in Chan : txDoneIrq /\ ctl[c] \in {"free", "down"} =>
    /\ ~txEn[c] /\ ~rxEn[c] /\ tick[c] = "none" /\ sub[c] = NoSub
    /\ rxBuf[c] = <<>> /\ c \notin rxTodo

(* A receive callback has a client to call: the channel is not freed while  *)
(* the handler still has messages for it.                                   *)
DeliversToClient ==
  \A c \in Chan : rxBuf[c] # <<>> \/ c \in rxTodo => ctl[c] \in {"up", "sync"}

(* Outside the lock the read pending bit says exactly whether a message     *)
(* waits: none is forgotten, no interrupt is raised for nothing.            *)
PendingMeansMessage ==
  LockFree => \A c \in Chan : rxPend[c] <=> rxFifo[c] # <<>>

RxConsistent == DeliversToClient /\ PendingMeansMessage

(* The newest message of a channel in use is read in the end, if the remote *)
(* keeps reading and no blocking send gave up: a client sends finitely many, *)
(* so the queue empties once it pauses.                                     *)
TxProgress ==
  \A c \in Chan :
    ctl[c] = "up" ~> (txGot[c] = txSent[c] \/ txSent[c] = base[c]
                       \/ ctl[c] # "up" \/ timeouts > 0)

(* A message that arrives while the channel is up reaches the client.       *)
RxProgress ==
  \A c \in Chan, m \in 1 .. MaxRx :
    (ctl[c] = "up" /\ m \in Elements(rxFifo[c])) ~> (rxGot[c] = m \/ ctl[c] # "up")

(* shutdown() ends: it waits for both handlers and for tx_irq_lock, held by *)
(* another channel's shutdown() that waits for the same handler.            *)
ShutdownEnds == \A c \in Chan : (ctl[c] = "sync") ~> (ctl[c] = "down")

(* Two channels on one line: both directions of control come to an end.     *)
ChannelProgress == ShutdownEnds /\ RxProgress
=============================================================================
