------------------------- MODULE Sun55iMsgboxProofs -------------------------
(***************************************************************************)
(* Proofs about Sun55iMsgbox for any number of channels, FIFO depth,       *)
(* messages, timeouts and requests of a channel.                           *)
(*                                                                         *)
(* SubInv ties a send_data() in progress to the thread that runs it; RxInv *)
(* says what the receive handler has in hand and whose channels it serves; *)
(* LineInv counts the users of the TX-done line.  OrderInv orders what the *)
(* FIFO, the held message and the queue contain, and LossInv says where a  *)
(* message is that was not read yet.  TimerInv and LapseInv follow the     *)
(* poll timer and the sends that gave up beside it, AcceptInv says which   *)
(* message the FIFO took last.  LoneInv is about a channel that has its    *)
(* line for itself.                                                        *)
(***************************************************************************)
EXTENDS Sun55iMsgbox, FiniteSetTheorems, SequenceTheorems, TLAPS

(* The type invariant in parts.                                            *)
DrainRec == [by : {"irq", "start", "stop"}, chan : Chan, n : 0 .. FifoMax,
             pc : {"read", "ack"}]
SubRec   == [by : {"client", "tick"}, full : BOOLEAN]
CtlPcs   == {"down", "get", "drain", "starting", "up", "failed", "sync", "disarm",
             "put", "wait", "disarm again", "last", "stopping", "free"}

TypeTx ==
  /\ txFifo \in [Chan -> Seq(1 .. MaxTx)] /\ \A c \in Chan : Len(txFifo[c]) <= FifoMax
  /\ held \in [Chan -> 0 .. MaxTx] /\ active \in [Chan -> 0 .. MaxTx]
  /\ queue \in [Chan -> Seq(1 .. MaxTx)]
  /\ txSent \in [Chan -> 0 .. MaxTx] /\ txGot \in [Chan -> 0 .. MaxTx]
  /\ base \in [Chan -> 0 .. MaxTx]
TypeBits ==
  /\ txPend \in [Chan -> BOOLEAN] /\ txEn \in [Chan -> BOOLEAN]
  /\ rxPend \in [Chan -> BOOLEAN] /\ rxEn \in [Chan -> BOOLEAN]
TypePc ==
  /\ ctl \in [Chan -> CtlPcs] /\ sub \in [Chan -> {NoSub} \cup SubRec]
  /\ cl \in [Chan -> {"idle", "submit", "etime"}]
  /\ tick \in [Chan -> {"none", "poll", "clear", "submit"}]
  /\ lapsed \in [Chan -> Nat]
TypeLine ==
  /\ txDoneIrq \in BOOLEAN /\ irqHeld \in [Chan -> BOOLEAN]
  /\ users \in Nat /\ mutex \in Chan \cup {NoChan}
  /\ timeouts \in 0 .. MaxTimeouts /\ binds \in [Chan -> 0 .. MaxBinds]
TypeRx ==
  /\ rxFifo \in [Chan -> Seq(1 .. MaxRx)] /\ \A c \in Chan : Len(rxFifo[c]) <= FifoMax
  /\ drain = NoDrain \/ drain \in DrainRec
  /\ rxPc \in {"idle", "drain", "deliver"} /\ rxTodo \subseteq Chan
  /\ rxBuf \in [Chan -> Seq(1 .. MaxRx)] /\ \A c \in Chan : Len(rxBuf[c]) <= FifoMax
  /\ rxSent \in [Chan -> 0 .. MaxRx] /\ rxGot \in [Chan -> 0 .. MaxRx]

(* Whose call a send_data() in progress is, and that what it sends is still *)
(* at the head of the queue; a client is in the core only while it may be.  *)
SubInv ==
  \A c \in Chan :
    /\ sub[c] # NoSub => /\ txDoneIrq = TRUE /\ queue[c] # <<>> /\ active[c] = None
                         /\ sub[c].by = "client" => cl[c] = "submit"
                         /\ sub[c].by = "tick" => tick[c] = "submit"
    /\ cl[c] # "idle" => ctl[c] = "up"

(* What the receive handler and a drain have in hand, and for whom.        *)
Draining(c, by) == drain # NoDrain /\ drain.by = by /\ drain.chan = c
RxInv ==
  /\ rxPc = "drain" <=> drain # NoDrain /\ drain.by = "irq"
  /\ rxPc # "drain" => rxTodo = {}
  /\ rxPc = "idle" => \A c \in Chan : rxBuf[c] = <<>>
  /\ \A c \in Chan :
       /\ Draining(c, "start") => ctl[c] = "starting"
       /\ Draining(c, "stop") => ctl[c] = "stopping"
       /\ rxEn[c] = TRUE => ctl[c] = "up"
       /\ c \in rxTodo \/ Draining(c, "irq") \/ rxBuf[c] # <<>> => ctl[c] \in {"up", "sync"}
       /\ c \in rxTodo => rxBuf[c] = <<>>
       /\ Draining(c, "irq") => c \notin rxTodo /\ Len(rxBuf[c]) = drain.n
       /\ rxFifo[c] # <<>> => rxPend[c] = TRUE
       /\ drain = NoDrain \/ drain.chan # c => (rxPend[c] = TRUE => rxFifo[c] # <<>>)

(* Who counts as a user of the TX-done line.                               *)
Users == {c \in Chan : irqHeld[c] = TRUE \/ ctl[c] \in {"disarm", "put"}}
LineInv ==
  /\ users = Cardinality(Users)
  /\ \A c \in Chan :
       /\ irqHeld[c] = TRUE => ctl[c] \in {"drain", "starting", "up", "sync"}
       /\ txDoneIrq = TRUE /\ ctl[c] \in {"drain", "starting", "up"} => irqHeld[c] = TRUE

(* The first request of the queue that was not written to the FIFO.        *)
First(c) == IF sub[c] # NoSub /\ sub[c].full = FALSE THEN 2 ELSE 1

Rising(f)      == \A i, j \in 1 .. Len(f) : i < j => f[i] < f[j]
Above(x, f, k) == \A j \in k .. Len(f) : x < f[j]
Under(f, x)    == \A j \in 1 .. Len(f) : f[j] < x
Apart(f, q, k) == \A i \in 1 .. Len(f), j \in k .. Len(q) : f[i] < q[j]

(* Read up to g, in the FIFO f, held (even if given up) as h, queued in q   *)
(* from k on, sent up to s: in this order.                                 *)
Ordered(f, h, q, k, g, s) ==
  /\ Rising(f) /\ Above(g, f, 1) /\ Under(f, s + 1)
  /\ Rising(q) /\ Above(g, q, k) /\ Under(q, s + 1) /\ Apart(f, q, k)
  /\ h # None => g < h /\ h <= s /\ Under(f, h) /\ Above(h, q, k)
  /\ g <= s
OrderInv ==
  \A c \in Chan :
    /\ Ordered(txFifo[c], held[c], queue[c], First(c), txGot[c], txSent[c])
    /\ held[c] # None => txDoneIrq = FALSE /\ active[c] \in {None, held[c]}

(* Between the look at the FIFO and the tick of the poll timer: one send    *)
(* that gives up lets one more be written, for which the FIFO had room.     *)
TimerInv ==
  txDoneIrq = FALSE => \A c \in Chan :
    /\ tick[c] = "poll" /\ lapsed[c] = 0 => active[c] # None
    /\ tick[c] = "clear" /\ lapsed[c] <= 1 =>
         /\ held[c] = None
         /\ Len(txFifo[c]) < FifoMax \/ (lapsed[c] = 1 /\ active[c] # None)
         /\ active[c] # None \/ lapsed[c] = 1
    /\ ctl[c] = "down" => tick[c] = "none"

(* Every send that gave up during a visit of the timer is counted.          *)
LapseInv ==
  \A c \in Chan : lapsed[c] <= timeouts /\ (cl[c] = "etime" => lapsed[c] < timeouts)

(* An active request that is not held is the newest the FIFO took, and so   *)
(* is a message send_data() has written and the core has not taken over.    *)
AcceptInv ==
  \A c \in Chan :
    /\ active[c] # None /\ held[c] # active[c] /\ ctl[c] \in {"get", "drain", "starting", "up"} =>
         active[c] = Newest(c)
    /\ First(c) = 2 => Head(queue[c]) = Newest(c)

(* A message sent since the channel was requested: read, or somewhere.     *)
Somewhere(m, f, h, q, k, g) ==
  \/ m <= g \/ m = h
  \/ \E i \in 1 .. Len(f) : f[i] = m
  \/ \E j \in k .. Len(q) : q[j] = m
LossInv ==
  \A c \in Chan :
    /\ ctl[c] \in {"get", "drain", "starting"} => base[c] = txSent[c]
    /\ base[c] <= txSent[c]
    /\ ctl[c] = "up" /\ timeouts = 0 =>
         /\ held[c] > base[c] => held[c] = active[c]
         /\ \A m \in base[c] + 1 .. txSent[c] :
              Somewhere(m, txFifo[c], held[c], queue[c], First(c), txGot[c])

MsgboxInv ==
  /\ TypeOK /\ SubInv /\ RxInv /\ LineInv /\ OrderInv /\ TimerInv /\ LapseInv
  /\ AcceptInv /\ LossInv

(* A channel that is not started, or has been told so everywhere.          *)
Off(c) == \/ ctl[c] \in {"down", "get", "failed", "last", "stopping", "free"}
          \/ ctl[c] = "sync" /\ irqHeld[c] = FALSE
LoneInv ==
  txDoneIrq = TRUE => \A c \in Chan :
    /\ Off(c) \/ ctl[c] = "disarm again" => tick[c] = "none"
    /\ Off(c) => txEn[c] = FALSE

-----------------------------------------------------------------------------
(* TypeOK is its parts, before and after a step.                           *)
LEMMA TypeParts ==
  /\ TypeOK <=> TypeTx /\ TypeBits /\ TypePc /\ TypeLine /\ TypeRx
  /\ TypeOK' <=> TypeTx' /\ TypeBits' /\ TypePc' /\ TypeLine' /\ TypeRx'
BY DEF TypeOK, TypeTx, TypeBits, TypePc, TypeLine, TypeRx, CtlPcs, SubRec, DrainRec

Threads == {"client", "tick"}
TxStep(c) ==
  \/ SendMessage(c) \/ (\E by \in Threads : SendData(c, by)) \/ SendDataArm(c)
  \/ TimeoutTick(c) \/ RemoteRead(c) \/ LastTxDone(c) \/ TickClear(c)
  \/ Request(c) \/ Shutdown(c) \/ Free(c)
BitsStep ==
  \/ DrainAck \/ TxIrq
  \/ \E c \in Chan : SendDataArm(c) \/ RemoteRead(c) \/ RemoteSend(c) \/ Shutdown(c) \/ Disarm(c)
LineStep(c) ==
  TxIrqGet(c) \/ SyncRx(c) \/ TxIrqPut(c) \/ TxIrqPutDone(c) \/ Timeout(c) \/ Request(c)
RxStep ==
  \/ RxHandler
  \/ \E c \in Chan : RemoteSend(c) \/ RxDeliver(c) \/ DropStale(c)

(* Which steps touch which part of the state.                              *)
LEMMA TxFrame ==
  ASSUME [Next]_vars
  PROVE  \/ UNCHANGED <<txFifo, held, active, queue, txSent, txGot, base>>
         \/ \E c \in Chan : TxStep(c)
<1>1. ASSUME NEW c \in Chan, ~TxStep(c),
             Sending(c) \/ TxDone(c) \/ RemoteSend(c) \/ RxDeliver(c) \/ Request(c)
               \/ Shutdown(c) \/ Control(c)
      PROVE  UNCHANGED <<txFifo, held, active, queue, txSent, txGot, base>>
  <2>1. \/ NothingToSubmit(c, "client") \/ NothingToSubmit(c, "tick") \/ Timeout(c)
        \/ TimerCheck(c) \/ RemoteSend(c) \/ RxDeliver(c) \/ TxIrqGet(c) \/ DropStale(c)
        \/ SyncRx(c) \/ Disarm(c) \/ TxIrqPut(c) \/ TxIrqPutDone(c)
    BY <1>1 DEF TxStep, Threads, Sending, TxDone, Control, Submit
  <2> QED BY <2>1 DEF NothingToSubmit, Timeout, TimerCheck, RemoteSend, RxDeliver, TxIrqGet,
       DropStale, SyncRx, Disarm, TxIrqPut, TxIrqPutDone, txHw, ghosts, counts, txCore
<1>2. CASE RxHandler \/ TxIrq \/ UNCHANGED vars
  BY <1>2 DEF RxHandler, RxIrq, DrainRead, DrainAck, RxReturn, TxIrq, txHw, ghosts, counts,
     txCore, vars
<1> QED BY <1>1, <1>2 DEF Next

LEMMA BitsFrame ==
  ASSUME [Next]_vars
  PROVE  UNCHANGED <<txPend, txEn, rxPend, rxEn>> \/ BitsStep
<1>1. ASSUME NEW c \in Chan, ~BitsStep,
             Sending(c) \/ TxDone(c) \/ RemoteSend(c) \/ RxDeliver(c) \/ Request(c)
               \/ Shutdown(c) \/ Control(c)
      PROVE  UNCHANGED <<txPend, txEn, rxPend, rxEn>>
  <2>1. \/ NothingToSubmit(c, "client") \/ NothingToSubmit(c, "tick") \/ Timeout(c)
        \/ SendMessage(c) \/ SendData(c, "client") \/ SendData(c, "tick") \/ TimeoutTick(c)
        \/ TimerCheck(c) \/ LastTxDone(c) \/ TickClear(c) \/ RxDeliver(c) \/ TxIrqGet(c)
        \/ DropStale(c) \/ SyncRx(c) \/ TxIrqPut(c) \/ TxIrqPutDone(c) \/ Request(c) \/ Free(c)
    BY <1>1 DEF BitsStep, Sending, TxDone, Control, Submit
  <2> QED BY <2>1 DEF NothingToSubmit, Timeout, SendMessage, SendData, TimeoutTick, TimerCheck,
       LastTxDone, TickClear, RxDeliver, TxIrqGet, DropStale, SyncRx, TxIrqPut, TxIrqPutDone,
       Request, Free, txHw, rxHw, rxSide
<1>2. CASE (RxHandler /\ ~DrainAck) \/ UNCHANGED vars
  BY <1>2 DEF RxHandler, RxIrq, DrainRead, RxReturn, txHw, rxHw, rxSide, vars
<1> QED BY <1>1, <1>2 DEF Next, BitsStep

LEMMA LineFrame ==
  ASSUME [Next]_vars
  PROVE  /\ UNCHANGED txDoneIrq
         /\ \/ UNCHANGED <<irqHeld, users, mutex, timeouts, binds>>
            \/ \E c \in Chan : LineStep(c)
<1>1. ASSUME NEW c \in Chan, ~LineStep(c),
             Sending(c) \/ TxDone(c) \/ RemoteSend(c) \/ RxDeliver(c) \/ Request(c)
               \/ Shutdown(c) \/ Control(c)
      PROVE  UNCHANGED <<txDoneIrq, irqHeld, users, mutex, timeouts, binds>>
  <2>1. \/ NothingToSubmit(c, "client") \/ NothingToSubmit(c, "tick")
        \/ SendMessage(c) \/ SendData(c, "client") \/ SendData(c, "tick") \/ TimeoutTick(c)
        \/ SendDataArm(c) \/ RemoteRead(c) \/ RemoteSend(c)
        \/ TimerCheck(c) \/ LastTxDone(c) \/ TickClear(c) \/ RxDeliver(c)
        \/ DropStale(c) \/ Disarm(c) \/ Shutdown(c) \/ Free(c)
    BY <1>1 DEF LineStep, Sending, TxDone, Control, Submit
  <2> QED BY <2>1 DEF NothingToSubmit, SendMessage, SendData, SendDataArm, RemoteRead, RemoteSend,
       TimeoutTick, TimerCheck, LastTxDone, TickClear, RxDeliver, DropStale, Disarm, Shutdown,
       Free, line, ghosts, counts
<1>2. CASE RxHandler \/ TxIrq \/ UNCHANGED vars
  BY <1>2 DEF RxHandler, RxIrq, DrainRead, DrainAck, RxReturn, TxIrq, line, ghosts, counts, vars
<1>3. ASSUME NEW c \in Chan, LineStep(c)
      PROVE  UNCHANGED txDoneIrq
  BY <1>3 DEF LineStep, TxIrqGet, SyncRx, TxIrqPut, TxIrqPutDone, Timeout, Request, line
<1> QED BY <1>1, <1>2, <1>3 DEF Next

LEMMA RxFrame ==
  ASSUME [Next]_vars
  PROVE  \/ UNCHANGED <<rxFifo, drain, rxPc, rxTodo, rxBuf, rxSent, rxGot>>
         \/ RxStep
<1>1. ASSUME NEW c \in Chan, ~RxStep,
             Sending(c) \/ TxDone(c) \/ RemoteSend(c) \/ RxDeliver(c) \/ Request(c)
               \/ Shutdown(c) \/ Control(c)
      PROVE  UNCHANGED <<rxFifo, drain, rxPc, rxTodo, rxBuf, rxSent, rxGot>>
  <2>1. \/ NothingToSubmit(c, "client") \/ NothingToSubmit(c, "tick") \/ Timeout(c)
        \/ SendMessage(c) \/ SendData(c, "client") \/ SendData(c, "tick") \/ TimeoutTick(c)
        \/ SendDataArm(c) \/ RemoteRead(c) \/ TimerCheck(c) \/ LastTxDone(c) \/ TickClear(c)
        \/ TxIrqGet(c) \/ SyncRx(c) \/ Disarm(c) \/ TxIrqPut(c) \/ TxIrqPutDone(c)
        \/ Request(c) \/ Shutdown(c) \/ Free(c)
    BY <1>1 DEF RxStep, Sending, TxDone, Control, Submit
  <2> QED BY <2>1 DEF NothingToSubmit, Timeout, SendMessage, SendData, SendDataArm, RemoteRead,
       TimeoutTick, TimerCheck, LastTxDone, TickClear, TxIrqGet, SyncRx, Disarm, TxIrqPut,
       TxIrqPutDone, Request, Shutdown, Free, rxHw, rxIrq, rxSide, ghosts, counts
<1>2. CASE TxIrq \/ UNCHANGED vars
  BY <1>2 DEF TxIrq, rxHw, rxIrq, rxSide, ghosts, counts, vars
<1> QED BY <1>1, <1>2 DEF Next, RxStep

-----------------------------------------------------------------------------
(* Types *)

(* The ends of a sequence of message numbers.                              *)
LEMMA HeadTail ==
  ASSUME NEW m \in Nat, NEW s \in Seq(1 .. m), s # <<>>
  PROVE  /\ Head(s) \in 1 .. m /\ Head(s) = s[1] /\ Len(s) \in Nat \ {0}
         /\ Tail(s) \in Seq(1 .. m) /\ Len(Tail(s)) = Len(s) - 1
         /\ \A i \in 1 .. Len(s) - 1 : Tail(s)[i] = s[i + 1]
<1>1. Len(s) \in Nat \ {0}
  BY EmptySeq
<1>2. /\ Head(s) \in 1 .. m /\ Tail(s) \in Seq(1 .. m) /\ Len(Tail(s)) = Len(s) - 1
      /\ \A i \in 1 .. Len(Tail(s)) : Tail(s)[i] = s[i + 1]
  BY HeadTailProperties
<1>3. Head(s) = s[1]
  OBVIOUS
<1> QED BY <1>1, <1>2, <1>3

LEMMA AppendOne ==
  ASSUME NEW m \in Nat, NEW s \in Seq(1 .. m), NEW e \in 1 .. m
  PROVE  /\ Append(s, e) \in Seq(1 .. m) /\ Len(Append(s, e)) = Len(s) + 1
         /\ Append(s, e)[Len(s) + 1] = e /\ Append(s, e) # <<>>
         /\ \A i \in 1 .. Len(s) : Append(s, e)[i] = s[i]
BY AppendProperties

(* The core takes the head of a queue that is not empty.                   *)
LEMMA AcceptTypes ==
  ASSUME TypeTx, NEW c \in Chan, Accept(c), queue[c] # <<>>
  PROVE  /\ active' \in [Chan -> 0 .. MaxTx] /\ queue' \in [Chan -> Seq(1 .. MaxTx)]
         /\ Head(queue[c]) \in 1 .. MaxTx
<1>1. Head(queue[c]) \in 1 .. MaxTx /\ Tail(queue[c]) \in Seq(1 .. MaxTx)
  BY HeadTail, MsgboxAssumption DEF TypeTx
<1> QED BY <1>1 DEF Accept, TypeTx

LEMMA TypeTxStep ==
  ASSUME TypeOK, SubInv, [Next]_vars
  PROVE  TypeTx'
<1>0. TypeTx /\ TypePc /\ MaxTx \in Nat /\ FifoMax \in Nat \ {0}
  BY MsgboxAssumption, TypeParts
<1>1. ASSUME NEW c \in Chan, SendMessage(c)
      PROVE  TypeTx'
  <2>1. txSent[c] + 1 \in 1 .. MaxTx /\ Append(queue[c], txSent[c] + 1) \in Seq(1 .. MaxTx)
    <3>1. txSent[c] \in 0 .. MaxTx /\ txSent[c] < MaxTx /\ queue[c] \in Seq(1 .. MaxTx)
      BY <1>0, <1>1 DEF TypeTx, SendMessage
    <3>2. txSent[c] + 1 \in 1 .. MaxTx
      BY <1>0, <3>1
    <3> QED BY <1>0, <3>1, <3>2, AppendOne
  <2>2. /\ txSent' = [txSent EXCEPT ![c] = txSent[c] + 1]
        /\ queue' = [queue EXCEPT ![c] = Append(queue[c], txSent[c] + 1)]
    BY <1>1 DEF SendMessage
  <2>4. txSent' \in [Chan -> 0 .. MaxTx]
    BY <1>0, <2>1, <2>2 DEF TypeTx
  <2>5. queue' \in [Chan -> Seq(1 .. MaxTx)]
    BY <1>0, <2>1, <2>2 DEF TypeTx
  <2>3. UNCHANGED <<txFifo, held, active, txGot, base>>
    BY <1>1 DEF SendMessage, txHw
  <2> QED BY <1>0, <2>3, <2>4, <2>5 DEF TypeTx
<1>2. ASSUME NEW c \in Chan, NEW by \in Threads, SendData(c, by)
      PROVE  TypeTx'
  <2>1. queue[c] # <<>> /\ Head(queue[c]) \in 1 .. MaxTx /\ Tail(queue[c]) \in Seq(1 .. MaxTx)
    <3>1. queue[c] # <<>> /\ queue[c] \in Seq(1 .. MaxTx)
      BY <1>0, <1>2 DEF TypeTx, SendData, CanSubmit
    <3> QED BY <1>0, <3>1, HeadTail
  <2>2. HeldAfterSend(c) \in 0 .. MaxTx
    BY <1>0, <2>1 DEF HeldAfterSend, None
  <2>3. held' \in [Chan -> 0 .. MaxTx]
    BY <1>0, <1>2, <2>2 DEF TypeTx, SendData
  <2>4. txFifo' \in [Chan -> Seq(1 .. MaxTx)] /\ \A d \in Chan : Len(txFifo'[d]) <= FifoMax
    <3>1. CASE Full(c)
      BY <1>0, <1>2, <3>1 DEF TypeTx, SendData
    <3>2. CASE ~Full(c)
      <4>1. txFifo[c] \in Seq(1 .. MaxTx) /\ ~(Len(txFifo[c]) >= FifoMax)
        BY <1>0, <3>2 DEF TypeTx, Full
      <4>2. /\ Append(txFifo[c], Head(queue[c])) \in Seq(1 .. MaxTx)
            /\ Len(Append(txFifo[c], Head(queue[c]))) <= FifoMax
        <5>1. Len(txFifo[c]) \in Nat
          BY <4>1
        <5> QED BY <1>0, <2>1, <4>1, <5>1, AppendOne
      <4>3. txFifo' = [txFifo EXCEPT ![c] = Append(txFifo[c], Head(queue[c]))]
        BY <1>2, <3>2 DEF SendData
      <4> QED BY <1>0, <4>2, <4>3 DEF TypeTx
    <3> QED BY <3>1, <3>2
  <2>5. active' \in [Chan -> 0 .. MaxTx] /\ queue' \in [Chan -> Seq(1 .. MaxTx)]
    BY <1>0, <1>2, <2>1, AcceptTypes DEF TypeTx, SendData
  <2>6. UNCHANGED <<txSent, txGot, base>>
    BY <1>2 DEF SendData, ghosts, counts
  <2> QED BY <1>0, <2>3, <2>4, <2>5, <2>6 DEF TypeTx
<1>3. ASSUME NEW c \in Chan, SendDataArm(c)
      PROVE  TypeTx'
  <2>1. queue[c] # <<>>
    BY <1>3 DEF SendDataArm, SubInv, ChanLockFree
  <2>2. active' \in [Chan -> 0 .. MaxTx] /\ queue' \in [Chan -> Seq(1 .. MaxTx)]
    BY <1>0, <1>3, <2>1, AcceptTypes DEF TypeTx, SendDataArm
  <2> QED BY <1>0, <1>3, <2>2 DEF TypeTx, SendDataArm, ghosts, counts
<1>4. ASSUME NEW c \in Chan, RemoteRead(c)
      PROVE  TypeTx'
  <2>1. /\ Head(txFifo[c]) \in 1 .. MaxTx /\ Tail(txFifo[c]) \in Seq(1 .. MaxTx)
        /\ Len(Tail(txFifo[c])) <= FifoMax
    <3>1. txFifo[c] # <<>> /\ txFifo[c] \in Seq(1 .. MaxTx) /\ Len(txFifo[c]) <= FifoMax
      BY <1>0, <1>4 DEF TypeTx, RemoteRead
    <3>2. /\ Head(txFifo[c]) \in 1 .. MaxTx /\ Tail(txFifo[c]) \in Seq(1 .. MaxTx)
          /\ Len(txFifo[c]) \in Nat \ {0} /\ Len(Tail(txFifo[c])) = Len(txFifo[c]) - 1
      BY <1>0, <3>1, HeadTail
    <3> QED BY <1>0, <3>1, <3>2
  <2>2. /\ txFifo' \in [Chan -> Seq(1 .. MaxTx)] /\ txGot' \in [Chan -> 0 .. MaxTx]
        /\ \A d \in Chan : Len(txFifo'[d]) <= FifoMax
    <3>1. /\ txFifo' = [txFifo EXCEPT ![c] = Tail(txFifo[c])]
          /\ txGot' = [txGot EXCEPT ![c] = Head(txFifo[c])]
      BY <1>4 DEF RemoteRead
    <3>2. txGot' \in [Chan -> 0 .. MaxTx]
      BY <1>0, <2>1, <3>1 DEF TypeTx
    <3>3. txFifo' \in [Chan -> Seq(1 .. MaxTx)] /\ \A d \in Chan : Len(txFifo'[d]) <= FifoMax
      BY <1>0, <2>1, <3>1 DEF TypeTx
    <3> QED BY <3>2, <3>3
  <2>3. UNCHANGED <<held, active, queue, txSent, base>>
    BY <1>4 DEF RemoteRead, txCore
  <2> QED BY <1>0, <2>2, <2>3 DEF TypeTx
<1>5. ASSUME NEW c \in Chan, LastTxDone(c)
      PROVE  TypeTx'
  <2>1. WritesHeld(c) => /\ Append(txFifo[c], held[c]) \in Seq(1 .. MaxTx)
                         /\ Len(Append(txFifo[c], held[c])) <= FifoMax
    BY <1>0 DEF TypeTx, WritesHeld, Full, None
  <2> QED BY <1>0, <1>5, <2>1 DEF TypeTx, LastTxDone, ghosts, counts, None
<1>6. ASSUME NEW c \in Chan, Request(c)
      PROVE  TypeTx'
  <2>1. <<>> \in Seq(1 .. MaxTx)
    OBVIOUS
  <2> QED BY <1>0, <1>6, <2>1 DEF TypeTx, Request, txHw, None
<1>7. ASSUME NEW c \in Chan, TimeoutTick(c) \/ TickClear(c) \/ Free(c)
      PROVE  TypeTx'
  <2>1. UNCHANGED <<txFifo, queue, held, txSent, txGot, base>>
    BY <1>7 DEF TimeoutTick, TickClear, Free, txHw, txCore, ghosts, counts
  <2>2. active' = [active EXCEPT ![c] = 0]
    BY <1>7 DEF TimeoutTick, TickClear, Free, None
  <2>3. active' \in [Chan -> 0 .. MaxTx]
    BY <1>0, <2>2 DEF TypeTx
  <2> QED BY <1>0, <2>1, <2>3 DEF TypeTx
<1>9. ASSUME NEW c \in Chan, Shutdown(c)
      PROVE  TypeTx'
  <2>1. held' \in [Chan -> 0 .. MaxTx]
    BY <1>0, <1>9 DEF TypeTx, Shutdown, None
  <2> QED BY <1>0, <1>9, <2>1 DEF TypeTx, Shutdown, txHw, txCore, ghosts, counts
<1>8. CASE UNCHANGED <<txFifo, held, active, queue, txSent, txGot, base>>
  BY <1>0, <1>8 DEF TypeTx
<1> QED BY <1>1, <1>2, <1>3, <1>4, <1>5, <1>6, <1>7, <1>8, <1>9, TxFrame DEF TxStep

LEMMA TypeBitsStep ==
  ASSUME TypeOK, [Next]_vars
  PROVE  TypeBits'
<1>0. TypeBits
  BY TypeParts
<1>1. CASE UNCHANGED <<txPend, txEn, rxPend, rxEn>>
  BY <1>0, <1>1 DEF TypeBits
<1>2. ASSUME NEW c \in Chan, SendDataArm(c) \/ RemoteRead(c) \/ RemoteSend(c)
                               \/ Shutdown(c) \/ Disarm(c)
      PROVE  TypeBits'
  BY <1>0, <1>2 DEF TypeBits, SendDataArm, RemoteRead, RemoteSend, Shutdown, Disarm, ArmedStatus,
       ArmedEnable, rxHw, rxSide, txHw
<1>3. CASE TxIrq
  BY <1>0, <1>3 DEF TypeBits, TxIrq, ArmedStatus, rxHw, rxSide
<1>4. CASE DrainAck
  BY <1>0, <1>4 DEF TypeBits, DrainAck, AckedStatus, EnableAfterDrain, txHw
<1> QED BY <1>1, <1>2, <1>3, <1>4, BitsFrame DEF BitsStep

LEMMA TypeLineStep ==
  ASSUME TypeOK, LineInv, LineInv', [Next]_vars
  PROVE  TypeLine'
<1>0. TypeLine
  BY TypeParts
<1>1. CASE UNCHANGED <<irqHeld, users, mutex, timeouts, binds>>
  BY <1>0, <1>1, LineFrame DEF TypeLine
<1>2. ASSUME NEW c \in Chan, LineStep(c)
      PROVE  TypeLine'
  <2>1. UNCHANGED txDoneIrq
    BY LineFrame
  <2>2. irqHeld' \in [Chan -> BOOLEAN]
    BY <1>0, <1>2 DEF TypeLine, LineStep, TxIrqGet, SyncRx, TxIrqPut, TxIrqPutDone, Timeout,
         Request, line
  <2>3. mutex' \in Chan \cup {NoChan}
    BY <1>0, <1>2 DEF TypeLine, LineStep, TxIrqGet, SyncRx, TxIrqPut, TxIrqPutDone, Timeout,
         Request, line, MutexAfterPut
  <2>4. timeouts' \in 0 .. MaxTimeouts /\ binds' \in [Chan -> 0 .. MaxBinds]
    <3>1. /\ timeouts \in 0 .. MaxTimeouts /\ binds \in [Chan -> 0 .. MaxBinds]
          /\ MaxTimeouts \in Nat /\ MaxBinds \in Nat
      BY <1>0, MsgboxAssumption DEF TypeLine
    <3>2. CASE Timeout(c)
      BY <3>1, <3>2 DEF Timeout
    <3>3. CASE Request(c)
      BY <3>1, <3>3 DEF Request
    <3>4. CASE TxIrqGet(c) \/ SyncRx(c) \/ TxIrqPut(c) \/ TxIrqPutDone(c)
      BY <3>1, <3>4 DEF TxIrqGet, SyncRx, TxIrqPut, TxIrqPutDone, ghosts, counts
    <3> QED BY <1>2, <3>2, <3>3, <3>4 DEF LineStep
  <2>5. users' \in Nat
    <3>1. Users' \in SUBSET Chan
      BY DEF Users
    <3>2. IsFiniteSet(Users')
      BY <3>1, FS_Subset, MsgboxAssumption
    <3> HIDE DEF Users
    <3> QED BY <3>2, FS_CardinalityType DEF LineInv
  <2> QED BY <1>0, <2>1, <2>2, <2>3, <2>4, <2>5 DEF TypeLine
<1> QED BY <1>1, <1>2, LineFrame

CoreStep(c) ==
  \/ SendMessage(c) \/ (\E by \in Threads : NothingToSubmit(c, by) \/ SendData(c, by))
  \/ SendDataArm(c) \/ Timeout(c) \/ TimeoutTick(c) \/ TimerCheck(c) \/ LastTxDone(c)
  \/ TickClear(c)

LEMMA CoreFrame ==
  ASSUME [Next]_vars
  PROVE  UNCHANGED <<sub, cl, tick>> \/ TxIrq \/ \E c \in Chan : CoreStep(c)
<1>1. ASSUME NEW c \in Chan, ~CoreStep(c),
             Sending(c) \/ TxDone(c) \/ RemoteSend(c) \/ RxDeliver(c) \/ Request(c)
               \/ Shutdown(c) \/ Control(c)
      PROVE  UNCHANGED <<sub, cl, tick>>
  <2>1. \/ RemoteRead(c) \/ RemoteSend(c) \/ RxDeliver(c) \/ Request(c) \/ Shutdown(c)
        \/ Control(c)
    BY <1>1 DEF CoreStep, Threads, Sending, TxDone, Submit
  <2> QED BY <2>1 DEF RemoteRead, RemoteSend, RxDeliver, Request, Shutdown, Control, TxIrqGet,
       DropStale, SyncRx, Disarm, TxIrqPut, TxIrqPutDone, Free, txCore
<1>2. CASE RxHandler \/ UNCHANGED vars
  BY <1>2 DEF RxHandler, RxIrq, DrainRead, DrainAck, RxReturn, txCore, vars
<1> QED BY <1>1, <1>2 DEF Next

LEMMA CtlFrame ==
  ASSUME [Next]_vars
  PROVE  \/ UNCHANGED ctl \/ DrainAck
         \/ \E c \in Chan : Request(c) \/ Shutdown(c) \/ Control(c)
<1>1. ASSUME NEW c \in Chan, Sending(c) \/ TxDone(c) \/ RemoteSend(c) \/ RxDeliver(c)
      PROVE  UNCHANGED ctl
  <2>1. CASE Sending(c)
    BY <2>1 DEF Sending, Submit, SendMessage, NothingToSubmit, SendData, SendDataArm, Timeout,
         TimeoutTick, RemoteRead
  <2>2. CASE TxDone(c)
    BY <2>2 DEF TxDone, Submit, NothingToSubmit, SendData, TimerCheck, LastTxDone, TickClear
  <2> QED BY <1>1, <2>1, <2>2 DEF RemoteSend, RxDeliver
<1>2. CASE RxIrq \/ DrainRead \/ RxReturn \/ TxIrq \/ UNCHANGED vars
  BY <1>2 DEF RxIrq, DrainRead, RxReturn, TxIrq, vars
<1> QED BY <1>1, <1>2 DEF Next, RxHandler

LEMMA LapseFrame ==
  ASSUME [Next]_vars
  PROVE  UNCHANGED lapsed \/ \E c \in Chan : TimeoutTick(c) \/ TimerCheck(c)
<1>1. ASSUME NEW c \in Chan, ~TimeoutTick(c), ~TimerCheck(c),
             Sending(c) \/ TxDone(c) \/ RemoteSend(c) \/ RxDeliver(c)
      PROVE  UNCHANGED lapsed
  BY <1>1 DEF Sending, TxDone, Submit, SendMessage, NothingToSubmit, SendData, SendDataArm,
     Timeout, RemoteRead, LastTxDone, TickClear, RemoteSend, RxDeliver, ghosts
<1>2. ASSUME NEW c \in Chan, Request(c) \/ Shutdown(c) \/ Control(c)
      PROVE  UNCHANGED lapsed
  BY <1>2 DEF Request, Shutdown, Control, TxIrqGet, DropStale, SyncRx, Disarm, TxIrqPut,
     TxIrqPutDone, Free, ghosts
<1>3. CASE RxHandler \/ TxIrq \/ UNCHANGED vars
  BY <1>3 DEF RxHandler, RxIrq, DrainRead, DrainAck, RxReturn, TxIrq, ghosts, vars
<1> QED BY <1>1, <1>2, <1>3 DEF Next

LEMMA TypePcStep ==
  ASSUME TypeOK, RxInv, [Next]_vars
  PROVE  TypePc'
<1>0. TypePc /\ (drain = NoDrain \/ drain \in DrainRec)
  BY TypeParts DEF TypeRx
<1>1. ctl' \in [Chan -> CtlPcs]
  <2>1. ASSUME NEW c \in Chan, Request(c) \/ Shutdown(c) \/ Control(c)
        PROVE  ctl' \in [Chan -> CtlPcs]
    <3>1. ctl \in [Chan -> CtlPcs]
      BY <1>0 DEF TypePc
    <3>2. CASE Control(c)
      BY <3>1, <3>2 DEF Control, CtlPcs, TxIrqGet, DropStale, SyncRx, Disarm, TxIrqPut,
           TxIrqPutDone, Free, AfterSync, AfterPut
    <3> QED BY <2>1, <3>1, <3>2 DEF CtlPcs, Request, Shutdown
  <2>2. CASE DrainAck
    BY <1>0, <2>2 DEF TypePc, CtlPcs, DrainAck, LockFree, DrainRec
  <2> QED BY <1>0, <2>1, <2>2, CtlFrame DEF TypePc
<1>5. lapsed' \in [Chan -> Nat]
  <2>1. lapsed \in [Chan -> Nat]
    BY <1>0 DEF TypePc
  <2> QED BY <2>1, LapseFrame DEF TimeoutTick, TimerCheck
<1>2. ASSUME NEW c \in Chan, CoreStep(c)
      PROVE  /\ sub' \in [Chan -> {NoSub} \cup SubRec]
             /\ cl' \in [Chan -> {"idle", "submit", "etime"}]
             /\ tick' \in [Chan -> {"none", "poll", "clear", "submit"}]
  <2> USE <1>0 DEF TypePc
  <2>1. CASE SendMessage(c) \/ Timeout(c) \/ TimeoutTick(c)
    BY <2>1 DEF SendMessage, Timeout, TimeoutTick
  <2>2. CASE TimerCheck(c) \/ LastTxDone(c) \/ TickClear(c)
    BY <2>2 DEF TimerCheck, LastTxDone, TickClear
  <2>3. ASSUME NEW by \in Threads, NothingToSubmit(c, by)
        PROVE  /\ sub' \in [Chan -> {NoSub} \cup SubRec]
               /\ cl' \in [Chan -> {"idle", "submit", "etime"}]
               /\ tick' \in [Chan -> {"none", "poll", "clear", "submit"}]
    BY <2>3 DEF NothingToSubmit, Return
  <2>4. ASSUME NEW by \in Threads, SendData(c, by)
        PROVE  /\ sub' \in [Chan -> {NoSub} \cup SubRec]
               /\ cl' \in [Chan -> {"idle", "submit", "etime"}]
               /\ tick' \in [Chan -> {"none", "poll", "clear", "submit"}]
    <3>1. [by |-> by, full |-> Refused(c)] \in SubRec
      BY DEF SubRec, Threads, Refused, Full
    <3>2. sub' \in [Chan -> {NoSub} \cup SubRec]
      BY <2>4, <3>1 DEF SendData
    <3>3. cl' = cl \/ cl' = [cl EXCEPT ![c] = "idle"]
      BY <2>4 DEF SendData, Return
    <3>4. tick' = tick \/ tick' = [tick EXCEPT ![c] = "none"]
      BY <2>4 DEF SendData, Return
    <3> QED BY <3>2, <3>3, <3>4
  <2>5. CASE SendDataArm(c)
    BY <2>5 DEF SendDataArm, Return
  <2> QED BY <1>2, <2>1, <2>2, <2>3, <2>4, <2>5 DEF CoreStep
<1>3. CASE TxIrq
  BY <1>0, <1>1, <1>3, <1>5 DEF TypePc, TxIrq
<1>4. CASE UNCHANGED <<sub, cl, tick>>
  BY <1>0, <1>1, <1>4, <1>5 DEF TypePc
<1> QED BY <1>1, <1>2, <1>3, <1>4, <1>5, CoreFrame DEF TypePc

-----------------------------------------------------------------------------
(* The receive side *)

LEMMA DrainOfRec ==
  ASSUME NEW c \in Chan, NEW by \in {"irq", "start", "stop"}
  PROVE  /\ DrainOf(by, c) \in DrainRec /\ DrainOf(by, c) # NoDrain
         /\ DrainOf(by, c).by = by /\ DrainOf(by, c).chan = c
         /\ DrainOf(by, c).n = 0 /\ DrainOf(by, c).pc = "read"
<1>1. DrainOf(by, c) \in DrainRec
  BY MsgboxAssumption DEF DrainOf, DrainRec
<1> QED BY <1>1, MsgboxAssumption DEF DrainOf, DrainRec

LEMMA DrainAdvance ==
  ASSUME NEW d \in DrainRec
  PROVE  /\ LET e == [d EXCEPT !.n = @ + 1]
            IN  /\ d.n < FifoMax => e \in DrainRec /\ e # NoDrain
                /\ e.by = d.by /\ e.chan = d.chan /\ e.n = d.n + 1
         /\ LET e == [d EXCEPT !.pc = "ack"]
            IN  /\ e \in DrainRec /\ e # NoDrain
                /\ e.by = d.by /\ e.chan = d.chan /\ e.n = d.n
BY MsgboxAssumption DEF DrainRec

(* RxInv for one channel, and the part about the handler as a whole.       *)
RxOne(c) ==
  /\ Draining(c, "start") => ctl[c] = "starting"
  /\ Draining(c, "stop") => ctl[c] = "stopping"
  /\ rxEn[c] = TRUE => ctl[c] = "up"
  /\ c \in rxTodo \/ Draining(c, "irq") \/ rxBuf[c] # <<>> => ctl[c] \in {"up", "sync"}
  /\ c \in rxTodo => rxBuf[c] = <<>>
  /\ Draining(c, "irq") => c \notin rxTodo /\ Len(rxBuf[c]) = drain.n
  /\ rxFifo[c] # <<>> => rxPend[c] = TRUE
  /\ drain = NoDrain \/ drain.chan # c => (rxPend[c] = TRUE => rxFifo[c] # <<>>)
RxAll ==
  /\ rxPc = "drain" <=> drain # NoDrain /\ drain.by = "irq"
  /\ rxPc # "drain" => rxTodo = {}
  /\ rxPc = "idle" => \A c \in Chan : rxBuf[c] = <<>>

LEMMA RxParts ==
  /\ RxInv <=> RxAll /\ \A c \in Chan : RxOne(c)
  /\ RxInv' <=> RxAll' /\ \A c \in Chan : RxOne(c)'
BY DEF RxInv, RxAll, RxOne

(* What does not change for a channel keeps its part.                      *)
LEMMA RxOneKept ==
  ASSUME NEW d \in Chan, RxOne(d), rxFifo'[d] = rxFifo[d], rxPend'[d] = rxPend[d],
         rxEn'[d] = rxEn[d], rxBuf'[d] = rxBuf[d], ctl'[d] = ctl[d],
         d \in rxTodo' <=> d \in rxTodo, drain' = drain
  PROVE  RxOne(d)'
BY DEF RxOne, Draining

LEMMA RxStepInv ==
  ASSUME TypeOK, RxInv, [Next]_vars, RxStep
  PROVE  RxInv'
<1> USE RxParts
<1>0. /\ TypeRx /\ TypePc /\ TypeBits /\ RxAll /\ \A d \in Chan : RxOne(d)
      /\ rxBuf \in [Chan -> Seq(1 .. MaxRx)] /\ rxFifo \in [Chan -> Seq(1 .. MaxRx)]
      /\ rxPend \in [Chan -> BOOLEAN] /\ rxEn \in [Chan -> BOOLEAN] /\ MaxRx \in Nat
      /\ FifoMax \in Nat \ {0} /\ ctl \in [Chan -> CtlPcs]
  BY TypeParts, MsgboxAssumption DEF TypeRx, TypeBits, TypePc
<1>n. MaxRx \in Nat
  BY MsgboxAssumption
<1>1. ASSUME NEW c \in Chan, RemoteSend(c)
      PROVE  RxInv'
  <2>1. UNCHANGED <<drain, rxPc, rxTodo, rxBuf, rxEn, ctl>>
    BY <1>1 DEF RemoteSend, rxIrq
  <2>2. RxAll'
    BY <1>0, <2>1 DEF RxAll
  <2>3. rxFifo'[c] # <<>> /\ rxPend'[c] = TRUE
    <3>1. rxSent[c] + 1 \in 1 .. MaxRx
      <4>1. rxSent[c] \in 0 .. MaxRx /\ rxSent[c] < MaxRx
        BY <1>0, <1>1 DEF RemoteSend, TypeRx
      <4> QED BY <1>0, <4>1
    <3>2. Append(rxFifo[c], rxSent[c] + 1) # <<>>
      <4>1. rxFifo[c] \in Seq(1 .. MaxRx)
        BY <1>0
      <4> QED BY <1>n, <3>1, <4>1, AppendOne
    <3> QED BY <1>0, <1>1, <3>2 DEF RemoteSend
  <2>4. ASSUME NEW d \in Chan, d # c
        PROVE  RxOne(d)'
    BY <1>0, <1>1, <2>1, <2>4, RxOneKept DEF RemoteSend
  <2>5. RxOne(c)'
    BY <1>0, <2>1, <2>3 DEF RxOne, Draining
  <2> QED BY <2>2, <2>4, <2>5
<1>2. CASE RxIrq
  <2>1. UNCHANGED <<rxFifo, rxPend, rxEn, rxBuf, ctl>>
    BY <1>2 DEF RxIrq, rxHw
  <2>2. PICK c \in Chan : /\ rxEn[c] = TRUE /\ drain' = DrainOf("irq", c)
                          /\ rxTodo' = {d \in Chan : rxEn[d] /\ rxPend[d]} \ {c}
    BY <1>0, <1>2 DEF RxIrq
  <2>3. drain' # NoDrain /\ drain'.by = "irq" /\ drain'.chan = c /\ drain'.n = 0
    BY <2>2, DrainOfRec
  <2>4. drain = NoDrain /\ rxPc = "idle" /\ rxPc' = "drain" /\ \A d \in Chan : rxBuf[d] = <<>>
    BY <1>0, <1>2 DEF RxIrq, LockFree, RxAll
  <2>5. RxAll'
    BY <2>3, <2>4 DEF RxAll
  <2>6. ASSUME NEW d \in Chan
        PROVE  RxOne(d)'
    BY <1>0, <2>1, <2>2, <2>3, <2>4 DEF RxOne, Draining
  <2> QED BY <2>5, <2>6
<1>3. CASE DrainRead
  <2>0. drain # NoDrain /\ drain \in DrainRec /\ drain.by \in {"irq", "start", "stop"}
    BY <1>0, <1>3 DEF DrainRead, LockFree, TypeRx, DrainRec
  <2>1. PICK c \in Chan : /\ c = drain.chan
                          /\ drain # NoDrain /\ drain.by \in {"irq", "start", "stop"}
    BY <2>0 DEF DrainRec
  <2>2. UNCHANGED <<rxPend, rxEn, rxPc, rxTodo, ctl>>
    BY <1>3 DEF DrainRead
  <2>3. /\ drain' # NoDrain /\ drain'.by = drain.by /\ drain'.chan = c
        /\ \/ UNCHANGED <<rxFifo, rxBuf>> /\ drain'.n = drain.n
           \/ /\ rxFifo[c] # <<>> /\ rxFifo' = [rxFifo EXCEPT ![c] = Tail(@)]
              /\ drain'.n = drain.n + 1
              /\ rxBuf' = IF drain.by = "irq"
                          THEN [rxBuf EXCEPT ![c] = Append(@, Head(rxFifo[c]))]
                          ELSE rxBuf
    BY <1>3, <2>0, <2>1, DrainAdvance DEF DrainRead
  <2>4. RxAll'
    BY <1>0, <2>1, <2>2, <2>3 DEF RxAll
  <2>5. ASSUME NEW d \in Chan, d # c
        PROVE  RxOne(d)'
    <3>1. rxFifo'[d] = rxFifo[d] /\ rxBuf'[d] = rxBuf[d]
      BY <1>0, <2>3, <2>5
    <3>2. RxOne(d) /\ drain # NoDrain /\ drain.chan = c
      BY <1>0, <2>1
    <3> QED BY <2>2, <2>3, <2>5, <3>1, <3>2 DEF RxOne, Draining
  <2>6. RxOne(c)'
    <3>1. CASE UNCHANGED <<rxFifo, rxBuf>> /\ drain'.n = drain.n
      BY <1>0, <2>1, <2>2, <2>3, <3>1 DEF RxOne, Draining
    <3>2. CASE rxFifo[c] # <<>> /\ drain'.n = drain.n + 1 /\ drain.by # "irq"
                 /\ rxBuf' = rxBuf
      BY <1>0, <2>1, <2>2, <2>3, <3>2 DEF RxOne, Draining
    <3>3. CASE /\ rxFifo[c] # <<>> /\ drain'.n = drain.n + 1 /\ drain.by = "irq"
               /\ rxBuf' = [rxBuf EXCEPT ![c] = Append(@, Head(rxFifo[c]))]
      <4>0. rxFifo[c] \in Seq(1 .. MaxRx) /\ rxBuf[c] \in Seq(1 .. MaxRx)
        BY <1>0, <2>1
      <4>1. Head(rxFifo[c]) \in 1 .. MaxRx
        BY <1>n, <3>3, <4>0, HeadTail
      <4>2. rxBuf'[c] = Append(rxBuf[c], Head(rxFifo[c]))
        BY <1>0, <2>1, <3>3
      <4>3. Len(rxBuf'[c]) = Len(rxBuf[c]) + 1
        BY <1>n, <4>0, <4>1, <4>2, AppendOne
      <4>4. RxOne(c)
        BY <1>0, <2>1
      <4> QED BY <1>0, <2>1, <2>2, <2>3, <3>3, <4>3, <4>4 DEF RxOne, Draining
    <3> QED BY <2>3, <3>1, <3>2, <3>3
  <2> QED BY <2>4, <2>5, <2>6
<1>4. CASE DrainAck
  <2>0. drain # NoDrain /\ drain \in DrainRec /\ drain.by \in {"irq", "start", "stop"}
    BY <1>0, <1>4 DEF DrainAck, LockFree, TypeRx, DrainRec
  <2>1. PICK c \in Chan : /\ c = drain.chan
                          /\ drain # NoDrain /\ drain.by \in {"irq", "start", "stop"}
    BY <2>0 DEF DrainRec
  <2>2. /\ UNCHANGED <<rxFifo, rxBuf>> /\ rxPend' = [rxPend EXCEPT ![c] = AckedStatus(c)]
        /\ rxEn' = EnableAfterDrain
    BY <1>4, <2>1 DEF DrainAck
  <2>3. rxPend'[c] = TRUE <=> rxFifo[c] # <<>>
    BY <1>0, <2>1, <2>2 DEF AckedStatus, RxOne
  <2>4. CASE drain.by = "irq" /\ rxTodo = {}
    <3>1. drain' = NoDrain /\ rxPc' = "deliver" /\ rxTodo' = {} /\ UNCHANGED <<ctl, rxEn>>
      BY <1>4, <2>2, <2>4 DEF DrainAck, EnableAfterDrain
    <3>2. RxAll'
      BY <3>1 DEF RxAll
    <3>3. ASSUME NEW d \in Chan
          PROVE  RxOne(d)'
      BY <1>0, <2>1, <2>2, <2>3, <3>1, <2>4 DEF RxOne, Draining
    <3> QED BY <3>2, <3>3
  <2>5. CASE drain.by = "irq" /\ rxTodo # {}
    <3>1. UNCHANGED <<rxPc, ctl, rxEn>>
      BY <1>4, <2>2, <2>5 DEF DrainAck, EnableAfterDrain
    <3>2. PICK e \in rxTodo : drain' = DrainOf("irq", e) /\ rxTodo' = rxTodo \ {e}
      BY <1>4, <2>5 DEF DrainAck
    <3>3. e \in Chan
      BY <1>0 DEF TypeRx
    <3>4. drain' # NoDrain /\ drain'.by = "irq" /\ drain'.chan = e /\ drain'.n = 0
      BY <3>2, <3>3, DrainOfRec
    <3>5. RxAll'
      BY <1>0, <2>1, <2>2, <2>5, <3>1, <3>4 DEF RxAll
    <3>6. ASSUME NEW d \in Chan
          PROVE  RxOne(d)'
      <4>1. e # c
        BY <1>0, <2>1, <2>5 DEF RxOne, Draining
      <4>2. RxOne(d) /\ rxBuf'[d] = rxBuf[d] /\ rxFifo'[d] = rxFifo[d] /\ rxEn'[d] = rxEn[d]
            /\ ctl'[d] = ctl[d]
        BY <1>0, <2>2, <3>1
      <4>3. CASE d = e
        BY <2>1, <2>2, <2>5, <3>2, <3>4, <4>1, <4>2, <4>3, <1>0 DEF RxOne, Draining
      <4>4. CASE d # e /\ d = c
        BY <2>1, <2>3, <2>5, <3>2, <3>4, <4>2, <4>4 DEF RxOne, Draining
      <4>5. CASE d # e /\ d # c
        <5>1. rxPend'[d] = rxPend[d]
          BY <1>0, <2>1, <2>2, <4>5
        <5> QED BY <2>1, <2>5, <3>2, <3>4, <4>2, <4>5, <5>1 DEF RxOne, Draining
      <4> QED BY <4>3, <4>4, <4>5
    <3> QED BY <3>5, <3>6
  <2>6. CASE drain.by # "irq"
    <3>1. drain' = NoDrain /\ UNCHANGED <<rxPc, rxTodo>>
          /\ ctl' = [ctl EXCEPT ![c] = IF drain.by = "start" THEN "up" ELSE "free"]
      BY <1>4, <2>1, <2>6 DEF DrainAck
    <3>2. RxAll'
      BY <1>0, <2>1, <2>2, <2>6, <3>1 DEF RxAll
    <3>3. ASSUME NEW d \in Chan, d # c
          PROVE  RxOne(d)'
      BY <1>0, <2>1, <2>2, <3>1, <3>3 DEF RxOne, Draining, EnableAfterDrain
    <3>4. RxOne(c)'
      BY <1>0, <2>1, <2>2, <2>3, <2>6, <3>1 DEF RxOne, Draining, EnableAfterDrain
    <3> QED BY <3>2, <3>3, <3>4
  <2> QED BY <2>4, <2>5, <2>6
<1>5. ASSUME NEW c \in Chan, RxDeliver(c)
      PROVE  RxInv'
  <2>1. UNCHANGED <<rxFifo, rxPend, rxEn, rxPc, rxTodo, drain, ctl>>
    BY <1>5 DEF RxDeliver, rxHw
  <2>2. rxPc = "deliver" /\ rxBuf[c] # <<>> /\ rxBuf' = [rxBuf EXCEPT ![c] = Tail(@)]
    BY <1>5 DEF RxDeliver
  <2>3. RxAll'
    BY <1>0, <2>1, <2>2 DEF RxAll
  <2>4. ASSUME NEW d \in Chan
        PROVE  RxOne(d)'
    BY <1>0, <2>1, <2>2 DEF RxOne, Draining, RxAll
  <2> QED BY <2>3, <2>4
<1>6. CASE RxReturn
  <2>1. UNCHANGED <<rxFifo, rxPend, rxEn, rxTodo, rxBuf, drain, ctl>>
    BY <1>6 DEF RxReturn, rxHw
  <2> QED BY <1>0, <1>6, <2>1 DEF RxReturn, RxAll, RxOne, Draining
<1>7. ASSUME NEW c \in Chan, DropStale(c)
      PROVE  RxInv'
  <2>1. UNCHANGED <<rxFifo, rxPend, rxEn, rxPc, rxTodo, rxBuf>>
    BY <1>7 DEF DropStale, rxHw, rxIrq
  <2>2. drain = NoDrain /\ ctl[c] \in {"drain", "last"}
    BY <1>7 DEF DropStale, LockFree
  <2>3. PICK by \in {"start", "stop"} :
          /\ drain' = DrainOf(by, c)
          /\ ctl' = [ctl EXCEPT ![c] = IF by = "start" THEN "starting" ELSE "stopping"]
    BY <1>7 DEF DropStale
  <2>4. drain' # NoDrain /\ drain'.by = by /\ drain'.chan = c
    BY <2>3, DrainOfRec
  <2>5. RxAll'
    BY <1>0, <2>1, <2>2, <2>4 DEF RxAll
  <2>6. ASSUME NEW d \in Chan, d # c
        PROVE  RxOne(d)'
    BY <1>0, <2>1, <2>2, <2>3, <2>4, <2>6 DEF RxOne, Draining
  <2>7. RxOne(c)'
    BY <1>0, <2>1, <2>2, <2>3, <2>4 DEF RxOne, Draining
  <2> QED BY <2>5, <2>6, <2>7
<1> QED BY <1>1, <1>2, <1>3, <1>4, <1>5, <1>6, <1>7 DEF RxStep, RxHandler

(* The other steps change of all this only where startup() or shutdown() is *)
(* and, in shutdown(), the enable bit.                                     *)
LEMMA RxInvStep ==
  ASSUME TypeOK, RxInv, [Next]_vars
  PROVE  RxInv'
<1> USE RxParts
<1>1. CASE RxStep
  BY <1>1, RxStepInv
<1>2. CASE ~RxStep
  <2>0. /\ RxAll /\ \A d \in Chan : RxOne(d)
        /\ rxEn \in [Chan -> BOOLEAN] /\ ctl \in [Chan -> CtlPcs]
    BY TypeParts DEF TypeBits, TypePc
  <2>1. UNCHANGED <<rxFifo, drain, rxPc, rxTodo, rxBuf>>
    BY <1>2, RxFrame
  <2>2. RxAll'
    BY <2>0, <2>1 DEF RxAll
  <2>3. UNCHANGED rxPend /\ (UNCHANGED rxEn \/ \E c \in Chan : Shutdown(c))
    BY <1>2, BitsFrame DEF BitsStep, RxStep, RxHandler, TxIrq, SendDataArm, RemoteRead, Shutdown,
       Disarm, rxSide, rxHw
  <2>4. ASSUME NEW c \in Chan, Shutdown(c)
        PROVE  RxInv'
    <3>1. /\ rxEn' = [rxEn EXCEPT ![c] = FALSE] /\ ctl' = [ctl EXCEPT ![c] = "sync"]
          /\ ctl[c] \in {"up", "failed"}
      BY <2>4 DEF Shutdown
    <3>2. ASSUME NEW d \in Chan
          PROVE  RxOne(d)'
      BY <2>0, <2>1, <2>3, <3>1 DEF RxOne, Draining
    <3> QED BY <2>2, <3>2
  <2>5. ASSUME NEW c \in Chan, SyncRx(c), UNCHANGED rxEn
        PROVE  RxInv'
    <3>1. rxPc = "idle" /\ ctl[c] = "sync" /\ \E v \in {"disarm", "last"} : ctl' = [ctl EXCEPT ![c] = v]
      BY <2>5 DEF SyncRx, RxHandlerDone, AfterSync
    <3>2. ASSUME NEW d \in Chan
          PROVE  RxOne(d)'
      BY <2>0, <2>1, <2>3, <2>5, <3>1 DEF RxOne, Draining, RxAll
    <3> QED BY <2>2, <3>2
  <2>6. ASSUME NEW c \in Chan, UNCHANGED rxEn,
               \/ Request(c) \/ TxIrqGet(c) \/ Disarm(c) \/ TxIrqPut(c) \/ TxIrqPutDone(c)
               \/ Free(c)
        PROVE  RxInv'
    <3>1. /\ ctl[c] \in {"down", "get", "disarm", "disarm again", "put", "wait", "free"}
          /\ \E v \in {"get", "drain", "failed", "put", "last", "wait", "disarm again", "down"} :
               ctl' = [ctl EXCEPT ![c] = v]
      BY <2>6 DEF Request, TxIrqGet, Disarm, TxIrqPut, TxIrqPutDone, Free, AfterPut
    <3>2. ASSUME NEW d \in Chan
          PROVE  RxOne(d)'
      BY <2>0, <2>1, <2>3, <2>6, <3>1 DEF RxOne, Draining
    <3> QED BY <2>2, <3>2
  <2>7. CASE UNCHANGED rxEn /\ UNCHANGED ctl
    <3>1. ASSUME NEW d \in Chan
          PROVE  RxOne(d)'
      BY <2>0, <2>1, <2>3, <2>7 DEF RxOne, Draining
    <3> QED BY <2>2, <3>1
  <2> QED BY <1>2, <2>3, <2>4, <2>5, <2>6, <2>7, CtlFrame DEF RxStep, RxHandler, Control
<1> QED BY <1>1, <1>2

LEMMA TypeRxStep ==
  ASSUME TypeOK, RxInv, [Next]_vars
  PROVE  TypeRx'
<1>0. /\ TypeRx /\ TypeBits /\ RxInv /\ MaxRx \in Nat /\ FifoMax \in Nat \ {0}
      /\ rxFifo \in [Chan -> Seq(1 .. MaxRx)] /\ rxBuf \in [Chan -> Seq(1 .. MaxRx)]
  BY TypeParts, MsgboxAssumption DEF TypeRx
<1>1. CASE UNCHANGED <<rxFifo, drain, rxPc, rxTodo, rxBuf, rxSent, rxGot>>
  BY <1>0, <1>1 DEF TypeRx
<1>2. ASSUME NEW c \in Chan, RemoteSend(c)
      PROVE  TypeRx'
  <2>1. UNCHANGED <<drain, rxPc, rxTodo, rxBuf, rxGot>>
    BY <1>2 DEF RemoteSend, rxIrq
  <2>2. rxSent[c] + 1 \in 1 .. MaxRx /\ Len(rxFifo[c]) < FifoMax
    BY <1>0, <1>2 DEF RemoteSend, TypeRx
  <2>3. /\ Append(rxFifo[c], rxSent[c] + 1) \in Seq(1 .. MaxRx)
        /\ Len(Append(rxFifo[c], rxSent[c] + 1)) <= FifoMax
    <3>1. rxFifo[c] \in Seq(1 .. MaxRx) /\ Len(rxFifo[c]) \in Nat
      BY <1>0
    <3> QED BY <1>0, <2>2, <3>1, AppendOne
  <2>4. rxFifo' \in [Chan -> Seq(1 .. MaxRx)] /\ \A d \in Chan : Len(rxFifo'[d]) <= FifoMax
    BY <1>0, <1>2, <2>3 DEF RemoteSend, TypeRx
  <2>5. rxSent' \in [Chan -> 0 .. MaxRx]
    BY <1>0, <1>2, <2>2 DEF RemoteSend, TypeRx
  <2> QED BY <1>0, <2>1, <2>4, <2>5 DEF TypeRx
<1>3. CASE RxIrq
  <2>1. UNCHANGED <<rxFifo, rxBuf, rxSent, rxGot>> /\ rxPc' = "drain"
    BY <1>3 DEF RxIrq, rxHw, ghosts, counts
  <2>2. rxTodo' \subseteq Chan /\ drain' \in DrainRec
    BY <1>3, DrainOfRec DEF RxIrq
  <2> QED BY <1>0, <2>1, <2>2 DEF TypeRx
<1>4. CASE DrainRead
  <2>0. drain # NoDrain /\ drain \in DrainRec
    BY <1>0, <1>4 DEF DrainRead, LockFree, TypeRx
  <2>1. UNCHANGED <<rxPc, rxTodo, rxSent, rxGot>>
    BY <1>4 DEF DrainRead, ghosts, counts
  <2>2. PICK c \in Chan : c = drain.chan
    BY <2>0 DEF DrainRec
  <2>3. CASE drain.n < FifoMax /\ rxFifo[c] # <<>>
    <3>1. drain' \in DrainRec
      BY <1>4, <2>0, <2>2, <2>3, DrainAdvance DEF DrainRead
    <3>2. /\ Head(rxFifo[c]) \in 1 .. MaxRx /\ Tail(rxFifo[c]) \in Seq(1 .. MaxRx)
          /\ Len(Tail(rxFifo[c])) <= FifoMax
      BY <1>0, <2>3, HeadTail DEF TypeRx
    <3>3. rxFifo' \in [Chan -> Seq(1 .. MaxRx)] /\ \A d \in Chan : Len(rxFifo'[d]) <= FifoMax
      BY <1>0, <1>4, <2>2, <2>3, <3>2 DEF DrainRead, TypeRx
    <3>4. rxBuf' \in [Chan -> Seq(1 .. MaxRx)] /\ \A d \in Chan : Len(rxBuf'[d]) <= FifoMax
      <4>1. CASE drain.by = "irq"
        <5>1. Len(rxBuf[c]) < FifoMax /\ rxBuf[c] \in Seq(1 .. MaxRx) /\ drain.n \in Nat
          BY <1>0, <2>0, <2>2, <2>3, <4>1 DEF RxInv, Draining, DrainRec
        <5>2. /\ Append(rxBuf[c], Head(rxFifo[c])) \in Seq(1 .. MaxRx)
              /\ Len(Append(rxBuf[c], Head(rxFifo[c]))) <= FifoMax
          BY <1>0, <3>2, <5>1, AppendOne
        <5> QED BY <1>0, <1>4, <2>2, <2>3, <4>1, <5>2 DEF DrainRead, TypeRx
      <4>2. CASE drain.by # "irq"
        BY <1>0, <1>4, <2>2, <2>3, <4>2 DEF DrainRead, TypeRx
      <4> QED BY <4>1, <4>2
    <3> QED BY <1>0, <2>1, <3>1, <3>3, <3>4 DEF TypeRx
  <2>4. CASE ~(drain.n < FifoMax /\ rxFifo[c] # <<>>)
    <3>1. drain' \in DrainRec /\ UNCHANGED <<rxFifo, rxBuf>>
      BY <1>4, <2>0, <2>2, <2>4, DrainAdvance DEF DrainRead
    <3> QED BY <1>0, <2>1, <3>1 DEF TypeRx
  <2> QED BY <2>3, <2>4
<1>5. CASE DrainAck
  <2>1. UNCHANGED <<rxFifo, rxBuf, rxSent, rxGot>>
    BY <1>5 DEF DrainAck, ghosts, counts
  <2>2. /\ drain' = NoDrain \/ drain' \in DrainRec
        /\ rxPc' \in {"idle", "drain", "deliver"} /\ rxTodo' \subseteq Chan
    <3>1. CASE drain.by = "irq" /\ rxTodo # {}
      <4>1. PICK e \in rxTodo : drain' = DrainOf("irq", e) /\ rxTodo' = rxTodo \ {e}
        BY <1>5, <3>1 DEF DrainAck
      <4> QED BY <1>0, <1>5, <3>1, <4>1, DrainOfRec DEF DrainAck, TypeRx
    <3>2. CASE drain.by # "irq" \/ rxTodo = {}
      BY <1>0, <1>5, <3>2 DEF DrainAck, TypeRx
    <3> QED BY <3>1, <3>2
  <2> QED BY <1>0, <2>1, <2>2 DEF TypeRx
<1>6. ASSUME NEW c \in Chan, RxDeliver(c)
      PROVE  TypeRx'
  <2>1. UNCHANGED <<rxFifo, rxPc, rxTodo, drain, rxSent>>
    BY <1>6 DEF RxDeliver, rxHw
  <2>2. /\ Head(rxBuf[c]) \in 1 .. MaxRx /\ Tail(rxBuf[c]) \in Seq(1 .. MaxRx)
        /\ Len(Tail(rxBuf[c])) <= FifoMax
    BY <1>0, <1>6, HeadTail DEF TypeRx, RxDeliver
  <2>3. rxBuf' \in [Chan -> Seq(1 .. MaxRx)] /\ \A d \in Chan : Len(rxBuf'[d]) <= FifoMax
    BY <1>0, <1>6, <2>2 DEF RxDeliver, TypeRx
  <2>4. rxGot' \in [Chan -> 0 .. MaxRx]
    BY <1>0, <1>6, <2>2 DEF RxDeliver, TypeRx
  <2> QED BY <1>0, <2>1, <2>3, <2>4 DEF TypeRx
<1>7. CASE RxReturn
  BY <1>0, <1>7 DEF RxReturn, TypeRx, rxHw, ghosts, counts
<1>8. ASSUME NEW c \in Chan, DropStale(c)
      PROVE  TypeRx'
  <2>1. drain' \in DrainRec
    BY <1>8, DrainOfRec DEF DropStale
  <2> QED BY <1>0, <1>8, <2>1 DEF DropStale, TypeRx, rxHw, rxIrq, ghosts, counts
<1> QED BY <1>1, <1>2, <1>3, <1>4, <1>5, <1>6, <1>7, <1>8, RxFrame DEF RxStep, RxHandler

-----------------------------------------------------------------------------
(* send_data() and who runs it *)

SubOne(c) ==
  /\ sub[c] # NoSub => /\ txDoneIrq = TRUE /\ queue[c] # <<>> /\ active[c] = None
                       /\ sub[c].by = "client" => cl[c] = "submit"
                       /\ sub[c].by = "tick" => tick[c] = "submit"
  /\ cl[c] # "idle" => ctl[c] = "up"

LEMMA SubParts == /\ SubInv <=> \A c \in Chan : SubOne(c)
                  /\ SubInv' <=> \A c \in Chan : SubOne(c)'
BY DEF SubInv, SubOne

LEMMA SubOneKept ==
  ASSUME NEW d \in Chan, SubOne(d), sub'[d] = sub[d], queue'[d] = queue[d],
         active'[d] = active[d], cl'[d] = cl[d], tick'[d] = tick[d], ctl'[d] = ctl[d],
         txDoneIrq' = txDoneIrq
  PROVE  SubOne(d)'
BY DEF SubOne

(* A channel with a client in the core stays up.                           *)
LEMMA ClientKeepsUp ==
  ASSUME TypeOK, SubInv, RxInv, [Next]_vars, NEW d \in Chan, cl[d] # "idle"
  PROVE  ctl'[d] = "up"
<1>0. ctl[d] = "up" /\ ctl \in [Chan -> CtlPcs] /\ (drain = NoDrain \/ drain \in DrainRec)
  BY TypeParts DEF SubInv, TypePc, TypeRx
<1>1. ASSUME NEW c \in Chan, Request(c) \/ Shutdown(c) \/ Control(c)
      PROVE  ctl'[d] = "up"
  <2>1. c # d
    BY <1>0, <1>1 DEF Request, Shutdown, Control, TxIrqGet, DropStale, SyncRx, Disarm, TxIrqPut,
       TxIrqPutDone, Free
  <2>2. \E v \in CtlPcs : ctl' = [ctl EXCEPT ![c] = v]
    BY <1>1 DEF CtlPcs, Request, Shutdown, Control, TxIrqGet, DropStale, SyncRx, Disarm, TxIrqPut,
       TxIrqPutDone, Free, AfterSync, AfterPut
  <2> QED BY <1>0, <2>1, <2>2
<1>2. CASE DrainAck
  <2>1. CASE drain.by = "irq"
    BY <1>0, <1>2, <2>1 DEF DrainAck
  <2>2. CASE drain.by # "irq"
    <3>1. /\ drain \in DrainRec /\ drain # NoDrain
          /\ \E v \in {"up", "free"} : ctl' = [ctl EXCEPT ![drain.chan] = v]
      BY <1>0, <1>2, <2>2 DEF DrainAck, LockFree
    <3>2. drain.chan \in Chan /\ drain.by \in {"start", "stop"}
      BY <2>2, <3>1 DEF DrainRec
    <3>3. ctl[drain.chan] \in {"starting", "stopping"}
      BY <3>1, <3>2 DEF RxInv, Draining
    <3> QED BY <1>0, <3>1, <3>2, <3>3
  <2> QED BY <2>1, <2>2
<1> QED BY <1>0, <1>1, <1>2, CtlFrame

LEMMA SubInvStep ==
  ASSUME TypeOK, SubInv, RxInv, [Next]_vars
  PROVE  SubInv'
<1> USE SubParts
<1>0. /\ TypePc /\ \A d \in Chan : SubOne(d)
      /\ cl \in [Chan -> {"idle", "submit", "etime"}] /\ sub \in [Chan -> {NoSub} \cup SubRec]
      /\ tick \in [Chan -> {"none", "poll", "clear", "submit"}]
      /\ queue \in [Chan -> Seq(1 .. MaxTx)] /\ active \in [Chan -> 0 .. MaxTx]
      /\ UNCHANGED txDoneIrq
  BY TypeParts, LineFrame DEF TypePc, TypeTx
<1>1. ASSUME NEW c \in Chan, CoreStep(c)
      PROVE  SubInv'
  <2>0. UNCHANGED ctl
    BY <1>1 DEF CoreStep, SendMessage, NothingToSubmit, SendData, SendDataArm, Timeout,
         TimeoutTick, TimerCheck, LastTxDone, TickClear
  <2>1. CASE SendMessage(c)
    <3>1. ctl[c] = "up" /\ sub[c] = NoSub /\ UNCHANGED <<active, sub, tick>>
      BY <2>1 DEF SendMessage, ChanLockFree
    <3>2. /\ cl' = [cl EXCEPT ![c] = "submit"]
          /\ queue' = [queue EXCEPT ![c] = Append(@, txSent[c] + 1)]
      BY <2>1 DEF SendMessage
    <3> QED BY <1>0, <2>0, <3>1, <3>2 DEF SubOne
  <2>2. ASSUME NEW by \in Threads, NothingToSubmit(c, by)
        PROVE  SubInv'
    <3>1. sub[c] = NoSub /\ UNCHANGED <<queue, active, sub>>
      BY <2>2 DEF NothingToSubmit, ChanLockFree
    <3>2. cl' = cl \/ cl' = [cl EXCEPT ![c] = "idle"]
      BY <2>2 DEF NothingToSubmit, Return
    <3>3. tick' = tick \/ tick' = [tick EXCEPT ![c] = "none"]
      BY <2>2 DEF NothingToSubmit, Return
    <3> QED BY <1>0, <2>0, <3>1, <3>2, <3>3 DEF SubOne
  <2>3. ASSUME NEW by \in Threads, SendData(c, by), txDoneIrq = TRUE
        PROVE  SubInv'
    <3>1. /\ sub' = [sub EXCEPT ![c] = [by |-> by, full |-> Refused(c)]]
          /\ UNCHANGED <<queue, active, cl, tick>> /\ Submitting(c, by) /\ CanSubmit(c)
      BY <2>3 DEF SendData
    <3>2. sub'[c].by = by
      BY <1>0, <3>1
    <3> QED BY <1>0, <2>0, <2>3, <3>1, <3>2 DEF SubOne, Submitting, CanSubmit, Threads
  <2>4. ASSUME NEW by \in Threads, SendData(c, by), txDoneIrq # TRUE
        PROVE  SubInv'
    <3>1. UNCHANGED sub /\ \A d \in Chan : sub[d] = NoSub
      BY <1>0, <2>4, TypeParts DEF SendData, SubOne, TypeLine
    <3>2. cl' = cl \/ cl' = [cl EXCEPT ![c] = "idle"]
      BY <2>4, TypeParts DEF SendData, Return, TypeLine
    <3> QED BY <1>0, <2>0, <3>1, <3>2 DEF SubOne
  <2>5. CASE SendDataArm(c)
    <3>1. sub' = [sub EXCEPT ![c] = NoSub]
      BY <2>5 DEF SendDataArm
    <3>2. /\ UNCHANGED <<queue, active>>
             \/ \E x, y : /\ queue' = [queue EXCEPT ![c] = x]
                          /\ active' = [active EXCEPT ![c] = y]
      BY <2>5 DEF SendDataArm, Accept
    <3>3. cl' = cl \/ cl' = [cl EXCEPT ![c] = "idle"]
      BY <2>5 DEF SendDataArm, Return
    <3>4. tick' = tick \/ tick' = [tick EXCEPT ![c] = "none"]
      BY <2>5 DEF SendDataArm, Return
    <3> QED BY <1>0, <2>0, <3>1, <3>2, <3>3, <3>4 DEF SubOne
  <2>6. CASE Timeout(c)
    <3>1. ctl[c] = "up" /\ cl[c] = "idle" /\ UNCHANGED <<queue, active, sub, tick>>
          /\ cl' = [cl EXCEPT ![c] = "etime"]
      BY <2>6 DEF Timeout
    <3> QED BY <1>0, <2>0, <3>1, TypeParts DEF SubOne, SubRec
  <2>7. CASE TimeoutTick(c)
    <3>1. cl[c] = "etime" /\ sub[c] = NoSub /\ UNCHANGED <<queue, sub, tick>>
          /\ cl' = [cl EXCEPT ![c] = "submit"] /\ active' = [active EXCEPT ![c] = None]
      BY <2>7 DEF TimeoutTick, ChanLockFree
    <3> QED BY <1>0, <2>0, <3>1 DEF SubOne
  <2>8. CASE TimerCheck(c) \/ LastTxDone(c)
    <3>1. UNCHANGED <<queue, active, sub, cl>> /\ tick[c] # "submit" /\ \E v : tick' = [tick EXCEPT ![c] = v]
      BY <2>8 DEF TimerCheck, LastTxDone, TxHandlerIdle
    <3> QED BY <1>0, <2>0, <3>1 DEF SubOne
  <2>9. CASE TickClear(c)
    <3>1. UNCHANGED <<queue, sub, cl>> /\ tick[c] = "clear" /\ sub[c] = NoSub
          /\ tick' = [tick EXCEPT ![c] = "submit"] /\ active' = [active EXCEPT ![c] = None]
      BY <2>9 DEF TickClear, ChanLockFree
    <3> QED BY <1>0, <2>0, <3>1 DEF SubOne
  <2> QED BY <1>1, <2>1, <2>2, <2>3, <2>4, <2>5, <2>6, <2>7, <2>8, <2>9 DEF CoreStep
<1>2. CASE TxIrq
  <2>1. UNCHANGED <<ctl, queue, active, sub, cl>> /\ \A d \in Chan : tick[d] = "none"
    BY <1>2 DEF TxIrq, TxHandlerIdle
  <2> QED BY <1>0, <2>1 DEF SubOne
<1>3. CASE UNCHANGED <<sub, cl, tick>>
  <2>1. \A d \in Chan : \/ queue'[d] = queue[d] /\ active'[d] = active[d]
                        \/ sub[d] = NoSub
    <3>1. CASE UNCHANGED <<txFifo, held, active, queue, txSent, txGot, base>>
      BY <3>1
    <3>2. ASSUME NEW c \in Chan, TxStep(c)
          PROVE  \A d \in Chan : \/ queue'[d] = queue[d] /\ active'[d] = active[d]
                                 \/ sub[d] = NoSub
      <4>1. CASE Request(c) \/ Free(c)
        BY <1>0, <4>1 DEF Request, Free, ChanLockFree
      <4>2. CASE SendMessage(c) \/ TimeoutTick(c) \/ TickClear(c)
        BY <1>0, <4>2 DEF SendMessage, TimeoutTick, TickClear, ChanLockFree
      <4>3. CASE RemoteRead(c) \/ LastTxDone(c) \/ Shutdown(c)
        BY <4>3 DEF RemoteRead, LastTxDone, Shutdown, txCore
      <4>4. ASSUME NEW by \in Threads, SendData(c, by)
            PROVE  \A d \in Chan : \/ queue'[d] = queue[d] /\ active'[d] = active[d]
                                   \/ sub[d] = NoSub
        BY <1>0, <4>4, TypeParts DEF SendData, Accept, ChanLockFree, TypeLine
      <4>5. CASE SendDataArm(c)
        <5>1. sub[c] # NoSub /\ sub'[c] = NoSub
          BY <1>0, <4>5 DEF SendDataArm, ChanLockFree
        <5> QED BY <1>3, <5>1
      <4> QED BY <3>2, <4>1, <4>2, <4>3, <4>4, <4>5 DEF TxStep
    <3> QED BY <3>1, <3>2, TxFrame
  <2> QED BY <1>0, <1>3, <2>1, ClientKeepsUp DEF SubOne
<1> QED BY <1>1, <1>2, <1>3, CoreFrame

-----------------------------------------------------------------------------
(* The TX-done line *)

LineOne(c) ==
  /\ irqHeld[c] = TRUE => ctl[c] \in {"drain", "starting", "up", "sync"}
  /\ txDoneIrq = TRUE /\ ctl[c] \in {"drain", "starting", "up"} => irqHeld[c] = TRUE
User(c) == irqHeld[c] = TRUE \/ ctl[c] \in {"disarm", "put"}

LEMMA LineParts ==
  /\ LineInv <=> users = Cardinality(Users) /\ \A c \in Chan : LineOne(c)
  /\ LineInv' <=> users' = Cardinality(Users') /\ \A c \in Chan : LineOne(c)'
  /\ Users = {c \in Chan : User(c)} /\ Users' = {c \in Chan : User(c)'}
BY DEF LineInv, LineOne, Users, User

(* One channel becomes a user, or stops being one.                         *)
LEMMA UsersCount ==
  ASSUME NEW U \in SUBSET Chan, NEW c \in Chan
  PROVE  /\ Cardinality(U) \in Nat
         /\ c \notin U => Cardinality(U \cup {c}) = Cardinality(U) + 1
         /\ c \in U => Cardinality(U \ {c}) = Cardinality(U) - 1
<1>1. IsFiniteSet(U)
  BY MsgboxAssumption, FS_Subset
<1> QED BY <1>1, FS_CardinalityType, FS_AddElement, FS_RemoveElement

(* Every step on a channel's ctl, but one, leaves the set of users alone.  *)
LEMMA LineInvStep ==
  ASSUME TypeOK, LineInv, RxInv, [Next]_vars
  PROVE  LineInv'
<1> USE LineParts
<1>0. /\ irqHeld \in [Chan -> BOOLEAN] /\ ctl \in [Chan -> CtlPcs] /\ UNCHANGED txDoneIrq
      /\ \A d \in Chan : LineOne(d)
      /\ users = Cardinality(Users) /\ (drain = NoDrain \/ drain \in DrainRec)
  BY TypeParts, LineFrame DEF TypePc, TypeLine, TypeRx
<1>1. ASSUME UNCHANGED users, \A d \in Chan : (User(d)' <=> User(d)) /\ LineOne(d)'
      PROVE  LineInv'
  BY <1>0, <1>1
<1>2. ASSUME NEW c \in Chan, TxIrqGet(c)
      PROVE  LineInv'
  <2>1. ctl[c] = "get" /\ irqHeld[c] = FALSE
    BY <1>0, <1>2 DEF TxIrqGet, LineOne
  <2>2. CASE /\ users' = users + 1 /\ irqHeld' = [irqHeld EXCEPT ![c] = TRUE]
             /\ ctl' = [ctl EXCEPT ![c] = "drain"]
    <3>1. Users' = Users \cup {c} /\ c \notin Users
      BY <1>0, <2>1, <2>2 DEF User
    <3>2. Users \in SUBSET Chan
      OBVIOUS
    <3>3. users' = Cardinality(Users')
      BY <1>0, <2>2, <3>1, <3>2, UsersCount
    <3>4. \A d \in Chan : LineOne(d)'
      BY <1>0, <2>2 DEF LineOne
    <3> QED BY <3>3, <3>4
  <2>3. CASE ctl' = [ctl EXCEPT ![c] = "failed"] /\ UNCHANGED <<users, irqHeld>>
    BY <1>0, <1>1, <2>1, <2>3 DEF LineOne, User
  <2> QED BY <1>2, <2>2, <2>3 DEF TxIrqGet
<1>3. ASSUME NEW c \in Chan, TxIrqPut(c)
      PROVE  LineInv'
  <2>1. /\ ctl[c] = "put" /\ ctl' = [ctl EXCEPT ![c] = "wait"]
        /\ users' = users - 1 /\ UNCHANGED irqHeld
    BY <1>3 DEF TxIrqPut
  <2>2. irqHeld[c] = FALSE
    BY <1>0, <2>1 DEF LineOne
  <2>3. Users' = Users \ {c} /\ c \in Users
    BY <1>0, <2>1, <2>2 DEF User
  <2>4. Users \in SUBSET Chan
    OBVIOUS
  <2>5. users' = Cardinality(Users')
    BY <1>0, <2>1, <2>3, <2>4, UsersCount
  <2>6. \A d \in Chan : LineOne(d)'
    BY <1>0, <2>1, <2>2 DEF LineOne
  <2> QED BY <2>5, <2>6
<1>4. ASSUME NEW c \in Chan, SyncRx(c)
      PROVE  LineInv'
  <2>1. /\ ctl[c] = "sync" /\ irqHeld' = [irqHeld EXCEPT ![c] = FALSE] /\ UNCHANGED users
        /\ ctl' = [ctl EXCEPT ![c] = IF irqHeld[c] THEN "disarm" ELSE "last"]
    BY <1>4 DEF SyncRx, AfterSync
  <2> QED BY <1>0, <1>1, <2>1 DEF LineOne, User
<1>5. ASSUME NEW c \in Chan, Request(c) \/ Shutdown(c) \/ DropStale(c) \/ Disarm(c)
                               \/ TxIrqPutDone(c) \/ Free(c)
      PROVE  LineInv'
  <2>0. UNCHANGED <<irqHeld, users>>
    BY <1>5 DEF Request, Shutdown, DropStale, Disarm, TxIrqPutDone, Free, line
  <2>1. CASE Request(c)
    BY <1>0, <1>1, <2>0, <2>1, TypeParts DEF Request, LineOne, User, TypeLine
  <2>2. CASE Shutdown(c)
    BY <1>0, <1>1, <2>0, <2>2 DEF Shutdown, LineOne, User
  <2>3. CASE DropStale(c)
    BY <1>0, <1>1, <2>0, <2>3 DEF DropStale, LineOne, User
  <2>4. CASE Disarm(c)
    BY <1>0, <1>1, <2>0, <2>4 DEF Disarm, LineOne, User
  <2>5. CASE TxIrqPutDone(c) \/ Free(c)
    BY <1>0, <1>1, <2>0, <2>5 DEF TxIrqPutDone, AfterPut, Free, LineOne, User
  <2> QED BY <1>5, <2>1, <2>2, <2>3, <2>4, <2>5
<1>6. CASE DrainAck
  <2>1. UNCHANGED <<irqHeld, users>>
    BY <1>6 DEF DrainAck, line
  <2>2. CASE drain.by = "irq"
    BY <1>0, <1>1, <1>6, <2>1, <2>2 DEF DrainAck, LineOne, User
  <2>3. CASE drain.by # "irq"
    <3>1. /\ drain \in DrainRec /\ drain # NoDrain
          /\ ctl' = [ctl EXCEPT ![drain.chan] = IF drain.by = "start" THEN "up" ELSE "free"]
      BY <1>0, <1>6, <2>3 DEF DrainAck, LockFree
    <3>2. PICK c \in Chan : c = drain.chan /\ drain.by \in {"start", "stop"}
      BY <2>3, <3>1 DEF DrainRec
    <3>3. ctl[c] = IF drain.by = "start" THEN "starting" ELSE "stopping"
      BY <3>1, <3>2 DEF RxInv, Draining
    <3> QED BY <1>0, <1>1, <2>1, <3>1, <3>2, <3>3 DEF LineOne, User
  <2> QED BY <2>2, <2>3
<1>7. CASE UNCHANGED <<ctl, irqHeld, users>>
  BY <1>0, <1>1, <1>7 DEF LineOne, User
<1>8. ASSUME NEW c \in Chan, Timeout(c)
      PROVE  LineInv'
  BY <1>7, <1>8 DEF Timeout, line
<1> QED BY <1>2, <1>3, <1>4, <1>5, <1>6, <1>7, <1>8, CtlFrame, LineFrame DEF LineStep, Control

(* The users counted, while a channel is started.                          *)
LEMMA UsersFromLine == LineInv /\ TypeOK => UsersAreStarted
<1> SUFFICES ASSUME LineInv, TypeOK
             PROVE  UsersAreStarted
  OBVIOUS
<1>1. irqHeld \in [Chan -> BOOLEAN] /\ txDoneIrq \in BOOLEAN
  BY TypeParts DEF TypeLine
<1>2. Users = {c \in Chan : irqHeld[c] \/ ctl[c] \in {"disarm", "put"}}
  BY <1>1 DEF Users
<1> QED BY <1>1, <1>2 DEF LineInv, UsersAreStarted

-----------------------------------------------------------------------------
(* The order of the messages: what each step does to Ordered.              *)

(* A larger element at the end.                                            *)
LEMMA AppendKeeps ==
  ASSUME NEW M \in Nat, NEW f \in Seq(1 .. M), NEW e \in 1 .. M
  PROVE  /\ Rising(f) /\ Under(f, e) => Rising(Append(f, e))
         /\ \A x \in 0 .. M, k \in {1, 2} :
              Above(x, f, k) /\ x < e => Above(x, Append(f, e), k)
         /\ \A x \in Int : Under(f, x) /\ e < x => Under(Append(f, e), x)
<1> DEFINE p == Append(f, e)
<1>1. Len(p) = Len(f) + 1 /\ p[Len(f) + 1] = e /\ \A i \in 1 .. Len(f) : p[i] = f[i]
  BY AppendOne
<1>2. Len(f) \in Nat /\ \A i \in 1 .. Len(f) : f[i] \in 1 .. M
  OBVIOUS
<1> HIDE DEF p
<1>3. \A i \in 1 .. Len(p) : i \in 1 .. Len(f) \/ i = Len(f) + 1
  BY <1>1, <1>2
<1>4. ASSUME Rising(f), Under(f, e)
      PROVE  Rising(p)
  <2> SUFFICES ASSUME NEW i \in 1 .. Len(p), NEW j \in 1 .. Len(p), i < j
               PROVE  p[i] < p[j]
    BY DEF Rising
  <2>1. i \in 1 .. Len(f) /\ p[i] = f[i]
    BY <1>1, <1>2, <1>3
  <2>2. CASE j \in 1 .. Len(f)
    BY <1>1, <1>4, <2>1, <2>2 DEF Rising
  <2>3. CASE j = Len(f) + 1
    BY <1>1, <1>4, <2>1, <2>3 DEF Under
  <2> QED BY <1>3, <2>2, <2>3
<1>5. \A x \in 0 .. M, k \in {1, 2} : Above(x, f, k) /\ x < e => Above(x, p, k)
  BY <1>1, <1>2, <1>3 DEF Above
<1>6. \A x \in Int : Under(f, x) /\ e < x => Under(p, x)
  BY <1>1, <1>2, <1>3 DEF Under
<1> QED BY <1>4, <1>5, <1>6 DEF p

LEMMA AppendApart ==
  ASSUME NEW M \in Nat, NEW f \in Seq(1 .. M), NEW q \in Seq(1 .. M), NEW e \in 1 .. M,
         NEW k \in {1, 2}, Apart(f, q, k)
  PROVE  /\ Above(e, q, k) => Apart(Append(f, e), q, k)
         /\ Under(f, e) => Apart(f, Append(q, e), k)
<1>1. /\ Len(Append(f, e)) = Len(f) + 1 /\ Append(f, e)[Len(f) + 1] = e
      /\ \A i \in 1 .. Len(f) : Append(f, e)[i] = f[i]
  BY AppendOne
<1>2. /\ Len(Append(q, e)) = Len(q) + 1 /\ Append(q, e)[Len(q) + 1] = e
      /\ \A i \in 1 .. Len(q) : Append(q, e)[i] = q[i]
  BY AppendOne
<1>3. Len(f) \in Nat /\ Len(q) \in Nat
  OBVIOUS
<1>4. Above(e, q, k) => Apart(Append(f, e), q, k)
  BY <1>1, <1>3 DEF Apart, Above
<1>5. Under(f, e) => Apart(f, Append(q, e), k)
  BY <1>2, <1>3 DEF Apart, Under
<1> QED BY <1>4, <1>5

(* Without the first element.                                              *)
LEMMA TailKeeps ==
  ASSUME NEW M \in Nat, NEW f \in Seq(1 .. M), f # <<>>
  PROVE  /\ Rising(f) => /\ Rising(Tail(f)) /\ Above(Head(f), Tail(f), 1)
                         /\ Above(Head(f), f, 2)
         /\ \A x : \A k \in {1, 2} : Above(x, f, k) => Above(x, Tail(f), 1)
         /\ \A x : Under(f, x) => Under(Tail(f), x)
<1> DEFINE p == Tail(f)
<1>1. /\ Head(f) = f[1] /\ Len(f) \in Nat \ {0} /\ Len(p) = Len(f) - 1
      /\ \A i \in 1 .. Len(f) - 1 : p[i] = f[i + 1]
  BY HeadTail
<1> HIDE DEF p
<1>2. \A i \in 1 .. Len(p) : p[i] = f[i + 1] /\ i + 1 \in 2 .. Len(f) /\ i + 1 \in 1 .. Len(f)
  BY <1>1
<1>3. ASSUME Rising(f)
      PROVE  Rising(p) /\ Above(f[1], p, 1) /\ Above(f[1], f, 2)
  <2>1. ASSUME NEW i \in 1 .. Len(p), NEW j \in 1 .. Len(p), i < j
        PROVE  p[i] < p[j]
    <3>1. i + 1 < j + 1 /\ i + 1 \in 1 .. Len(f) /\ j + 1 \in 1 .. Len(f)
      BY <1>1, <1>2, <2>1
    <3> QED BY <1>2, <1>3, <3>1 DEF Rising
  <2>2. Above(f[1], f, 2)
    BY <1>1, <1>3 DEF Rising, Above
  <2>3. Above(f[1], p, 1)
    BY <1>2, <2>2 DEF Above
  <2> QED BY <2>1, <2>2, <2>3 DEF Rising
<1>4. \A x : \A k \in {1, 2} : Above(x, f, k) => Above(x, p, 1)
  BY <1>1, <1>2 DEF Above
<1>5. \A x : Under(f, x) => Under(p, x)
  BY <1>1, <1>2 DEF Under
<1> QED BY <1>1, <1>3, <1>4, <1>5 DEF p

LEMMA TailApart ==
  ASSUME NEW M \in Nat, NEW f \in Seq(1 .. M), NEW q \in Seq(1 .. M), NEW k \in {1, 2},
         Apart(f, q, k)
  PROVE  /\ f # <<>> => Apart(Tail(f), q, k) /\ Above(Head(f), q, k)
         /\ q # <<>> => Apart(f, Tail(q), 1)
         /\ q # <<>> /\ k = 1 => Under(f, Head(q)) /\ Apart(f, q, 2)
<1>1. ASSUME f # <<>>
      PROVE  Apart(Tail(f), q, k) /\ Above(Head(f), q, k)
  <2>1. /\ Head(f) = f[1] /\ Len(f) \in Nat \ {0} /\ Len(Tail(f)) = Len(f) - 1
        /\ \A i \in 1 .. Len(f) - 1 : Tail(f)[i] = f[i + 1]
    BY <1>1, HeadTail
  <2>2. Apart(Tail(f), q, k)
    BY <2>1 DEF Apart
  <2>3. Above(Head(f), q, k)
    BY <2>1 DEF Apart, Above
  <2> QED BY <2>2, <2>3
<1>2. ASSUME q # <<>>
      PROVE  Apart(f, Tail(q), 1) /\ (k = 1 => Under(f, Head(q)) /\ Apart(f, q, 2))
  <2>1. /\ Head(q) = q[1] /\ Len(q) \in Nat \ {0} /\ Len(Tail(q)) = Len(q) - 1
        /\ \A i \in 1 .. Len(q) - 1 : Tail(q)[i] = q[i + 1]
    BY <1>2, HeadTail
  <2>2. Apart(f, Tail(q), 1)
    BY <2>1 DEF Apart
  <2>3. k = 1 => Under(f, Head(q)) /\ Apart(f, q, 2)
    BY <2>1 DEF Apart, Under
  <2> QED BY <2>2, <2>3
<1> QED BY <1>1, <1>2

(* One more message is queued.                                             *)
LEMMA OrderedSend ==
  ASSUME NEW M \in Nat, NEW f \in Seq(1 .. M), NEW q \in Seq(1 .. M), NEW h \in 0 .. M,
         NEW k \in {1, 2}, NEW g \in 0 .. M, NEW s \in 0 .. M,
         Ordered(f, h, q, k, g, s), s + 1 \in 1 .. M
  PROVE  Ordered(f, h, Append(q, s + 1), k, g, s + 1)
<1>1. Under(f, s + 2) /\ Under(q, s + 2)
  <2>1. Under(f, s + 1) /\ Under(q, s + 1)
    BY DEF Ordered
  <2>2. ASSUME NEW e \in 1 .. M, e < s + 1 PROVE e < s + 2
    BY <2>2
  <2>3. /\ \A j \in 1 .. Len(f) : f[j] \in 1 .. M
        /\ \A j \in 1 .. Len(q) : q[j] \in 1 .. M
    OBVIOUS
  <2> QED BY <2>1, <2>2, <2>3 DEF Under
<1>2. /\ Rising(Append(q, s + 1)) /\ Above(g, Append(q, s + 1), k)
      /\ Under(Append(q, s + 1), s + 2)
  BY <1>1, AppendKeeps DEF Ordered
<1>3. Apart(f, Append(q, s + 1), k)
  BY AppendApart DEF Ordered
<1>4. h # None => Above(h, Append(q, s + 1), k)
  BY AppendKeeps DEF Ordered
<1> QED BY <1>1, <1>2, <1>3, <1>4 DEF Ordered

(* The head of the queue is written behind the FIFO's contents.            *)
LEMMA OrderedWrite ==
  ASSUME NEW M \in Nat, NEW f \in Seq(1 .. M), NEW q \in Seq(1 .. M), NEW h \in 0 .. M,
         NEW g \in 0 .. M, NEW s \in 0 .. M, Ordered(f, h, q, 1, g, s), q # <<>>
  PROVE  Ordered(Append(f, Head(q)), None, q, 2, g, s)
<1>1. /\ Head(q) = q[1] /\ Head(q) \in 1 .. M /\ Len(q) \in Nat \ {0}
      /\ g < Head(q) /\ Head(q) < s + 1 /\ Above(g, q, 2)
  BY HeadTail DEF Ordered, Above, Under
<1>2. Apart(f, q, 2) /\ Under(f, Head(q)) /\ Above(Head(q), q, 2)
  BY TailApart, TailKeeps DEF Ordered
<1>3. /\ Rising(Append(f, Head(q))) /\ Above(g, Append(f, Head(q)), 1)
      /\ Under(Append(f, Head(q)), s + 1)
  BY <1>1, <1>2, AppendKeeps DEF Ordered
<1>4. Apart(Append(f, Head(q)), q, 2)
  BY <1>1, <1>2, AppendApart
<1> QED BY <1>1, <1>3, <1>4 DEF Ordered

(* The core takes the head, which was written, off its queue.              *)
LEMMA OrderedAccept ==
  ASSUME NEW M \in Nat, NEW f \in Seq(1 .. M), NEW q \in Seq(1 .. M), NEW h \in 0 .. M,
         NEW g \in 0 .. M, NEW s \in 0 .. M, Ordered(f, h, q, 2, g, s), q # <<>>
  PROVE  Ordered(f, h, Tail(q), 1, g, s)
<1>1. /\ Rising(Tail(q)) /\ Above(g, Tail(q), 1) /\ Under(Tail(q), s + 1)
      /\ Apart(f, Tail(q), 1) /\ (h # None => Above(h, Tail(q), 1))
  BY TailKeeps, TailApart DEF Ordered
<1> QED BY <1>1 DEF Ordered

(* The head is held for a full FIFO; the core takes it off its queue.      *)
LEMMA OrderedHold ==
  ASSUME NEW M \in Nat, NEW f \in Seq(1 .. M), NEW q \in Seq(1 .. M), NEW h \in 0 .. M,
         NEW g \in 0 .. M, NEW s \in 0 .. M, Ordered(f, h, q, 1, g, s), q # <<>>
  PROVE  Ordered(f, Head(q), Tail(q), 1, g, s)
<1>1. /\ Head(q) = q[1] /\ Head(q) \in 1 .. M /\ Len(q) \in Nat \ {0}
      /\ g < Head(q) /\ Head(q) <= s
  BY HeadTail DEF Ordered, Above, Under
<1>2. /\ Rising(Tail(q)) /\ Above(g, Tail(q), 1) /\ Under(Tail(q), s + 1)
      /\ Apart(f, Tail(q), 1) /\ Under(f, Head(q)) /\ Above(Head(q), Tail(q), 1)
  BY TailKeeps, TailApart DEF Ordered
<1> QED BY <1>1, <1>2 DEF Ordered

(* The held message is written.                                            *)
LEMMA OrderedWriteHeld ==
  ASSUME NEW M \in Nat, NEW f \in Seq(1 .. M), NEW q \in Seq(1 .. M), NEW h \in 1 .. M,
         NEW k \in {1, 2}, NEW g \in 0 .. M, NEW s \in 0 .. M, Ordered(f, h, q, k, g, s)
  PROVE  Ordered(Append(f, h), None, q, k, g, s)
<1>1. h # None /\ h < s + 1 /\ Under(f, h) /\ Above(h, q, k) /\ g < h
  BY DEF Ordered, None
<1>2. /\ Rising(Append(f, h)) /\ Above(g, Append(f, h), 1) /\ Under(Append(f, h), s + 1)
      /\ Apart(Append(f, h), q, k)
  BY <1>1, AppendKeeps, AppendApart DEF Ordered
<1> QED BY <1>2 DEF Ordered

(* The remote reads the oldest message.                                    *)
LEMMA OrderedRead ==
  ASSUME NEW M \in Nat, NEW f \in Seq(1 .. M), NEW q \in Seq(1 .. M), NEW h \in 0 .. M,
         NEW k \in {1, 2}, NEW g \in 0 .. M, NEW s \in 0 .. M,
         Ordered(f, h, q, k, g, s), f # <<>>
  PROVE  Ordered(Tail(f), h, q, k, Head(f), s)
<1>0. Head(f) = f[1] /\ Head(f) \in 1 .. M /\ 1 \in 1 .. Len(f)
  BY HeadTail
<1>1. Head(f) <= s /\ (h # None => Head(f) < h)
  BY <1>0 DEF Ordered, Under
<1>2. /\ Rising(Tail(f)) /\ Above(Head(f), Tail(f), 1) /\ Under(Tail(f), s + 1)
      /\ (h # None => Under(Tail(f), h)) /\ Apart(Tail(f), q, k) /\ Above(Head(f), q, k)
  BY TailKeeps, TailApart DEF Ordered
<1> QED BY <1>0, <1>1, <1>2 DEF Ordered

(* The held message goes; the queue is emptied.                            *)
LEMMA OrderedDrop ==
  ASSUME NEW f, NEW q, NEW h, NEW k \in {1, 2}, NEW g, NEW s, Ordered(f, h, q, k, g, s)
  PROVE  Ordered(f, None, q, k, g, s) /\ Ordered(f, h, <<>>, 1, g, s)
<1>1. Rising(<<>>) /\ Above(g, <<>>, 1) /\ Above(h, <<>>, 1) /\ Under(<<>>, s + 1)
      /\ Apart(f, <<>>, 1)
  BY DEF Rising, Above, Under, Apart
<1> QED BY <1>1 DEF Ordered

(* A message that was somewhere still is, unless it was the one dropped.   *)
LEMMA StaysQueued ==
  ASSUME NEW M \in Nat, NEW f \in Seq(1 .. M), NEW q \in Seq(1 .. M), NEW h \in 0 .. M,
         NEW k \in {1, 2}, NEW g \in 0 .. M, NEW m \in 1 .. M, NEW e \in 1 .. M,
         Somewhere(m, f, h, q, k, g) \/ (m = e /\ Len(q) + 1 >= k)
  PROVE  Somewhere(m, f, h, Append(q, e), k, g)
<1> DEFINE p == Append(q, e)
<1>1. Len(p) = Len(q) + 1 /\ p[Len(q) + 1] = e /\ \A i \in 1 .. Len(q) : p[i] = q[i]
  BY AppendOne
<1>2. Len(q) \in Nat
  OBVIOUS
<1> HIDE DEF p
<1>3. \A j \in k .. Len(q) : p[j] = q[j] /\ j \in k .. Len(p)
  BY <1>1, <1>2
<1>4. Somewhere(m, f, h, p, k, g)
  BY <1>1, <1>2, <1>3 DEF Somewhere
<1> QED BY <1>4 DEF p

LEMMA StaysWritten ==
  ASSUME NEW M \in Nat, NEW f \in Seq(1 .. M), NEW q \in Seq(1 .. M), NEW h \in 0 .. M,
         NEW g \in 0 .. M, NEW m \in 1 .. M, Somewhere(m, f, h, q, 1, g), q # <<>>, m # h
  PROVE  /\ Somewhere(m, Append(f, Head(q)), None, q, 2, g)
         /\ Somewhere(m, Append(f, Head(q)), None, Tail(q), 1, g)
         /\ Somewhere(m, f, Head(q), Tail(q), 1, g)
<1> DEFINE p == Append(f, Head(q))
           t == Tail(q)
<1>1. /\ Head(q) = q[1] /\ Head(q) \in 1 .. M /\ Len(q) \in Nat \ {0} /\ Len(t) = Len(q) - 1
      /\ \A i \in 1 .. Len(q) - 1 : t[i] = q[i + 1]
  BY HeadTail
<1>2. /\ Len(p) = Len(f) + 1 /\ p[Len(f) + 1] = q[1]
      /\ \A i \in 1 .. Len(f) : p[i] = f[i]
  BY <1>1, AppendOne
<1>3. Len(f) \in Nat
  OBVIOUS
<1> HIDE DEF p, t
<1>4. CASE m <= g
  BY <1>1, <1>4 DEF Somewhere, p, t
<1>5. ASSUME NEW i \in 1 .. Len(f), f[i] = m
      PROVE  /\ Somewhere(m, p, None, q, 2, g) /\ Somewhere(m, p, None, t, 1, g)
             /\ Somewhere(m, f, q[1], t, 1, g)
  <2>1. i \in 1 .. Len(p) /\ p[i] = m
    BY <1>2, <1>3, <1>5
  <2> QED BY <1>5, <2>1 DEF Somewhere
<1>6. ASSUME NEW j \in 1 .. Len(q), q[j] = m
      PROVE  /\ Somewhere(m, p, None, q, 2, g) /\ Somewhere(m, p, None, t, 1, g)
             /\ Somewhere(m, f, q[1], t, 1, g)
  <2>1. CASE j = 1
    <3>1. Len(f) + 1 \in 1 .. Len(p) /\ p[Len(f) + 1] = m /\ q[1] = m
      BY <1>2, <1>3, <1>6, <2>1
    <3> QED BY <3>1 DEF Somewhere
  <2>2. CASE j # 1
    <3>1. j \in 2 .. Len(q) /\ j - 1 \in 1 .. Len(t) /\ t[j - 1] = q[(j - 1) + 1] /\ (j - 1) + 1 = j
      BY <1>1, <2>2
    <3>2. t[j - 1] = m
      BY <1>6, <3>1
    <3> QED BY <1>6, <3>1, <3>2 DEF Somewhere
  <2> QED BY <2>1, <2>2
<1>7. \/ m <= g \/ (\E i \in 1 .. Len(f) : f[i] = m) \/ (\E j \in 1 .. Len(q) : q[j] = m)
  BY DEF Somewhere
<1>8. /\ Somewhere(m, p, None, q, 2, g) /\ Somewhere(m, p, None, t, 1, g)
      /\ Somewhere(m, f, q[1], t, 1, g)
  BY <1>4, <1>5, <1>6, <1>7 DEF Somewhere
<1> QED BY <1>1, <1>8 DEF p, t

LEMMA StaysAccepted ==
  ASSUME NEW M \in Nat, NEW f \in Seq(1 .. M), NEW q \in Seq(1 .. M), NEW h \in 0 .. M,
         NEW g \in 0 .. M, NEW m \in 1 .. M, Somewhere(m, f, h, q, 2, g), q # <<>>
  PROVE  Somewhere(m, f, h, Tail(q), 1, g)
<1> DEFINE t == Tail(q)
<1>1. /\ Len(q) \in Nat \ {0} /\ Len(t) = Len(q) - 1
      /\ \A i \in 1 .. Len(q) - 1 : t[i] = q[i + 1]
  BY HeadTail
<1> HIDE DEF t
<1>2. ASSUME NEW j \in 2 .. Len(q), q[j] = m
      PROVE  Somewhere(m, f, h, t, 1, g)
  <2>1. j - 1 \in 1 .. Len(t) /\ t[j - 1] = q[(j - 1) + 1] /\ (j - 1) + 1 = j
    BY <1>1
  <2>2. t[j - 1] = m
    BY <1>2, <2>1
  <2> QED BY <2>1, <2>2 DEF Somewhere
<1>3. Somewhere(m, f, h, t, 1, g)
  BY <1>2 DEF Somewhere
<1> QED BY <1>3 DEF t

LEMMA StaysWriteHeld ==
  ASSUME NEW M \in Nat, NEW f \in Seq(1 .. M), NEW q, NEW h \in 1 .. M,
         NEW k, NEW g, NEW m \in 1 .. M, Somewhere(m, f, h, q, k, g)
  PROVE  Somewhere(m, Append(f, h), None, q, k, g)
<1> DEFINE p == Append(f, h)
<1>1. Len(p) = Len(f) + 1 /\ p[Len(f) + 1] = h /\ \A i \in 1 .. Len(f) : p[i] = f[i]
  BY AppendOne
<1>2. Len(f) \in Nat
  OBVIOUS
<1> HIDE DEF p
<1>3. Len(f) + 1 \in 1 .. Len(p) /\ \A i \in 1 .. Len(f) : i \in 1 .. Len(p)
  BY <1>1, <1>2
<1>4. Somewhere(m, p, None, q, k, g)
  BY <1>1, <1>3 DEF Somewhere
<1> QED BY <1>4 DEF p

LEMMA StaysRead ==
  ASSUME NEW M \in Nat, NEW f \in Seq(1 .. M), NEW q, NEW h, NEW k, NEW g \in 0 .. M,
         NEW m \in 1 .. M, Somewhere(m, f, h, q, k, g), f # <<>>, Above(g, f, 1)
  PROVE  Somewhere(m, Tail(f), h, q, k, Head(f))
<1> DEFINE t == Tail(f)
<1>1. /\ Head(f) = f[1] /\ Head(f) \in 1 .. M /\ Len(f) \in Nat \ {0} /\ Len(t) = Len(f) - 1
      /\ \A i \in 1 .. Len(f) - 1 : t[i] = f[i + 1]
  BY HeadTail
<1> HIDE DEF t
<1>2. g < f[1]
  BY <1>1 DEF Above
<1>3. ASSUME NEW i \in 1 .. Len(f), f[i] = m
      PROVE  Somewhere(m, t, h, q, k, f[1])
  <2>1. CASE i = 1
    BY <1>1, <1>3, <2>1 DEF Somewhere
  <2>2. CASE i # 1
    <3>1. i - 1 \in 1 .. Len(t) /\ t[i - 1] = f[(i - 1) + 1] /\ (i - 1) + 1 = i
      BY <1>1, <2>2
    <3>2. t[i - 1] = m
      BY <1>3, <3>1
    <3> QED BY <3>1, <3>2 DEF Somewhere
  <2> QED BY <2>1, <2>2
<1>4. m <= g => m <= f[1]
  BY <1>1, <1>2
<1>5. Somewhere(m, t, h, q, k, f[1])
  BY <1>3, <1>4 DEF Somewhere
<1> QED BY <1>1, <1>5 DEF t

(* What a step does to the messages of a channel.                          *)
Effect(c, f, h, q, k, g, s) ==
  /\ txFifo'[c] = f /\ held'[c] = h /\ queue'[c] = q /\ First(c)' = k
  /\ txGot'[c] = g /\ txSent'[c] = s
Unaffected(c) ==
  /\ Effect(c, txFifo[c], held[c], queue[c], First(c), txGot[c], txSent[c])
  /\ active'[c] = active[c] /\ base'[c] = base[c]

LEMMA SubFrame ==
  ASSUME [Next]_vars
  PROVE  \/ UNCHANGED sub
         \/ \E c \in Chan : SendDataArm(c) \/ \E by \in Threads : SendData(c, by)
BY CoreFrame DEF CoreStep, TxIrq, SendMessage, NothingToSubmit, Timeout, TimeoutTick, TimerCheck,
   LastTxDone, TickClear

(* A step of one channel leaves the others alone.                          *)
LEMMA OthersUnaffected ==
  ASSUME TypeOK, NEW c \in Chan, TxStep(c), NEW d \in Chan, d # c
  PROVE  Unaffected(d)
<1>0. /\ txFifo \in [Chan -> Seq(1 .. MaxTx)] /\ held \in [Chan -> 0 .. MaxTx]
      /\ active \in [Chan -> 0 .. MaxTx] /\ queue \in [Chan -> Seq(1 .. MaxTx)]
      /\ txSent \in [Chan -> 0 .. MaxTx] /\ txGot \in [Chan -> 0 .. MaxTx]
      /\ base \in [Chan -> 0 .. MaxTx] /\ sub \in [Chan -> {NoSub} \cup SubRec]
  BY TypeParts DEF TypeTx, TypePc
<1> USE <1>0 DEF Unaffected, Effect, First
<1>1. CASE SendMessage(c) \/ RemoteRead(c)
  BY <1>1 DEF SendMessage, RemoteRead, txHw, txCore
<1>2. CASE TimeoutTick(c) \/ TickClear(c) \/ LastTxDone(c)
  BY <1>2 DEF TimeoutTick, TickClear, LastTxDone, txHw, ghosts, counts
<1>3. CASE Request(c) \/ Shutdown(c) \/ Free(c)
  BY <1>3 DEF Request, Shutdown, Free, txHw, txCore, ghosts, counts
<1>4. CASE SendDataArm(c)
  BY <1>4 DEF SendDataArm, Accept, ghosts, counts
<1>5. ASSUME NEW by \in Threads, SendData(c, by)
      PROVE  Unaffected(d)
  BY <1>5, TypeParts DEF SendData, Accept, ghosts, counts, TypeLine
<1> QED BY <1>1, <1>2, <1>3, <1>4, <1>5 DEF TxStep

(* What each step does to the messages of its own channel.                 *)
LEMMA SendEffects ==
  ASSUME TypeOK, SubInv, NEW c \in Chan
  PROVE  /\ SendMessage(c) =>
              /\ Effect(c, txFifo[c], held[c], Append(queue[c], txSent[c] + 1), First(c),
                        txGot[c], txSent[c] + 1)
              /\ active'[c] = active[c] /\ base'[c] = base[c] /\ First(c) = 1
         /\ \A by \in Threads : SendData(c, by) =>
              /\ First(c) = 1 /\ queue[c] # <<>> /\ active[c] = None /\ base'[c] = base[c]
              /\ \/ /\ txDoneIrq = TRUE /\ Full(c) /\ active'[c] = None
                    /\ Effect(c, txFifo[c], None, queue[c], 1, txGot[c], txSent[c])
                 \/ /\ txDoneIrq = TRUE /\ ~Full(c) /\ active'[c] = None
                    /\ Effect(c, Append(txFifo[c], Head(queue[c])), None, queue[c], 2,
                              txGot[c], txSent[c])
                 \/ /\ txDoneIrq = FALSE /\ Full(c) /\ active'[c] = Head(queue[c])
                    /\ Effect(c, txFifo[c], Head(queue[c]), Tail(queue[c]), 1,
                              txGot[c], txSent[c])
                 \/ /\ txDoneIrq = FALSE /\ ~Full(c) /\ active'[c] = Head(queue[c])
                    /\ Effect(c, Append(txFifo[c], Head(queue[c])), None, Tail(queue[c]), 1,
                              txGot[c], txSent[c])
         /\ SendDataArm(c) =>
              /\ queue[c] # <<>> /\ active[c] = None /\ txDoneIrq = TRUE /\ base'[c] = base[c]
              /\ \/ /\ First(c) = 1 /\ active'[c] = None
                    /\ Effect(c, txFifo[c], held[c], queue[c], 1, txGot[c], txSent[c])
                 \/ /\ First(c) = 2 /\ active'[c] = Head(queue[c])
                    /\ Effect(c, txFifo[c], held[c], Tail(queue[c]), 1, txGot[c], txSent[c])
<1>0. /\ txFifo \in [Chan -> Seq(1 .. MaxTx)] /\ held \in [Chan -> 0 .. MaxTx]
      /\ active \in [Chan -> 0 .. MaxTx] /\ queue \in [Chan -> Seq(1 .. MaxTx)]
      /\ txSent \in [Chan -> 0 .. MaxTx] /\ txGot \in [Chan -> 0 .. MaxTx]
      /\ base \in [Chan -> 0 .. MaxTx] /\ sub \in [Chan -> {NoSub} \cup SubRec]
      /\ txDoneIrq \in BOOLEAN
  BY TypeParts DEF TypeTx, TypePc, TypeLine
<1>1. ASSUME SendMessage(c)
      PROVE  /\ Effect(c, txFifo[c], held[c], Append(queue[c], txSent[c] + 1), First(c),
                       txGot[c], txSent[c] + 1)
             /\ active'[c] = active[c] /\ base'[c] = base[c] /\ First(c) = 1
  BY <1>0, <1>1 DEF SendMessage, Effect, First, txHw, ChanLockFree
<1>2. ASSUME NEW by \in Threads, SendData(c, by)
      PROVE  /\ First(c) = 1 /\ queue[c] # <<>> /\ active[c] = None /\ base'[c] = base[c]
             /\ \/ /\ txDoneIrq = TRUE /\ Full(c) /\ active'[c] = None
                   /\ Effect(c, txFifo[c], None, queue[c], 1, txGot[c], txSent[c])
                \/ /\ txDoneIrq = TRUE /\ ~Full(c) /\ active'[c] = None
                   /\ Effect(c, Append(txFifo[c], Head(queue[c])), None, queue[c], 2,
                             txGot[c], txSent[c])
                \/ /\ txDoneIrq = FALSE /\ Full(c) /\ active'[c] = Head(queue[c])
                   /\ Effect(c, txFifo[c], Head(queue[c]), Tail(queue[c]), 1,
                             txGot[c], txSent[c])
                \/ /\ txDoneIrq = FALSE /\ ~Full(c) /\ active'[c] = Head(queue[c])
                   /\ Effect(c, Append(txFifo[c], Head(queue[c])), None, Tail(queue[c]), 1,
                             txGot[c], txSent[c])
  <2>1. /\ sub[c] = NoSub /\ First(c) = 1 /\ queue[c] # <<>> /\ active[c] = None
        /\ UNCHANGED <<txGot, txSent, base>>
    BY <1>2 DEF SendData, First, ChanLockFree, CanSubmit, ghosts, counts
  <2>2. held'[c] = HeldAfterSend(c) /\ txFifo'[c] = IF Full(c) THEN txFifo[c]
                                                   ELSE Append(txFifo[c], Head(queue[c]))
    BY <1>0, <1>2 DEF SendData
  <2>3. CASE txDoneIrq = TRUE
    <3>1. /\ UNCHANGED <<queue, active>>
          /\ sub'[c] = [by |-> by, full |-> Refused(c)] /\ held'[c] = None
      BY <1>0, <1>2, <2>2, <2>3 DEF SendData, HeldAfterSend
    <3>2. sub'[c] # NoSub
      <4>1. sub'[c] \in SubRec
        BY <3>1 DEF SubRec, Refused, Full, Threads
      <4> QED BY <4>1, MsgboxAssumption DEF SubRec
    <3>3. First(c)' = IF Full(c) THEN 1 ELSE 2
      <4>1. CASE Full(c)
        <5>1. Full(c) = TRUE
          BY <4>1 DEF Full
        <5> QED BY <3>1, <4>1, <5>1 DEF First, Refused
      <4>2. CASE ~Full(c)
        <5>1. Full(c) = FALSE
          BY <4>2 DEF Full
        <5> QED BY <3>1, <3>2, <4>2, <5>1 DEF First, Refused
      <4> QED BY <4>1, <4>2
    <3> QED BY <2>1, <2>2, <2>3, <3>1, <3>3 DEF Effect
  <2>4. CASE txDoneIrq = FALSE
    <3>1. UNCHANGED sub /\ active'[c] = Head(queue[c]) /\ queue'[c] = Tail(queue[c])
      BY <1>0, <1>2, <2>4 DEF SendData, Accept
    <3>2. First(c)' = 1
      BY <2>1, <3>1 DEF First
    <3> QED BY <2>1, <2>2, <2>4, <3>1, <3>2 DEF Effect, HeldAfterSend
  <2> QED BY <1>0, <2>1, <2>3, <2>4
<1>3. ASSUME SendDataArm(c)
      PROVE  /\ queue[c] # <<>> /\ active[c] = None /\ txDoneIrq = TRUE /\ base'[c] = base[c]
             /\ \/ /\ First(c) = 1 /\ active'[c] = None
                   /\ Effect(c, txFifo[c], held[c], queue[c], 1, txGot[c], txSent[c])
                \/ /\ First(c) = 2 /\ active'[c] = Head(queue[c])
                   /\ Effect(c, txFifo[c], held[c], Tail(queue[c]), 1, txGot[c], txSent[c])
  <2>1. /\ queue[c] # <<>> /\ active[c] = None /\ txDoneIrq = TRUE /\ sub[c] # NoSub
        /\ sub[c].full \in BOOLEAN
    BY <1>0, <1>3 DEF SendDataArm, ChanLockFree, SubInv, SubRec
  <2>2. First(c)' = 1 /\ UNCHANGED <<txFifo, held, txGot, txSent, base>>
    BY <1>0, <1>3 DEF SendDataArm, First, ghosts, counts
  <2>3. CASE sub[c].full = TRUE
    BY <1>3, <2>1, <2>2, <2>3 DEF SendDataArm, First, Effect
  <2>4. CASE sub[c].full = FALSE
    BY <1>0, <1>3, <2>1, <2>2, <2>4 DEF SendDataArm, First, Effect, Accept
  <2> QED BY <2>1, <2>3, <2>4
<1> QED BY <1>1, <1>2, <1>3

LEMMA DoneEffects ==
  ASSUME TypeOK, NEW c \in Chan
  PROVE  /\ RemoteRead(c) =>
              /\ txFifo[c] # <<>> /\ active'[c] = active[c] /\ base'[c] = base[c]
              /\ Effect(c, Tail(txFifo[c]), held[c], queue[c], First(c), Head(txFifo[c]),
                        txSent[c])
         /\ LastTxDone(c) =>
              /\ active'[c] = active[c] /\ base'[c] = base[c]
              /\ \/ ~WritesHeld(c) /\ Unaffected(c)
                 \/ /\ WritesHeld(c)
                    /\ Effect(c, Append(txFifo[c], held[c]), None, queue[c], First(c),
                              txGot[c], txSent[c])
         /\ TimeoutTick(c) \/ TickClear(c) \/ Free(c) =>
              /\ active'[c] = None /\ base'[c] = base[c]
              /\ Effect(c, txFifo[c], held[c], queue[c], First(c), txGot[c], txSent[c])
         /\ Request(c) =>
              /\ active'[c] = None /\ base'[c] = txSent[c]
              /\ Effect(c, txFifo[c], held[c], <<>>, 1, txGot[c], txSent[c])
         /\ Shutdown(c) =>
              /\ active'[c] = active[c] /\ base'[c] = base[c]
              /\ Effect(c, txFifo[c], None, queue[c], First(c), txGot[c], txSent[c])
<1>0. /\ txFifo \in [Chan -> Seq(1 .. MaxTx)] /\ held \in [Chan -> 0 .. MaxTx]
      /\ active \in [Chan -> 0 .. MaxTx] /\ queue \in [Chan -> Seq(1 .. MaxTx)]
      /\ txSent \in [Chan -> 0 .. MaxTx] /\ txGot \in [Chan -> 0 .. MaxTx]
      /\ base \in [Chan -> 0 .. MaxTx]
  BY TypeParts DEF TypeTx
<1> USE <1>0 DEF Effect, First
<1>1. ASSUME RemoteRead(c)
      PROVE  /\ txFifo[c] # <<>> /\ active'[c] = active[c] /\ base'[c] = base[c]
             /\ Effect(c, Tail(txFifo[c]), held[c], queue[c], First(c), Head(txFifo[c]),
                       txSent[c])
  BY <1>1 DEF RemoteRead, txCore
<1>2. ASSUME LastTxDone(c)
      PROVE  /\ active'[c] = active[c] /\ base'[c] = base[c]
             /\ \/ ~WritesHeld(c) /\ Unaffected(c)
                \/ /\ WritesHeld(c)
                   /\ Effect(c, Append(txFifo[c], held[c]), None, queue[c], First(c),
                             txGot[c], txSent[c])
  BY <1>2 DEF LastTxDone, Unaffected, ghosts, counts
<1>3. ASSUME TimeoutTick(c) \/ TickClear(c) \/ Free(c)
      PROVE  /\ active'[c] = None /\ base'[c] = base[c]
             /\ Effect(c, txFifo[c], held[c], queue[c], First(c), txGot[c], txSent[c])
  BY <1>3 DEF TimeoutTick, TickClear, Free, txHw, ghosts, counts
<1>4. ASSUME Request(c)
      PROVE  /\ active'[c] = None /\ base'[c] = txSent[c]
             /\ Effect(c, txFifo[c], held[c], <<>>, 1, txGot[c], txSent[c])
  BY <1>4 DEF Request, txHw, ChanLockFree
<1>5. ASSUME Shutdown(c)
      PROVE  /\ active'[c] = active[c] /\ base'[c] = base[c]
             /\ Effect(c, txFifo[c], None, queue[c], First(c), txGot[c], txSent[c])
  BY <1>5 DEF Shutdown, txHw, txCore, ghosts, counts
<1> QED BY <1>1, <1>2, <1>3, <1>4, <1>5

OrderOne(c) ==
  /\ Ordered(txFifo[c], held[c], queue[c], First(c), txGot[c], txSent[c])
  /\ held[c] # None => txDoneIrq = FALSE /\ active[c] \in {None, held[c]}

LEMMA OrderInvStep ==
  ASSUME TypeOK, SubInv, OrderInv, [Next]_vars
  PROVE  OrderInv'
<1> SUFFICES ASSUME NEW d \in Chan PROVE OrderOne(d)'
  BY DEF OrderInv, OrderOne
<1>0. OrderOne(d) /\ UNCHANGED txDoneIrq /\ MaxTx \in Nat
  BY LineFrame, MsgboxAssumption DEF OrderInv, OrderOne
<1>t. /\ txFifo[d] \in Seq(1 .. MaxTx) /\ queue[d] \in Seq(1 .. MaxTx)
      /\ held[d] \in 0 .. MaxTx /\ txGot[d] \in 0 .. MaxTx /\ txSent[d] \in 0 .. MaxTx
      /\ First(d) \in {1, 2}
  BY TypeParts DEF TypeTx, First
<1>e. ASSUME NEW f, NEW h, NEW q, NEW k, NEW g, NEW s,
             Effect(d, f, h, q, k, g, s), Ordered(f, h, q, k, g, s),
             h # None => txDoneIrq = FALSE /\ active'[d] \in {None, h}
      PROVE  OrderOne(d)'
  BY <1>0, <1>e DEF Effect, OrderOne
<1>1. CASE Unaffected(d)
  BY <1>0, <1>1 DEF Unaffected, Effect, OrderOne
<1>2. ASSUME NEW c \in Chan, TxStep(c), c # d
      PROVE  OrderOne(d)'
  BY <1>1, <1>2, OthersUnaffected
<1>3. CASE SendMessage(d)
  <2>1. txSent[d] + 1 \in 1 .. MaxTx
    BY <1>0, <1>3, <1>t DEF SendMessage
  <2>2. Ordered(txFifo[d], held[d], queue[d], First(d), txGot[d], txSent[d])
    BY <1>0 DEF OrderOne
  <2>3. Ordered(txFifo[d], held[d], Append(queue[d], txSent[d] + 1), First(d), txGot[d],
                txSent[d] + 1)
    BY <1>0, <1>t, <2>1, <2>2, OrderedSend
  <2>4. /\ Effect(d, txFifo[d], held[d], Append(queue[d], txSent[d] + 1), First(d),
                  txGot[d], txSent[d] + 1)
        /\ active'[d] = active[d]
    BY <1>3, SendEffects
  <2> QED BY <1>0, <1>e, <2>3, <2>4 DEF OrderOne
<1>4. ASSUME NEW by \in Threads, SendData(d, by)
      PROVE  OrderOne(d)'
  <2>1. First(d) = 1 /\ queue[d] # <<>>
    BY <1>4, SendEffects
  <2>2. /\ Ordered(txFifo[d], None, queue[d], 1, txGot[d], txSent[d])
        /\ Ordered(Append(txFifo[d], Head(queue[d])), None, queue[d], 2, txGot[d], txSent[d])
        /\ Ordered(txFifo[d], Head(queue[d]), Tail(queue[d]), 1, txGot[d], txSent[d])
    BY <1>0, <1>t, <2>1, OrderedDrop, OrderedWrite, OrderedHold DEF OrderOne
  <2>3. Append(txFifo[d], Head(queue[d])) \in Seq(1 .. MaxTx)
    BY <1>0, <1>t, <2>1, HeadTail, AppendOne
  <2>4. Ordered(Append(txFifo[d], Head(queue[d])), None, Tail(queue[d]), 1, txGot[d], txSent[d])
    <3>1. None \in 0 .. MaxTx
      BY <1>0 DEF None
    <3>2. Ordered(Append(txFifo[d], Head(queue[d])), None, queue[d], 2, txGot[d], txSent[d])
      BY <2>2
    <3> HIDE DEF None
    <3> QED BY <1>0, <1>t, <2>1, <2>3, <3>1, <3>2, OrderedAccept
  <2>5. \/ /\ txDoneIrq = TRUE /\ Full(d) /\ active'[d] = None
           /\ Effect(d, txFifo[d], None, queue[d], 1, txGot[d], txSent[d])
        \/ /\ txDoneIrq = TRUE /\ ~Full(d) /\ active'[d] = None
           /\ Effect(d, Append(txFifo[d], Head(queue[d])), None, queue[d], 2,
                     txGot[d], txSent[d])
        \/ /\ txDoneIrq = FALSE /\ Full(d) /\ active'[d] = Head(queue[d])
           /\ Effect(d, txFifo[d], Head(queue[d]), Tail(queue[d]), 1, txGot[d], txSent[d])
        \/ /\ txDoneIrq = FALSE /\ ~Full(d) /\ active'[d] = Head(queue[d])
           /\ Effect(d, Append(txFifo[d], Head(queue[d])), None, Tail(queue[d]), 1,
                     txGot[d], txSent[d])
    BY <1>4, SendEffects
  <2> QED BY <1>e, <2>2, <2>4, <2>5
<1>5. CASE SendDataArm(d)
  <2>1. queue[d] # <<>> /\ held[d] = None
    BY <1>0, <1>5, SendEffects DEF OrderOne
  <2>2. First(d) = 2 => Ordered(txFifo[d], held[d], Tail(queue[d]), 1, txGot[d], txSent[d])
    BY <1>0, <1>t, <2>1, OrderedAccept DEF OrderOne
  <2> QED BY <1>0, <1>5, <1>e, <2>1, <2>2, SendEffects DEF OrderOne
<1>6. CASE RemoteRead(d)
  <2>1. /\ txFifo[d] # <<>> /\ active'[d] = active[d]
        /\ Effect(d, Tail(txFifo[d]), held[d], queue[d], First(d), Head(txFifo[d]), txSent[d])
    BY <1>6, DoneEffects
  <2>2. Ordered(txFifo[d], held[d], queue[d], First(d), txGot[d], txSent[d])
    BY <1>0 DEF OrderOne
  <2>3. Ordered(Tail(txFifo[d]), held[d], queue[d], First(d), Head(txFifo[d]), txSent[d])
    BY <1>0, <1>t, <2>1, <2>2, OrderedRead
  <2> QED BY <1>0, <1>e, <2>1, <2>3 DEF OrderOne
<1>7. CASE LastTxDone(d)
  <2>1. CASE WritesHeld(d)
    <3>1. held[d] \in 1 .. MaxTx
      BY <1>0, <1>t, <2>1 DEF WritesHeld, None
    <3>2. Ordered(Append(txFifo[d], held[d]), None, queue[d], First(d), txGot[d], txSent[d])
      BY <1>0, <1>t, <3>1, OrderedWriteHeld DEF OrderOne
    <3> QED BY <1>7, <1>e, <2>1, <3>2, DoneEffects DEF Unaffected
  <2>2. CASE ~WritesHeld(d)
    BY <1>1, <1>7, <2>2, DoneEffects
  <2> QED BY <2>1, <2>2
<1>8. CASE TimeoutTick(d) \/ TickClear(d) \/ Free(d)
  BY <1>0, <1>8, <1>e, DoneEffects DEF OrderOne
<1>9. CASE Request(d)
  <2>1. /\ active'[d] = None
        /\ Effect(d, txFifo[d], held[d], <<>>, 1, txGot[d], txSent[d])
    BY <1>9, DoneEffects
  <2>2. Ordered(txFifo[d], held[d], <<>>, 1, txGot[d], txSent[d])
    BY <1>0, <1>t, OrderedDrop DEF OrderOne
  <2> QED BY <1>0, <1>e, <2>1, <2>2 DEF OrderOne
<1>10. CASE Shutdown(d)
  <2>1. /\ active'[d] = active[d]
        /\ Effect(d, txFifo[d], None, queue[d], First(d), txGot[d], txSent[d])
    BY <1>10, DoneEffects
  <2>2. Ordered(txFifo[d], None, queue[d], First(d), txGot[d], txSent[d])
    BY <1>0, <1>t, OrderedDrop DEF OrderOne
  <2> QED BY <1>0, <1>e, <2>1, <2>2 DEF OrderOne
<1>11. CASE ~\E c \in Chan : TxStep(c)
  <2>1. UNCHANGED <<txFifo, held, active, queue, txSent, txGot, base>>
    BY <1>11, TxFrame
  <2>2. UNCHANGED sub
    BY <1>11, SubFrame DEF TxStep
  <2>3. Unaffected(d)
    BY <2>1, <2>2 DEF Unaffected, Effect, First
  <2> QED BY <1>1, <2>3
<1> QED BY <1>2, <1>3, <1>4, <1>5, <1>6, <1>7, <1>8, <1>9, <1>10, <1>11 DEF TxStep

-----------------------------------------------------------------------------
(* The poll timer *)

(* How a channel goes down, comes up and starts.                           *)
LEMMA CtlSteps ==
  ASSUME TypeOK, RxInv, [Next]_vars, NEW d \in Chan
  PROVE  /\ ctl'[d] = "down" => ctl[d] = "down" \/ Free(d)
         /\ ctl'[d] = "up" => ctl[d] = "up" \/ (ctl[d] = "starting" /\ DrainAck)
         /\ ctl'[d] \in {"get", "drain", "starting"} =>
              ctl[d] \in {"get", "drain", "starting"} \/ Request(d)
<1>0. ctl \in [Chan -> CtlPcs] /\ (drain = NoDrain \/ drain \in DrainRec)
  BY TypeParts DEF TypePc, TypeRx
<1>1. ASSUME NEW c \in Chan, Request(c) \/ Shutdown(c) \/ Control(c), c # d
      PROVE  ctl'[d] = ctl[d]
  <2>1. \E v \in CtlPcs : ctl' = [ctl EXCEPT ![c] = v]
    BY <1>1 DEF CtlPcs, Request, Shutdown, Control, TxIrqGet, DropStale, SyncRx, Disarm, TxIrqPut,
       TxIrqPutDone, Free, AfterSync, AfterPut
  <2> QED BY <1>0, <1>1, <2>1
<1>2. CASE Request(d) \/ Free(d)
  BY <1>0, <1>2 DEF Request, Free
<1>3. CASE Shutdown(d) \/ SyncRx(d) \/ Disarm(d) \/ TxIrqPut(d) \/ TxIrqPutDone(d)
  <2>1. \E v \in {"sync", "disarm", "last", "put", "wait", "disarm again"} :
          ctl' = [ctl EXCEPT ![d] = v]
    BY <1>3 DEF Shutdown, SyncRx, Disarm, TxIrqPut, TxIrqPutDone, AfterSync, AfterPut
  <2> QED BY <1>0, <2>1
<1>4. CASE TxIrqGet(d) \/ DropStale(d)
  BY <1>0, <1>4 DEF TxIrqGet, DropStale
<1>5. CASE DrainAck
  <2>1. CASE drain.by = "irq"
    BY <1>0, <1>5, <2>1 DEF DrainAck
  <2>2. CASE drain.by = "start"
    <3>1. drain # NoDrain /\ drain \in DrainRec /\ ctl' = [ctl EXCEPT ![drain.chan] = "up"]
      BY <1>0, <1>5, <2>2 DEF DrainAck, LockFree
    <3>2. drain.chan \in Chan /\ ctl[drain.chan] = "starting"
      BY <2>2, <3>1 DEF RxInv, Draining, DrainRec
    <3> QED BY <1>0, <1>5, <3>1, <3>2
  <2>3. CASE drain.by = "stop"
    BY <1>0, <1>5, <2>3 DEF DrainAck, LockFree, DrainRec
  <2> QED BY <1>0, <1>5, <2>1, <2>2, <2>3 DEF DrainAck, LockFree, DrainRec
<1> QED BY <1>1, <1>2, <1>3, <1>4, <1>5, CtlFrame DEF Control

LEMMA TimerFrame ==
  ASSUME [Next]_vars
  PROVE  \/ UNCHANGED <<txFifo, held, active, tick, cl, lapsed>>
         \/ TxIrq \/ \E c \in Chan : TxStep(c) \/ CoreStep(c)
BY TxFrame, CoreFrame, LapseFrame DEF TxStep, CoreStep

TimerSame(d) ==
  /\ txFifo'[d] = txFifo[d] /\ held'[d] = held[d] /\ active'[d] = active[d]
  /\ tick'[d] = tick[d] /\ cl'[d] = cl[d] /\ lapsed'[d] = lapsed[d]

LEMMA OthersSame ==
  ASSUME TypeOK, NEW c \in Chan, TxStep(c) \/ CoreStep(c), NEW d \in Chan, d # c
  PROVE  TimerSame(d)
<1>0. /\ cl \in [Chan -> {"idle", "submit", "etime"}]
      /\ tick \in [Chan -> {"none", "poll", "clear", "submit"}] /\ lapsed \in [Chan -> Nat]
      /\ txFifo \in [Chan -> Seq(1 .. MaxTx)] /\ held \in [Chan -> 0 .. MaxTx]
      /\ active \in [Chan -> 0 .. MaxTx] /\ txDoneIrq \in BOOLEAN
  BY TypeParts DEF TypeTx, TypePc, TypeLine
<1> USE <1>0 DEF TimerSame
<1>1. CASE SendMessage(c) \/ RemoteRead(c) \/ Timeout(c)
  BY <1>1 DEF SendMessage, RemoteRead, Timeout, txHw, txCore
<1>2. CASE TimeoutTick(c) \/ TimerCheck(c) \/ LastTxDone(c) \/ TickClear(c)
  BY <1>2 DEF TimeoutTick, TimerCheck, LastTxDone, TickClear, txHw, ghosts, counts
<1>3. CASE Request(c) \/ Shutdown(c) \/ Free(c)
  BY <1>3 DEF Request, Shutdown, Free, txHw, txCore, ghosts, counts
<1>4. ASSUME \E by \in Threads : NothingToSubmit(c, by) \/ SendData(c, by)
      PROVE  TimerSame(d)
  <2>1. PICK by \in Threads : NothingToSubmit(c, by) \/ SendData(c, by)
    BY <1>4
  <2>2. cl' = cl \/ cl' = [cl EXCEPT ![c] = "idle"]
    BY <2>1 DEF NothingToSubmit, SendData, Return
  <2>3. tick' = tick \/ tick' = [tick EXCEPT ![c] = "none"]
    BY <2>1 DEF NothingToSubmit, SendData, Return
  <2>4. cl'[d] = cl[d] /\ tick'[d] = tick[d]
    BY <2>2, <2>3
  <2>5. CASE NothingToSubmit(c, by)
    BY <2>4, <2>5 DEF NothingToSubmit, txHw, ghosts, counts
  <2>6. CASE SendData(c, by)
    BY <2>4, <2>6 DEF SendData, Accept, ghosts, counts
  <2> QED BY <2>1, <2>5, <2>6
<1>5. CASE SendDataArm(c)
  <2>1. cl' = cl \/ cl' = [cl EXCEPT ![c] = "idle"]
    BY <1>5 DEF SendDataArm, Return
  <2>2. tick' = tick \/ tick' = [tick EXCEPT ![c] = "none"]
    BY <1>5 DEF SendDataArm, Return
  <2>3. cl'[d] = cl[d] /\ tick'[d] = tick[d]
    BY <2>1, <2>2
  <2> QED BY <1>5, <2>3 DEF SendDataArm, Accept, ghosts, counts
<1> QED BY <1>1, <1>2, <1>3, <1>4, <1>5 DEF TxStep, CoreStep

TimerOne(d) ==
  /\ tick[d] = "poll" /\ lapsed[d] = 0 => active[d] # None
  /\ tick[d] = "clear" /\ lapsed[d] <= 1 =>
       /\ held[d] = None
       /\ Len(txFifo[d]) < FifoMax \/ (lapsed[d] = 1 /\ active[d] # None)
       /\ active[d] # None \/ lapsed[d] = 1
  /\ ctl[d] = "down" => tick[d] = "none"

LEMMA TimerInvStep ==
  ASSUME TypeOK, SubInv, RxInv, TimerInv, [Next]_vars
  PROVE  TimerInv'
<1> SUFFICES ASSUME txDoneIrq' = FALSE, NEW d \in Chan PROVE TimerOne(d)'
  BY DEF TimerInv, TimerOne
<1>0. TimerOne(d) /\ txDoneIrq = FALSE /\ sub[d] = NoSub
  BY LineFrame DEF TimerInv, TimerOne, SubInv
<1>t. /\ cl \in [Chan -> {"idle", "submit", "etime"}]
      /\ lapsed \in [Chan -> Nat] /\ lapsed[d] \in Nat
      /\ tick \in [Chan -> {"none", "poll", "clear", "submit"}]
      /\ txFifo \in [Chan -> Seq(1 .. MaxTx)] /\ held \in [Chan -> 0 .. MaxTx]
      /\ active \in [Chan -> 0 .. MaxTx] /\ queue \in [Chan -> Seq(1 .. MaxTx)]
      /\ FifoMax \in Nat /\ MaxTx \in Nat /\ Len(txFifo[d]) \in Nat
  <2>1. txFifo \in [Chan -> Seq(1 .. MaxTx)] /\ lapsed \in [Chan -> Nat]
    BY TypeParts DEF TypeTx, TypePc
  <2>2. Len(txFifo[d]) \in Nat /\ lapsed[d] \in Nat
    BY <2>1
  <2>3. FifoMax \in Nat /\ MaxTx \in Nat
    BY MsgboxAssumption
  <2> QED BY <2>2, <2>3, TypeParts DEF TypeTx, TypePc
<1>c. ctl'[d] = "down" => ctl[d] = "down" \/ Free(d)
  BY CtlSteps
<1>1. ASSUME TimerSame(d)
      PROVE  TimerOne(d)'
  <2>1. ctl'[d] = "down" => tick'[d] = "none"
    BY <1>0, <1>1, <1>c DEF TimerSame, TimerOne, Free
  <2> QED BY <1>0, <1>1, <2>1 DEF TimerSame, TimerOne
<1>2. ASSUME NEW c \in Chan, TxStep(c) \/ CoreStep(c), c # d
      PROVE  TimerOne(d)'
  BY <1>1, <1>2, OthersSame
<1>3. CASE SendMessage(d) \/ Timeout(d)
  <2>1. UNCHANGED <<txFifo, held, active, tick, lapsed, ctl>>
    BY <1>3 DEF SendMessage, Timeout, txHw
  <2> QED BY <1>0, <2>1 DEF TimerOne
<1>4. ASSUME NEW by \in Threads, NothingToSubmit(d, by)
      PROVE  TimerOne(d)'
  <2>1. UNCHANGED <<txFifo, held, active, lapsed, ctl>>
    BY <1>4 DEF NothingToSubmit, txHw, ghosts, counts
  <2>2. tick'[d] \in {tick[d], "none"}
    BY <1>4, <1>t DEF NothingToSubmit, Return
  <2> QED BY <1>0, <2>1, <2>2 DEF TimerOne
<1>5. ASSUME NEW by \in Threads, SendData(d, by)
      PROVE  TimerOne(d)'
  <2>1. UNCHANGED <<lapsed, ctl>> /\ tick'[d] \in {tick[d], "none"}
    BY <1>0, <1>5, <1>t DEF SendData, Return, ghosts, counts
  <2>2. active[d] = None /\ active'[d] = Head(queue[d]) /\ Head(queue[d]) # None
    <3>1. queue[d] # <<>> /\ active[d] = None /\ active'[d] = Head(queue[d])
      BY <1>0, <1>5, <1>t DEF SendData, CanSubmit, Accept
    <3>2. Head(queue[d]) \in 1 .. MaxTx
      BY <1>t, <3>1, HeadTail
    <3> QED BY <3>1, <3>2 DEF None
  <2>3. held'[d] = HeldAfterSend(d)
    BY <1>5, <1>t DEF SendData
  <2>4. tick[d] = "clear" /\ lapsed[d] <= 1 => lapsed[d] = 1 /\ held'[d] = None
    BY <1>0, <1>t, <2>2, <2>3 DEF TimerOne, HeldAfterSend, Full
  <2> QED BY <1>0, <2>1, <2>2, <2>4 DEF TimerOne
<1>6. CASE SendDataArm(d)
  BY <1>0, <1>6 DEF SendDataArm, ChanLockFree
<1>8. CASE TimeoutTick(d)
  <2>1. /\ UNCHANGED <<txFifo, held, tick, ctl>> /\ lapsed'[d] = lapsed[d] + 1
    BY <1>8, <1>t DEF TimeoutTick, txHw
  <2>2. lapsed'[d] # 0 /\ (lapsed'[d] <= 1 => lapsed[d] = 0 /\ lapsed'[d] = 1)
    BY <1>t, <2>1
  <2> QED BY <1>0, <2>1, <2>2 DEF TimerOne
<1>9. CASE RemoteRead(d)
  <2>1. Len(txFifo'[d]) < Len(txFifo[d])
    <3>1. txFifo[d] # <<>> /\ txFifo'[d] = Tail(txFifo[d]) /\ txFifo[d] \in Seq(1 .. MaxTx)
      BY <1>9, <1>t DEF RemoteRead
    <3>2. Len(Tail(txFifo[d])) = Len(txFifo[d]) - 1
      BY <1>t, <3>1, HeadTail
    <3> QED BY <1>t, <3>1, <3>2
  <2>2. UNCHANGED <<held, active, tick, lapsed, ctl>>
    BY <1>9 DEF RemoteRead, txCore
  <2>3. Len(txFifo[d]) < FifoMax => Len(txFifo'[d]) < FifoMax
    <3>1. Len(txFifo'[d]) \in Nat
      BY <1>9, <1>t DEF RemoteRead
    <3> QED BY <1>t, <2>1, <3>1
  <2> QED BY <1>0, <2>2, <2>3 DEF TimerOne
<1>10. CASE TimerCheck(d)
  BY <1>10, <1>t DEF TimerCheck, TimerOne
<1>11. CASE LastTxDone(d)
  <2>1. tick[d] = "poll" /\ UNCHANGED <<active, lapsed, ctl>>
    BY <1>11 DEF LastTxDone, ghosts, counts
  <2>3. ctl'[d] # "down"
    BY <1>0, <2>1 DEF TimerOne
  <2>4. tick'[d] \in {"clear", "none"}
    BY <1>11, <1>t DEF LastTxDone
  <2>5. tick'[d] = "clear" => held'[d] = None /\ Len(txFifo'[d]) < FifoMax
    <3>1. CASE WritesHeld(d)
      <4>1. /\ held'[d] = None /\ txFifo'[d] = Append(txFifo[d], held[d])
            /\ (tick'[d] = "clear" => Len(txFifo[d]) + 1 < FifoMax)
        BY <1>11, <1>t, <3>1 DEF LastTxDone, PollDone
      <4>2. held[d] \in 1 .. MaxTx
        BY <1>t, <3>1 DEF WritesHeld, None
      <4>3. Len(Append(txFifo[d], held[d])) = Len(txFifo[d]) + 1
        BY <1>t, <4>2, AppendOne
      <4> QED BY <4>1, <4>3
    <3>2. CASE ~WritesHeld(d)
      <4>1. /\ UNCHANGED <<held, txFifo>>
            /\ (tick'[d] = "clear" => Len(txFifo[d]) < FifoMax)
        BY <1>11, <1>t, <3>2 DEF LastTxDone, PollDone
      <4>2. tick'[d] = "clear" => ~Full(d)
        BY <1>t, <4>1 DEF Full
      <4> QED BY <3>2, <4>1, <4>2 DEF WritesHeld
    <3> QED BY <3>1, <3>2
  <2>6. lapsed[d] <= 1 => active[d] # None \/ lapsed[d] = 1
    BY <1>0, <1>t, <2>1 DEF TimerOne
  <2> QED BY <2>1, <2>3, <2>4, <2>5, <2>6 DEF TimerOne
<1>12. CASE TickClear(d)
  BY <1>0, <1>12, <1>t DEF TickClear, TimerOne
<1>13. CASE Request(d)
  BY <1>0, <1>13 DEF Request, TimerOne, txCore
<1>14. CASE Shutdown(d)
  <2>1. /\ held'[d] = None /\ ctl'[d] # "down"
        /\ UNCHANGED <<txFifo, active, tick, lapsed>>
    BY <1>14, <1>t, TypeParts DEF Shutdown, txHw, txCore, ghosts, counts, TypePc
  <2> QED BY <1>0, <2>1 DEF TimerOne
<1>15. CASE Free(d)
  BY <1>0, <1>15 DEF Free, TimerOne
<1>16. CASE TxIrq
  BY <1>0, <1>16 DEF TxIrq
<1>17. CASE UNCHANGED <<txFifo, held, active, tick, cl, lapsed>>
  BY <1>1, <1>17 DEF TimerSame
<1> QED BY <1>2, <1>3, <1>4, <1>5, <1>6, <1>8, <1>9, <1>10, <1>11, <1>12, <1>13, <1>14,
           <1>15, <1>16, <1>17, TimerFrame DEF TxStep, CoreStep

-----------------------------------------------------------------------------
(* What the FIFO took last *)

(* The last message written, when f is in the FIFO and g was read last.    *)
NewestOf(f, g) == IF f = <<>> THEN g ELSE f[Len(f)]

(* A write makes its message the newest; a read changes nothing.           *)
LEMMA NewestKept ==
  ASSUME NEW m \in Nat, NEW f \in Seq(1 .. m), NEW g
  PROVE  /\ \A e \in 1 .. m : NewestOf(Append(f, e), g) = e
         /\ f # <<>> => NewestOf(Tail(f), Head(f)) = NewestOf(f, g)
<1>1. ASSUME NEW e \in 1 .. m
      PROVE  NewestOf(Append(f, e), g) = e
  <2>1. Append(f, e) # <<>> /\ Append(f, e)[Len(Append(f, e))] = e
    BY AppendOne
  <2> QED BY <2>1 DEF NewestOf
<1>2. ASSUME f # <<>>
      PROVE  NewestOf(Tail(f), Head(f)) = NewestOf(f, g)
  <2>1. /\ Len(f) \in Nat \ {0} /\ Head(f) = f[1] /\ Tail(f) \in Seq(1 .. m)
        /\ Len(Tail(f)) = Len(f) - 1 /\ \A i \in 1 .. Len(f) - 1 : Tail(f)[i] = f[i + 1]
    BY <1>2, HeadTail
  <2>2. CASE Tail(f) = <<>>
    <3>1. Len(f) = 1
      <4>1. \A q \in Seq(1 .. m) : q = <<>> => Len(q) = 0
        BY EmptySeq
      <4>2. Len(Tail(f)) = 0
        BY <2>1, <2>2, <4>1, Zenon
      <4> QED BY <2>1, <4>2
    <3> QED BY <1>2, <2>1, <2>2, <3>1 DEF NewestOf
  <2>3. CASE Tail(f) # <<>>
    <3>1. Len(f) - 1 \in 1 .. Len(f) - 1
      BY <2>1, <2>3, EmptySeq
    <3>2. Tail(f)[Len(f) - 1] = f[(Len(f) - 1) + 1] /\ (Len(f) - 1) + 1 = Len(f)
      BY <2>1, <3>1
    <3> QED BY <1>2, <2>1, <2>3, <3>2 DEF NewestOf
  <2> QED BY <2>2, <2>3
<1> QED BY <1>1, <1>2

Usable == {"get", "drain", "starting", "up"}
AcceptOne(d) ==
  /\ active[d] # None /\ held[d] # active[d] /\ ctl[d] \in Usable => active[d] = Newest(d)
  /\ First(d) = 2 => Head(queue[d]) = Newest(d)

LEMMA AcceptInvStep ==
  ASSUME TypeOK, SubInv, RxInv, OrderInv, AcceptInv, [Next]_vars
  PROVE  AcceptInv'
<1> SUFFICES ASSUME NEW d \in Chan PROVE AcceptOne(d)'
  BY DEF AcceptInv, AcceptOne, Usable
<1>0. /\ AcceptOne(d) /\ UNCHANGED txDoneIrq /\ MaxTx \in Nat
      /\ (held[d] # None => txDoneIrq = FALSE /\ active[d] \in {None, held[d]})
      /\ Newest(d) = NewestOf(txFifo[d], txGot[d])
      /\ Newest(d)' = NewestOf(txFifo'[d], txGot'[d])
  BY LineFrame, MsgboxAssumption DEF AcceptInv, AcceptOne, Usable, OrderInv, Newest, NewestOf
<1>t. /\ txFifo[d] \in Seq(1 .. MaxTx) /\ queue[d] \in Seq(1 .. MaxTx)
      /\ held[d] \in 0 .. MaxTx /\ txGot[d] \in 0 .. MaxTx /\ txSent[d] \in 0 .. MaxTx
      /\ First(d) \in {1, 2} /\ active[d] \in 0 .. MaxTx
  BY TypeParts DEF TypeTx, First
<1>c. ctl'[d] \in Usable => ctl[d] \in Usable \/ Request(d)
  BY CtlSteps DEF Usable
<1>e. ASSUME NEW f, NEW h, NEW q, NEW k, NEW g, NEW s, Effect(d, f, h, q, k, g, s),
             active'[d] # None /\ h # active'[d] /\ ctl'[d] \in Usable =>
               active'[d] = NewestOf(f, g),
             k = 2 => Head(q) = NewestOf(f, g)
      PROVE  AcceptOne(d)'
  BY <1>0, <1>e DEF Effect, AcceptOne
<1>1. CASE Unaffected(d) /\ ~Request(d)
  BY <1>0, <1>1, <1>c DEF Unaffected, Effect, AcceptOne
<1>2. ASSUME NEW c \in Chan, TxStep(c), c # d, ~Request(d)
      PROVE  AcceptOne(d)'
  BY <1>1, <1>2, OthersUnaffected
<1>3. CASE SendMessage(d)
  <2>1. /\ Effect(d, txFifo[d], held[d], Append(queue[d], txSent[d] + 1), First(d),
                  txGot[d], txSent[d] + 1)
        /\ active'[d] = active[d] /\ First(d) = 1 /\ ctl' = ctl
    BY <1>3, SendEffects DEF SendMessage
  <2> QED BY <1>0, <1>e, <2>1 DEF AcceptOne
<1>4. ASSUME NEW by \in Threads, SendData(d, by)
      PROVE  AcceptOne(d)'
  <2>1. First(d) = 1 /\ queue[d] # <<>>
    BY <1>4, SendEffects
  <2>2. NewestOf(Append(txFifo[d], Head(queue[d])), txGot[d]) = Head(queue[d])
    BY <1>0, <1>t, <2>1, HeadTail, NewestKept
  <2>3. \/ /\ txDoneIrq = TRUE /\ Full(d) /\ active'[d] = None
           /\ Effect(d, txFifo[d], None, queue[d], 1, txGot[d], txSent[d])
        \/ /\ txDoneIrq = TRUE /\ ~Full(d) /\ active'[d] = None
           /\ Effect(d, Append(txFifo[d], Head(queue[d])), None, queue[d], 2,
                     txGot[d], txSent[d])
        \/ /\ txDoneIrq = FALSE /\ Full(d) /\ active'[d] = Head(queue[d])
           /\ Effect(d, txFifo[d], Head(queue[d]), Tail(queue[d]), 1, txGot[d], txSent[d])
        \/ /\ txDoneIrq = FALSE /\ ~Full(d) /\ active'[d] = Head(queue[d])
           /\ Effect(d, Append(txFifo[d], Head(queue[d])), None, Tail(queue[d]), 1,
                     txGot[d], txSent[d])
    BY <1>4, SendEffects
  <2> QED BY <1>e, <2>2, <2>3
<1>5. CASE SendDataArm(d)
  <2>1. \/ /\ First(d) = 1 /\ active'[d] = None
           /\ Effect(d, txFifo[d], held[d], queue[d], 1, txGot[d], txSent[d])
        \/ /\ First(d) = 2 /\ active'[d] = Head(queue[d])
           /\ Effect(d, txFifo[d], held[d], Tail(queue[d]), 1, txGot[d], txSent[d])
    BY <1>5, SendEffects
  <2>2. First(d) = 2 => Head(queue[d]) = NewestOf(txFifo[d], txGot[d])
    BY <1>0 DEF AcceptOne
  <2> QED BY <1>e, <2>1, <2>2
<1>6. CASE RemoteRead(d)
  <2>1. /\ txFifo[d] # <<>> /\ active'[d] = active[d] /\ ctl' = ctl
        /\ Effect(d, Tail(txFifo[d]), held[d], queue[d], First(d), Head(txFifo[d]), txSent[d])
    BY <1>6, DoneEffects DEF RemoteRead
  <2>2. NewestOf(Tail(txFifo[d]), Head(txFifo[d])) = NewestOf(txFifo[d], txGot[d])
    BY <1>0, <1>t, <2>1, NewestKept
  <2> QED BY <1>0, <1>e, <2>1, <2>2 DEF AcceptOne
<1>7. CASE LastTxDone(d)
  <2>1. CASE WritesHeld(d)
    <3>1. /\ active'[d] = active[d] /\ held[d] # None
          /\ Effect(d, Append(txFifo[d], held[d]), None, queue[d], First(d), txGot[d], txSent[d])
      BY <1>7, <1>t, <2>1, DoneEffects DEF Unaffected, WritesHeld
    <3>2. NewestOf(Append(txFifo[d], held[d]), txGot[d]) = held[d]
      BY <1>0, <1>t, <3>1, NewestKept DEF None
    <3>3. active[d] \in {None, held[d]} /\ First(d) = 1
      <4>1. txDoneIrq = FALSE /\ active[d] \in {None, held[d]}
        BY <1>0, <3>1
      <4> QED BY <4>1 DEF SubInv, First
    <3> QED BY <1>e, <3>1, <3>2, <3>3
  <2>2. CASE ~WritesHeld(d)
    <3>1. ~Request(d)
      BY <1>7, TypeParts DEF LastTxDone, Request, TypePc
    <3> QED BY <1>1, <1>7, <2>2, <3>1, DoneEffects
  <2> QED BY <2>1, <2>2
<1>8. CASE TimeoutTick(d) \/ TickClear(d) \/ Free(d)
  <2>1. /\ active'[d] = None
        /\ Effect(d, txFifo[d], held[d], queue[d], First(d), txGot[d], txSent[d])
    BY <1>8, DoneEffects
  <2> QED BY <1>0, <1>e, <2>1 DEF AcceptOne
<1>9. CASE Request(d)
  <2>1. active'[d] = None /\ Effect(d, txFifo[d], held[d], <<>>, 1, txGot[d], txSent[d])
    BY <1>9, DoneEffects
  <2> QED BY <1>e, <2>1
<1>10. CASE Shutdown(d)
  <2>1. Effect(d, txFifo[d], None, queue[d], First(d), txGot[d], txSent[d])
    BY <1>10, DoneEffects
  <2>2. ctl'[d] = "sync"
    BY <1>10, TypeParts DEF Shutdown, TypePc
  <2>3. ctl'[d] \notin Usable
    BY <2>2 DEF Usable
  <2> QED BY <1>0, <1>e, <2>1, <2>3 DEF AcceptOne
<1>11. CASE ~\E c \in Chan : TxStep(c)
  <2>1. UNCHANGED <<txFifo, held, active, queue, txSent, txGot, base>>
    BY <1>11, TxFrame
  <2>2. UNCHANGED sub
    BY <1>11, SubFrame DEF TxStep
  <2>3. Unaffected(d)
    BY <2>1, <2>2 DEF Unaffected, Effect, First
  <2> QED BY <1>1, <1>11, <2>3 DEF TxStep
<1> QED BY <1>2, <1>3, <1>4, <1>5, <1>6, <1>7, <1>8, <1>9, <1>10, <1>11 DEF TxStep

-----------------------------------------------------------------------------
(* No message is lost *)

LossOne(d) ==
  /\ ctl[d] \in {"get", "drain", "starting"} => base[d] = txSent[d]
  /\ base[d] <= txSent[d]
  /\ ctl[d] = "up" /\ timeouts = 0 =>
       /\ held[d] > base[d] => held[d] = active[d]
       /\ \A m \in base[d] + 1 .. txSent[d] :
            Somewhere(m, txFifo[d], held[d], queue[d], First(d), txGot[d])

(* A client that gives up is counted.                                      *)
LEMMA LapseInvStep ==
  ASSUME TypeOK, LapseInv, [Next]_vars
  PROVE  LapseInv' /\ (timeouts' = 0 => timeouts = 0)
<1>n. timeouts \in Nat
  BY TypeParts, MsgboxAssumption DEF TypeLine
<1>1. timeouts' = timeouts \/ timeouts' = timeouts + 1
  <2>1. ASSUME NEW c \in Chan, LineStep(c)
        PROVE  timeouts' = timeouts \/ timeouts' = timeouts + 1
    BY <2>1 DEF LineStep, TxIrqGet, SyncRx, TxIrqPut, TxIrqPutDone, Request, Timeout, ghosts, counts
  <2> QED BY <2>1, LineFrame
<1> SUFFICES ASSUME NEW d \in Chan
             PROVE  lapsed'[d] <= timeouts' /\ (cl'[d] = "etime" => lapsed'[d] < timeouts')
  BY <1>n, <1>1 DEF LapseInv
<1>0. /\ cl \in [Chan -> {"idle", "submit", "etime"}]
      /\ lapsed \in [Chan -> Nat] /\ lapsed[d] \in Nat
      /\ lapsed[d] <= timeouts /\ (cl[d] = "etime" => lapsed[d] < timeouts)
  BY TypeParts DEF TypePc, LapseInv
<1>2. ASSUME NEW c \in Chan, TxStep(c) \/ CoreStep(c), ~Timeout(d)
      PROVE  cl'[d] = "etime" => cl[d] = "etime"
  <2>1. CASE c # d
    BY <1>2, <2>1, OthersSame DEF TimerSame
  <2>2. CASE \E by \in Threads : NothingToSubmit(d, by) \/ SendData(d, by)
    <3>1. PICK by \in Threads : NothingToSubmit(d, by) \/ SendData(d, by)
      BY <2>2
    <3>2. cl' = cl \/ cl' = [cl EXCEPT ![d] = "idle"]
      BY <3>1 DEF NothingToSubmit, SendData, Return
    <3> QED BY <1>0, <3>2
  <2>3. CASE SendDataArm(d)
    <3>1. cl' = cl \/ cl' = [cl EXCEPT ![d] = "idle"]
      BY <2>3 DEF SendDataArm, Return
    <3> QED BY <1>0, <3>1
  <2>4. CASE SendMessage(d) \/ TimeoutTick(d)
    BY <1>0, <2>4 DEF SendMessage, TimeoutTick
  <2>5. CASE RemoteRead(d) \/ Request(d) \/ Shutdown(d) \/ Free(d)
    BY <2>5 DEF RemoteRead, Request, Shutdown, Free, txCore
  <2>6. CASE TimerCheck(d) \/ LastTxDone(d) \/ TickClear(d)
    BY <2>6 DEF TimerCheck, LastTxDone, TickClear
  <2> QED BY <1>2, <2>1, <2>2, <2>3, <2>4, <2>5, <2>6 DEF TxStep, CoreStep
<1>3. cl'[d] = "etime" => cl[d] = "etime" \/ Timeout(d)
  <2>1. TxIrq => UNCHANGED cl
    BY DEF TxIrq
  <2> QED BY <1>2, <2>1, TimerFrame
<1>4. \/ lapsed'[d] \in {0, lapsed[d]}
      \/ cl[d] = "etime" /\ lapsed'[d] = lapsed[d] + 1 /\ cl'[d] = "submit"
  BY <1>0, LapseFrame DEF TimeoutTick, TimerCheck
<1>5. Timeout(d) => timeouts' = timeouts + 1 /\ lapsed'[d] = lapsed[d]
  BY DEF Timeout
<1>6. CASE Timeout(d)
  BY <1>n, <1>0, <1>5, <1>6
<1>7. CASE ~Timeout(d)
  BY <1>n, <1>0, <1>1, <1>3, <1>4, <1>7
<1> QED BY <1>6, <1>7

LEMMA LossInvStep ==
  ASSUME TypeOK, SubInv, RxInv, OrderInv, TimerInv, LapseInv, LossInv, [Next]_vars
  PROVE  LossInv'
<1> SUFFICES ASSUME NEW d \in Chan PROVE LossOne(d)'
  BY DEF LossInv, LossOne
<1>0. /\ LossOne(d) /\ UNCHANGED txDoneIrq /\ MaxTx \in Nat
      /\ Ordered(txFifo[d], held[d], queue[d], First(d), txGot[d], txSent[d])
      /\ (held[d] # None => txDoneIrq = FALSE)
  BY LineFrame, MsgboxAssumption DEF LossInv, LossOne, OrderInv
<1>t. /\ txFifo[d] \in Seq(1 .. MaxTx) /\ queue[d] \in Seq(1 .. MaxTx)
      /\ held[d] \in 0 .. MaxTx /\ txGot[d] \in 0 .. MaxTx /\ txSent[d] \in 0 .. MaxTx
      /\ base[d] \in 0 .. MaxTx /\ First(d) \in {1, 2} /\ active[d] \in 0 .. MaxTx
  BY TypeParts DEF TypeTx, First
<1>c. /\ timeouts' = 0 => timeouts = 0
      /\ ctl'[d] = "up" => ctl[d] = "up" \/ (ctl[d] = "starting" /\ DrainAck)
      /\ ctl'[d] \in {"get", "drain", "starting"} =>
           ctl[d] \in {"get", "drain", "starting"} \/ Request(d)
  BY CtlSteps, LapseInvStep
<1>m. \A m \in base[d] + 1 .. txSent[d] : m \in 1 .. MaxTx /\ m > base[d]
  BY <1>0, <1>t
<1>1. ASSUME NEW f, NEW h, NEW q, NEW k, NEW g,
             Effect(d, f, h, q, k, g, txSent[d]), base'[d] = base[d], UNCHANGED ctl,
             ctl[d] = "up" /\ timeouts = 0 =>
               /\ h > base[d] => h = active'[d]
               /\ \A m \in base[d] + 1 .. txSent[d] : Somewhere(m, f, h, q, k, g)
      PROVE  LossOne(d)'
  BY <1>0, <1>1, <1>c DEF Effect, LossOne
<1>2. CASE Unaffected(d) /\ ~Request(d)
  <2>1. ctl'[d] = "up" => ctl[d] = "up" \/ ctl[d] = "starting"
    BY <1>c
  <2>2. ctl[d] = "starting" => base[d] = txSent[d] /\ ~(held[d] > base[d])
    BY <1>0, <1>t DEF LossOne, Ordered, None
  <2>3. (ctl[d] = "up" /\ timeouts = 0) \/ ctl[d] = "starting" =>
          /\ held[d] > base[d] => held[d] = active[d]
          /\ \A m \in base[d] + 1 .. txSent[d] :
               Somewhere(m, txFifo[d], held[d], queue[d], First(d), txGot[d])
    BY <1>0, <1>t, <2>2 DEF LossOne
  <2> QED BY <1>0, <1>2, <1>c, <2>1, <2>3 DEF Unaffected, Effect, LossOne
<1>3. ASSUME NEW c \in Chan, TxStep(c), c # d, ~Request(d)
      PROVE  LossOne(d)'
  BY <1>2, <1>3, OthersUnaffected
<1>4. CASE SendMessage(d)
  <2>1. /\ Effect(d, txFifo[d], held[d], Append(queue[d], txSent[d] + 1), First(d),
                  txGot[d], txSent[d] + 1)
        /\ active'[d] = active[d] /\ base'[d] = base[d] /\ First(d) = 1
    BY <1>4, SendEffects
  <2>2. txSent[d] + 1 \in 1 .. MaxTx /\ UNCHANGED <<ctl, timeouts>> /\ ctl[d] = "up"
    BY <1>0, <1>4, <1>t DEF SendMessage
  <2>3. ASSUME NEW m \in base[d] + 1 .. txSent[d] + 1, timeouts = 0
        PROVE  Somewhere(m, txFifo[d], held[d], Append(queue[d], txSent[d] + 1), First(d), txGot[d])
    <3>1. m \in 1 .. MaxTx
      BY <1>0, <1>t, <2>2, <2>3
    <3>2. \/ Somewhere(m, txFifo[d], held[d], queue[d], First(d), txGot[d])
          \/ m = txSent[d] + 1 /\ Len(queue[d]) + 1 >= First(d)
      <4>1. Len(queue[d]) + 1 >= First(d)
        BY <1>t, <2>1
      <4>2. m \in base[d] + 1 .. txSent[d] \/ m = txSent[d] + 1
        BY <1>t, <2>3
      <4> QED BY <1>0, <2>2, <2>3, <4>1, <4>2 DEF LossOne
    <3> QED BY <1>0, <1>t, <2>2, <3>1, <3>2, StaysQueued
  <2> QED BY <1>0, <1>c, <1>t, <2>1, <2>2, <2>3 DEF Effect, LossOne
<1>5. ASSUME NEW by \in Threads, SendData(d, by)
      PROVE  LossOne(d)'
  <2>1. First(d) = 1 /\ queue[d] # <<>> /\ active[d] = None /\ base'[d] = base[d]
    BY <1>5, SendEffects
  <2>2. UNCHANGED ctl
    BY <1>5 DEF SendData
  <2>3. ASSUME NEW m \in base[d] + 1 .. txSent[d], ctl[d] = "up", timeouts = 0
        PROVE  /\ Somewhere(m, Append(txFifo[d], Head(queue[d])), None, queue[d], 2, txGot[d])
               /\ Somewhere(m, Append(txFifo[d], Head(queue[d])), None, Tail(queue[d]), 1, txGot[d])
               /\ Somewhere(m, txFifo[d], Head(queue[d]), Tail(queue[d]), 1, txGot[d])
               /\ Somewhere(m, txFifo[d], held[d], queue[d], 1, txGot[d])
    <3>1. Somewhere(m, txFifo[d], held[d], queue[d], 1, txGot[d])
      BY <1>0, <2>1, <2>3 DEF LossOne
    <3>2. m # held[d]
      BY <1>0, <1>t, <1>m, <2>1, <2>3 DEF LossOne, None
    <3> QED BY <1>0, <1>m, <1>t, <2>1, <2>3, <3>1, <3>2, StaysWritten
  <2>4. \/ /\ txDoneIrq = TRUE /\ Full(d) /\ active'[d] = None
           /\ Effect(d, txFifo[d], None, queue[d], 1, txGot[d], txSent[d])
        \/ /\ txDoneIrq = TRUE /\ ~Full(d) /\ active'[d] = None
           /\ Effect(d, Append(txFifo[d], Head(queue[d])), None, queue[d], 2,
                     txGot[d], txSent[d])
        \/ /\ txDoneIrq = FALSE /\ Full(d) /\ active'[d] = Head(queue[d])
           /\ Effect(d, txFifo[d], Head(queue[d]), Tail(queue[d]), 1, txGot[d], txSent[d])
        \/ /\ txDoneIrq = FALSE /\ ~Full(d) /\ active'[d] = Head(queue[d])
           /\ Effect(d, Append(txFifo[d], Head(queue[d])), None, Tail(queue[d]), 1,
                     txGot[d], txSent[d])
    BY <1>5, SendEffects
  <2>5. ~(None > base[d])
    BY <1>t DEF None
  <2>6. txDoneIrq = TRUE => held[d] = None
    BY <1>0
  <2> QED BY <1>1, <2>1, <2>2, <2>3, <2>4, <2>5, <2>6
<1>6. CASE SendDataArm(d)
  <2>1. queue[d] # <<>> /\ active[d] = None /\ base'[d] = base[d] /\ held[d] = None
    BY <1>0, <1>6, SendEffects
  <2>2. UNCHANGED ctl
    BY <1>6 DEF SendDataArm
  <2>3. ASSUME NEW m \in base[d] + 1 .. txSent[d], ctl[d] = "up", timeouts = 0
        PROVE  /\ Somewhere(m, txFifo[d], held[d], queue[d], First(d), txGot[d])
               /\ First(d) = 2 => Somewhere(m, txFifo[d], held[d], Tail(queue[d]), 1, txGot[d])
    <3>1. Somewhere(m, txFifo[d], held[d], queue[d], First(d), txGot[d])
      BY <1>0, <2>3 DEF LossOne
    <3> QED BY <1>0, <1>m, <1>t, <2>1, <2>3, <3>1, StaysAccepted
  <2>4. \/ First(d) = 1 /\ Effect(d, txFifo[d], held[d], queue[d], 1, txGot[d], txSent[d])
        \/ First(d) = 2 /\ Effect(d, txFifo[d], held[d], Tail(queue[d]), 1, txGot[d], txSent[d])
    BY <1>6, SendEffects
  <2>5. ~(held[d] > base[d])
    BY <1>t, <2>1 DEF None
  <2> QED BY <1>1, <2>1, <2>2, <2>3, <2>4, <2>5
<1>7. CASE RemoteRead(d)
  <2>1. /\ txFifo[d] # <<>> /\ active'[d] = active[d] /\ base'[d] = base[d]
        /\ Effect(d, Tail(txFifo[d]), held[d], queue[d], First(d), Head(txFifo[d]), txSent[d])
    BY <1>7, DoneEffects
  <2>2. UNCHANGED ctl
    BY <1>7 DEF RemoteRead
  <2>3. Above(txGot[d], txFifo[d], 1)
    BY <1>0 DEF Ordered
  <2>4. ASSUME NEW m \in base[d] + 1 .. txSent[d], ctl[d] = "up", timeouts = 0
        PROVE  Somewhere(m, Tail(txFifo[d]), held[d], queue[d], First(d), Head(txFifo[d]))
    <3>1. Somewhere(m, txFifo[d], held[d], queue[d], First(d), txGot[d])
      BY <1>0, <2>4 DEF LossOne
    <3> QED BY <1>0, <1>m, <1>t, <2>1, <2>3, <2>4, <3>1, StaysRead
  <2> QED BY <1>0, <1>c, <2>1, <2>2, <2>4 DEF Effect, LossOne
<1>8. CASE LastTxDone(d)
  <2>1. UNCHANGED ctl
    BY <1>8 DEF LastTxDone
  <2>2. CASE WritesHeld(d)
    <3>1. held[d] \in 1 .. MaxTx
      BY <1>0, <1>t, <2>2 DEF WritesHeld, None
    <3>2. /\ base'[d] = base[d]
          /\ Effect(d, Append(txFifo[d], held[d]), None, queue[d], First(d), txGot[d], txSent[d])
      BY <1>8, <2>2, <1>t, DoneEffects DEF Unaffected, Effect
    <3>3. ASSUME NEW m \in base[d] + 1 .. txSent[d], ctl[d] = "up", timeouts = 0
          PROVE  Somewhere(m, Append(txFifo[d], held[d]), None, queue[d], First(d), txGot[d])
      <4>1. Somewhere(m, txFifo[d], held[d], queue[d], First(d), txGot[d])
        BY <1>0, <3>3 DEF LossOne
      <4> QED BY <1>0, <1>m, <1>t, <3>1, <3>3, <4>1, StaysWriteHeld
    <3>4. ~(None > base[d])
      BY <1>t DEF None
    <3> QED BY <1>1, <2>1, <3>2, <3>3, <3>4
  <2>3. CASE ~WritesHeld(d)
    <3>1. ~Request(d)
      BY <1>8, TypeParts DEF LastTxDone, Request, TypePc
    <3> QED BY <1>2, <1>8, <2>3, <3>1, DoneEffects
  <2> QED BY <2>2, <2>3
<1>9. CASE TickClear(d)
  <2>1. /\ base'[d] = base[d] /\ tick[d] = "clear" /\ UNCHANGED ctl
        /\ Effect(d, txFifo[d], held[d], queue[d], First(d), txGot[d], txSent[d])
    BY <1>9, DoneEffects DEF TickClear
  <2>2. timeouts = 0 => held[d] = None
    <3>1. timeouts = 0 => lapsed[d] <= 1
      <4>1. lapsed \in [Chan -> Nat] /\ lapsed[d] <= timeouts
        BY TypeParts DEF TypePc, LapseInv
      <4>2. lapsed[d] \in Nat
        BY <4>1
      <4> QED BY <4>1, <4>2
    <3>2. txDoneIrq \in BOOLEAN
      BY TypeParts DEF TypeLine
    <3> QED BY <1>0, <2>1, <3>1, <3>2 DEF TimerInv
  <2>3. timeouts = 0 => ~(held[d] > base[d])
    BY <1>t, <2>2 DEF None
  <2> QED BY <1>0, <1>c, <2>1, <2>3 DEF Effect, LossOne
<1>10. CASE TimeoutTick(d)
  <2>1. /\ base'[d] = base[d] /\ UNCHANGED ctl /\ timeouts # 0
        /\ Effect(d, txFifo[d], held[d], queue[d], First(d), txGot[d], txSent[d])
    <3>1. lapsed \in [Chan -> Nat] /\ lapsed[d] < timeouts
      BY <1>10, TypeParts DEF TypePc, LapseInv, TimeoutTick
    <3>2. lapsed[d] \in Nat
      BY <3>1
    <3>3. timeouts \in Nat
      BY TypeParts, MsgboxAssumption DEF TypeLine
    <3>4. timeouts # 0
      BY <3>1, <3>2, <3>3
    <3> QED BY <1>10, <3>4, DoneEffects DEF TimeoutTick
  <2> QED BY <1>0, <1>c, <2>1 DEF Effect, LossOne
<1>11. CASE Free(d) \/ Shutdown(d)
  <2>1. /\ base'[d] = base[d] /\ txSent'[d] = txSent[d]
    BY <1>11, DoneEffects DEF Effect
  <2>2. ctl'[d] \in {"down", "sync"}
    BY <1>11, TypeParts DEF Free, Shutdown, TypePc
  <2> QED BY <1>0, <1>c, <2>1, <2>2 DEF LossOne
<1>12. CASE Request(d)
  <2>1. base'[d] = txSent[d] /\ txSent'[d] = txSent[d]
    BY <1>12, DoneEffects DEF Effect
  <2>2. ctl'[d] # "up"
    BY <1>12, <1>c DEF Request
  <2> QED BY <1>c, <1>t, <2>1, <2>2 DEF LossOne
<1>13. CASE ~\E c \in Chan : TxStep(c)
  <2>1. UNCHANGED <<txFifo, held, active, queue, txSent, txGot, base>>
    BY <1>13, TxFrame
  <2>2. UNCHANGED sub
    BY <1>13, SubFrame DEF TxStep
  <2>3. Unaffected(d)
    BY <2>1, <2>2 DEF Unaffected, Effect, First
  <2> QED BY <1>2, <1>13, <2>3 DEF TxStep
<1> QED BY <1>3, <1>4, <1>5, <1>6, <1>7, <1>8, <1>9, <1>10, <1>11, <1>12, <1>13 DEF TxStep

-----------------------------------------------------------------------------
(* A channel that has the TX-done line for itself *)

LoneOne(d) ==
  /\ Off(d) \/ ctl[d] = "disarm again" => tick[d] = "none"
  /\ Off(d) => txEn[d] = FALSE

(* The write IRQ is not served for a line without users.                   *)
LEMMA NobodyServed ==
  ASSUME TypeOK, LineInv, NEW d \in Chan, \A c \in Chan : c = d,
         irqHeld[d] = FALSE, ctl[d] \notin {"disarm", "put"}
  PROVE  users = 0
<1>1. Users = {}
  BY DEF Users
<1> QED BY <1>1, FS_EmptySet DEF LineInv

LEMMA LoneInvStep ==
  ASSUME TypeOK, SubInv, RxInv, LineInv, LoneInv, [Next]_vars,
         \A c, d \in Chan : c = d
  PROVE  LoneInv'
<1> SUFFICES ASSUME txDoneIrq' = TRUE, NEW d \in Chan PROVE LoneOne(d)'
  BY DEF LoneInv, LoneOne, Off
<1>0. /\ LoneOne(d) /\ txDoneIrq = TRUE /\ \A c \in Chan : c = d
      /\ (sub[d] # NoSub => (sub[d].by = "client" => cl[d] = "submit")
                              /\ (sub[d].by = "tick" => tick[d] = "submit"))
      /\ (cl[d] # "idle" => ctl[d] = "up")
      /\ (irqHeld[d] = TRUE => ctl[d] \in {"drain", "starting", "up", "sync"})
      /\ (ctl[d] \in {"drain", "starting", "up"} => irqHeld[d] = TRUE)
  BY LineFrame DEF LoneInv, LoneOne, SubInv, LineInv, Off
<1>t. /\ cl \in [Chan -> {"idle", "submit", "etime"}] /\ ctl \in [Chan -> CtlPcs]
      /\ tick \in [Chan -> {"none", "poll", "clear", "submit"}] /\ txEn \in [Chan -> BOOLEAN]
      /\ sub \in [Chan -> {NoSub} \cup SubRec] /\ irqHeld \in [Chan -> BOOLEAN]
      /\ txDoneIrq \in BOOLEAN /\ (drain = NoDrain \/ drain \in DrainRec)
  BY TypeParts DEF TypePc, TypeBits, TypeLine, TypeRx
<1> DEFINE Done(v, h, t, e) ==
      /\ (\/ v \in {"down", "get", "failed", "last", "stopping", "free", "disarm again"}
          \/ v = "sync" /\ h = FALSE) => t = "none"
      /\ (\/ v \in {"down", "get", "failed", "last", "stopping", "free"}
          \/ v = "sync" /\ h = FALSE) => e = FALSE
<1>d. /\ Done(ctl[d], irqHeld[d], tick[d], txEn[d])
      /\ Done(ctl'[d], irqHeld'[d], tick'[d], txEn'[d]) => LoneOne(d)'
  BY <1>0 DEF LoneOne, Off
<1>1. ASSUME UNCHANGED <<ctl, irqHeld>>, tick[d] # "none"
      PROVE  LoneOne(d)'
  BY <1>1, <1>d
<1>2. ASSUME UNCHANGED <<ctl, irqHeld>>, tick'[d] = tick[d], txEn'[d] = txEn[d]
      PROVE  LoneOne(d)'
  BY <1>2, <1>d
<1>3. CASE TxIrq
  <2>1. users > 0 /\ UNCHANGED <<ctl, irqHeld>>
    BY <1>3 DEF TxIrq, line
  <2>2. irqHeld[d] = TRUE \/ ctl[d] \in {"disarm", "put"}
    <3>1. irqHeld[d] = FALSE /\ ctl[d] \notin {"disarm", "put"} => users = 0
      BY <1>0, NobodyServed
    <3>2. irqHeld[d] = TRUE \/ irqHeld[d] = FALSE
      BY <1>t
    <3> QED BY <2>1, <3>1, <3>2
  <2>3. ctl[d] \in {"drain", "starting", "up", "disarm", "put"} \/ (ctl[d] = "sync" /\ irqHeld[d] # FALSE)
    BY <1>0, <2>2
  <2> QED BY <1>d, <2>1, <2>3
<1>4. CASE SendDataArm(d)
  <2>1. UNCHANGED <<ctl, irqHeld>> /\ sub[d] # NoSub /\ sub[d].by \in Threads
    BY <1>4, <1>t DEF SendDataArm, ChanLockFree, line, SubRec, Threads
  <2>2. CASE sub[d].by = "client"
    BY <1>0, <1>d, <2>1, <2>2
  <2>3. CASE sub[d].by = "tick"
    BY <1>0, <1>1, <2>1, <2>3
  <2> QED BY <2>1, <2>2, <2>3 DEF Threads
<1>5. CASE LastTxDone(d) \/ TickClear(d)
  BY <1>1, <1>5 DEF LastTxDone, TickClear, line
<1>6. ASSUME NEW by \in Threads, NothingToSubmit(d, by) \/ SendData(d, by)
      PROVE  LoneOne(d)'
  <2>1. UNCHANGED <<ctl, irqHeld, txEn>>
    BY <1>6 DEF NothingToSubmit, SendData, line, txHw
  <2>2. CASE by = "tick"
    <3>1. tick[d] # "none"
      BY <1>6, <2>2 DEF NothingToSubmit, SendData, Submitting
    <3> QED BY <1>1, <2>1, <3>1
  <2>3. CASE by = "client"
    <3>1. UNCHANGED tick
      BY <1>0, <1>6, <2>3 DEF NothingToSubmit, SendData, Return
    <3> QED BY <1>2, <2>1, <3>1
  <2> QED BY <2>2, <2>3 DEF Threads
<1>7. CASE SendMessage(d) \/ Timeout(d) \/ TimeoutTick(d) \/ RemoteRead(d)
  BY <1>2, <1>7 DEF SendMessage, Timeout, TimeoutTick, RemoteRead, line, txHw, txCore
<1>8. CASE RemoteSend(d) \/ RxDeliver(d) \/ RxIrq \/ DrainRead \/ RxReturn
  BY <1>2, <1>8 DEF RemoteSend, RxDeliver, RxIrq, DrainRead, RxReturn, line, txHw, txCore
<1>9. CASE DrainAck
  <2>1. UNCHANGED <<irqHeld, tick, txEn>>
    BY <1>9 DEF DrainAck, line, txHw, txCore
  <2>2. CASE drain.by = "irq"
    BY <1>2, <1>9, <2>1, <2>2 DEF DrainAck
  <2>3. CASE drain.by # "irq"
    <3>1. /\ drain \in DrainRec /\ drain # NoDrain
          /\ ctl' = [ctl EXCEPT ![drain.chan] = IF drain.by = "start" THEN "up" ELSE "free"]
      BY <1>9, <1>t, <2>3 DEF DrainAck, LockFree
    <3>2. drain.chan = d /\ drain.by \in {"start", "stop"}
      BY <1>0, <2>3, <3>1 DEF DrainRec
    <3>3. drain.by = "stop" => ctl[d] = "stopping"
      BY <3>1, <3>2 DEF RxInv, Draining
    <3>4. ctl'[d] = IF drain.by = "start" THEN "up" ELSE "free"
      BY <1>t, <3>1, <3>2
    <3> QED BY <1>d, <2>1, <3>2, <3>3, <3>4
  <2> QED BY <2>2, <2>3
<1>10. CASE Request(d) \/ TxIrqGet(d) \/ DropStale(d) \/ Free(d)
  <2>1. UNCHANGED <<tick, txEn>>
    BY <1>10 DEF Request, TxIrqGet, DropStale, Free, txCore, txHw
  <2>2. \/ ctl[d] = "down" /\ ctl'[d] = "get"
        \/ ctl[d] = "get" /\ ctl'[d] \in {"drain", "failed"}
        \/ ctl[d] = "drain" /\ ctl'[d] = "starting"
        \/ ctl[d] = "last" /\ ctl'[d] = "stopping"
        \/ ctl[d] = "free" /\ ctl'[d] = "down"
    BY <1>0, <1>t, <1>10 DEF Request, TxIrqGet, DropStale, Free
  <2> QED BY <1>d, <2>1, <2>2
<1>11. CASE Shutdown(d)
  <2>1. UNCHANGED <<tick, txEn, irqHeld>> /\ ctl[d] \in {"up", "failed"} /\ ctl'[d] = "sync"
    BY <1>11, <1>t DEF Shutdown, txCore, txHw, line
  <2>2. ctl[d] = "failed" \/ irqHeld'[d] = TRUE
    BY <1>0, <2>1
  <2> QED BY <1>d, <2>1, <2>2
<1>12. CASE SyncRx(d)
  <2>1. UNCHANGED <<tick, txEn>> /\ ctl[d] = "sync" /\ ctl'[d] = AfterSync(d)
    BY <1>12, <1>t DEF SyncRx, txCore, txHw
  <2>2. ctl'[d] = "disarm" \/ (ctl'[d] = "last" /\ irqHeld[d] = FALSE)
    BY <1>t, <2>1 DEF AfterSync
  <2> QED BY <1>d, <2>1, <2>2
<1>13. CASE Disarm(d)
  <2>1. /\ UNCHANGED tick /\ txEn'[d] = FALSE
        /\ (ctl[d] = "disarm again" \/ ctl'[d] = "put")
    BY <1>13, <1>t DEF Disarm, txCore
  <2> QED BY <1>d, <2>1
<1>14. CASE TxIrqPut(d)
  <2>1. ctl'[d] = "wait"
    BY <1>14, <1>t DEF TxIrqPut
  <2> QED BY <1>d, <2>1
<1>15. CASE TxIrqPutDone(d)
  <2>1. ctl'[d] = "disarm again" /\ tick'[d] = "none"
    BY <1>15, <1>t DEF TxIrqPutDone, TxHandlerIdle, AfterPut, txCore
  <2> QED BY <1>d, <2>1
<1>16. CASE TimerCheck(d)
  BY <1>0, <1>16 DEF TimerCheck
<1>17. CASE UNCHANGED vars
  BY <1>2, <1>17 DEF vars, line, txHw, txCore
<1> QED BY <1>0, <1>3, <1>4, <1>5, <1>6, <1>7, <1>8, <1>9, <1>10, <1>11, <1>12, <1>13, <1>14,
           <1>15, <1>16, <1>17
        DEF Next, RxHandler, Sending, TxDone, Control, Submit, Threads

-----------------------------------------------------------------------------
(* The invariant *)

LEMMA InitTypes == Init => TypeOK
<1> SUFFICES ASSUME Init PROVE TypeOK
  OBVIOUS
<1> USE MsgboxAssumption DEF Init, None
<1>1. TypeTx
  BY DEF TypeTx
<1>2. TypeBits /\ TypePc
  BY DEF TypeBits, TypePc, CtlPcs
<1>3. TypeLine /\ TypeRx
  BY DEF TypeLine, TypeRx
<1> QED BY <1>1, <1>2, <1>3, TypeParts

LEMMA InitParts ==
  Init => /\ SubInv /\ RxInv /\ LineInv /\ OrderInv /\ TimerInv /\ LapseInv /\ AcceptInv
          /\ LossInv /\ LoneInv
<1> SUFFICES ASSUME Init
             PROVE  /\ SubInv /\ RxInv /\ LineInv /\ OrderInv /\ TimerInv /\ LapseInv
                    /\ AcceptInv /\ LossInv /\ LoneInv
  OBVIOUS
<1>1. SubInv /\ RxInv
  BY DEF Init, SubInv, RxInv, Draining
<1>2. LineInv
  <2>1. Users = {}
    BY DEF Users, Init
  <2> QED BY <2>1, FS_EmptySet DEF LineInv, Init
<1>3. OrderInv
  BY DEF Init, OrderInv, Ordered, Rising, Above, Under, Apart, None, First
<1>4. TimerInv /\ LossInv /\ LoneInv
  BY DEF Init, TimerInv, LossInv, LoneInv, None
<1>5. LapseInv /\ AcceptInv
  BY DEF Init, LapseInv, AcceptInv, First
<1> QED BY <1>1, <1>2, <1>3, <1>4, <1>5

LEMMA TypeStep ==
  ASSUME TypeOK, SubInv, RxInv, LineInv, [Next]_vars
  PROVE  TypeOK'
<1>1. TypeTx' /\ TypeBits' /\ TypePc'
  BY TypeTxStep, TypeBitsStep, TypePcStep
<1>2. TypeLine' /\ TypeRx'
  BY TypeLineStep, LineInvStep, TypeRxStep
<1> QED BY <1>1, <1>2, TypeParts

(* The driver keeps its invariant: types, the thread behind a send_data()   *)
(* in progress, the receive handler and the channels it serves, the users   *)
(* of the TX-done line, the order of the messages, the timer between look   *)
(* and tick, the message the FIFO took last, and the place of every message *)
(* that was not read yet.                                                   *)
THEOREM MsgboxInvariant == Spec => []MsgboxInv
<1>1. Init => MsgboxInv
  BY InitTypes, InitParts DEF MsgboxInv
<1>2. MsgboxInv /\ [Next]_vars => MsgboxInv'
  <2> SUFFICES ASSUME MsgboxInv, [Next]_vars PROVE MsgboxInv'
    OBVIOUS
  <2> USE DEF MsgboxInv
  <2>1. TypeOK' /\ SubInv' /\ RxInv' /\ LineInv'
    BY TypeStep, SubInvStep, RxInvStep, LineInvStep
  <2>2. OrderInv' /\ TimerInv' /\ LapseInv' /\ AcceptInv' /\ LossInv'
    BY OrderInvStep, TimerInvStep, LapseInvStep, AcceptInvStep, LossInvStep
  <2> QED BY <2>1, <2>2
<1> QED BY <1>1, <1>2, PTL DEF Spec

(* Types, and no FIFO ever holds more than it can: send_data() and          *)
(* last_tx_done() never write a full one, for any depth and any number of   *)
(* channels.                                                                *)
THEOREM TypeCorrect == Spec => []TypeOK
<1>1. MsgboxInv => TypeOK
  BY DEF MsgboxInv
<1> QED BY <1>1, MsgboxInvariant, PTL

(* tx_irq_users counts the channels that need the TX-done line, and every   *)
(* channel that is up in write-IRQ mode is one of them.                     *)
THEOREM UsersCounted == Spec => []UsersAreStarted
<1>1. MsgboxInv => UsersAreStarted
  BY UsersFromLine DEF MsgboxInv
<1> QED BY <1>1, MsgboxInvariant, PTL

(* The receive handler only delivers to a channel with a client, and outside *)
(* the lock a read pending bit says exactly that a message waits.           *)
THEOREM ReceivesConsistently == Spec => []RxConsistent
<1>1. MsgboxInv => RxConsistent
  <2> SUFFICES ASSUME MsgboxInv PROVE RxConsistent
    OBVIOUS
  <2>0. RxInv /\ rxPend \in [Chan -> BOOLEAN]
    BY TypeParts DEF MsgboxInv, TypeBits
  <2>1. DeliversToClient
    BY <2>0 DEF RxInv, DeliversToClient
  <2>2. ASSUME LockFree, NEW c \in Chan
        PROVE  rxPend[c] <=> rxFifo[c] # <<>>
    <3>1. rxFifo[c] # <<>> => rxPend[c] = TRUE
      BY <2>0 DEF RxInv
    <3>2. rxPend[c] = TRUE => rxFifo[c] # <<>>
      BY <2>0, <2>2 DEF RxInv, LockFree
    <3>3. rxPend[c] = TRUE \/ rxPend[c] = FALSE
      BY <2>0
    <3> QED BY <3>1, <3>2, <3>3
  <2> QED BY <2>1, <2>2 DEF RxConsistent, PendingMeansMessage
<1> QED BY <1>1, MsgboxInvariant, PTL

(* A request is reported done only after the receiver's FIFO took its       *)
(* message: in write-IRQ mode whatever times out, and with the poll timer   *)
(* unless two blocking sends gave up during one of its visits.              *)
THEOREM DoneMeansAccepted == Spec => DoneIsAccepted
<1>1. ASSUME MsgboxInv, NEW c \in Chan, tick[c] = "clear", active[c] # None, ctl[c] = "up",
             txDoneIrq \/ lapsed[c] < 2
      PROVE  active[c] = Newest(c)
  <2>1. txDoneIrq \in BOOLEAN /\ lapsed \in [Chan -> Nat]
    BY <1>1, TypeParts DEF MsgboxInv, TypeLine, TypePc
  <2>2. held[c] # None => txDoneIrq = FALSE
    BY <1>1 DEF MsgboxInv, OrderInv
  <2>3. txDoneIrq = FALSE => held[c] = None
    <3>1. txDoneIrq = FALSE => lapsed[c] <= 1
      BY <1>1, <2>1
    <3> QED BY <1>1, <3>1 DEF MsgboxInv, TimerInv
  <2>4. held[c] # active[c]
    BY <1>1, <2>1, <2>2, <2>3
  <2> QED BY <1>1, <2>4 DEF MsgboxInv, AcceptInv
<1>2. MsgboxInv =>
        (\A c \in Chan : ReportsDone(c) /\ (txDoneIrq \/ lapsed[c] < 2) => active[c] = Newest(c))
  BY <1>1 DEF ReportsDone
<1> QED BY <1>2, MsgboxInvariant, PTL DEF DoneIsAccepted

(* After shutdown() nobody works any more for a channel that has its line   *)
(* for itself: no IRQ is armed, no handler will deliver or submit.          *)
THEOREM QuietWhenAlone ==
  ASSUME \A c, d \in Chan : c = d
  PROVE  Spec => []QuietAfterShutdown
<1>1. Init => LoneInv
  BY InitParts
<1>2. MsgboxInv /\ LoneInv /\ [Next]_vars => LoneInv'
  BY LoneInvStep DEF MsgboxInv
<1>3. MsgboxInv /\ LoneInv => QuietAfterShutdown
  <2> SUFFICES ASSUME MsgboxInv, LoneInv, NEW c \in Chan, txDoneIrq, ctl[c] \in {"free", "down"}
               PROVE  /\ ~txEn[c] /\ ~rxEn[c] /\ tick[c] = "none" /\ sub[c] = NoSub
                      /\ rxBuf[c] = <<>> /\ c \notin rxTodo
    BY DEF QuietAfterShutdown
  <2>0. txDoneIrq = TRUE /\ rxEn[c] \in BOOLEAN /\ sub \in [Chan -> {NoSub} \cup SubRec]
    BY TypeParts DEF MsgboxInv, TypeLine, TypeBits, TypePc
  <2>1. tick[c] = "none" /\ txEn[c] = FALSE
    BY <2>0 DEF LoneInv, Off
  <2>2. rxEn[c] # TRUE /\ rxBuf[c] = <<>> /\ c \notin rxTodo
    BY DEF MsgboxInv, RxInv
  <2>3. ~rxEn[c]
    BY <2>0, <2>2
  <2>4. sub[c] = NoSub
    BY <2>0, <2>1 DEF MsgboxInv, SubInv, SubRec
  <2> QED BY <2>1, <2>2, <2>3, <2>4
<1> QED BY <1>1, <1>2, <1>3, MsgboxInvariant, PTL DEF Spec

-----------------------------------------------------------------------------
(* Pending is rising and contains what is somewhere *)

LEMMA RisingConcat ==
  ASSUME NEW S \in SUBSET Int, NEW a \in Seq(S), NEW b \in Seq(S),
         Rising(a), Rising(b), Apart(a, b, 1)
  PROVE  a \o b \in Seq(S) /\ Rising(a \o b)
<1> DEFINE p == a \o b
<1>1. /\ p \in Seq(S) /\ Len(p) = Len(a) + Len(b)
      /\ \A i \in 1 .. Len(a) + Len(b) : p[i] = IF i <= Len(a) THEN a[i] ELSE b[i - Len(a)]
  BY ConcatProperties
<1>2. Len(a) \in Nat /\ Len(b) \in Nat
  OBVIOUS
<1> HIDE DEF p
<1>3. ASSUME NEW i \in 1 .. Len(p), NEW j \in 1 .. Len(p), i < j
      PROVE  p[i] < p[j]
  <2>1. CASE j <= Len(a)
    <3>1. i \in 1 .. Len(a) /\ j \in 1 .. Len(a) /\ p[i] = a[i] /\ p[j] = a[j]
      BY <1>1, <1>2, <1>3, <2>1
    <3> QED BY <1>3, <3>1 DEF Rising
  <2>2. CASE i > Len(a)
    <3>1. /\ i - Len(a) \in 1 .. Len(b) /\ j - Len(a) \in 1 .. Len(b)
          /\ i - Len(a) < j - Len(a)
      BY <1>1, <1>2, <1>3, <2>2
    <3>2. p[i] = b[i - Len(a)] /\ p[j] = b[j - Len(a)]
      BY <1>1, <1>2, <1>3, <2>2
    <3> QED BY <3>1, <3>2 DEF Rising
  <2>3. CASE i <= Len(a) /\ j > Len(a)
    <3>1. i \in 1 .. Len(a) /\ j - Len(a) \in 1 .. Len(b)
      BY <1>1, <1>2, <1>3, <2>3
    <3>2. p[i] = a[i] /\ p[j] = b[j - Len(a)]
      BY <1>1, <1>2, <1>3, <2>3
    <3> QED BY <3>1, <3>2 DEF Apart
  <2> QED BY <1>1, <1>2, <1>3, <2>1, <2>2, <2>3
<1> QED BY <1>1, <1>3 DEF Rising, p

LEMMA ApartConcat ==
  ASSUME NEW S \in SUBSET Int, NEW a \in Seq(S), NEW b \in Seq(S), NEW q \in Seq(S)
  PROVE  /\ Apart(a, q, 1) /\ Apart(b, q, 1) => Apart(a \o b, q, 1)
         /\ Apart(q, a, 1) /\ Apart(q, b, 1) => Apart(q, a \o b, 1)
<1> DEFINE p == a \o b
<1>1. /\ p \in Seq(S) /\ Len(p) = Len(a) + Len(b)
      /\ \A i \in 1 .. Len(a) + Len(b) : p[i] = IF i <= Len(a) THEN a[i] ELSE b[i - Len(a)]
  BY ConcatProperties
<1>2. Len(a) \in Nat /\ Len(b) \in Nat
  OBVIOUS
<1> HIDE DEF p
<1>3. \A i \in 1 .. Len(p) : \/ i \in 1 .. Len(a) /\ p[i] = a[i]
                             \/ i - Len(a) \in 1 .. Len(b) /\ p[i] = b[i - Len(a)]
  BY <1>1, <1>2
<1>4. Apart(a, q, 1) /\ Apart(b, q, 1) => Apart(p, q, 1)
  BY <1>3 DEF Apart
<1>5. Apart(q, a, 1) /\ Apart(q, b, 1) => Apart(q, p, 1)
  BY <1>3 DEF Apart
<1> QED BY <1>4, <1>5 DEF p

LEMMA ElementsConcat ==
  ASSUME NEW S, NEW a \in Seq(S), NEW b \in Seq(S)
  PROVE  \A x : x \in Elements(a) \/ x \in Elements(b) => x \in Elements(a \o b)
<1> DEFINE p == a \o b
<1>1. /\ Len(p) = Len(a) + Len(b)
      /\ \A i \in 1 .. Len(a) + Len(b) : p[i] = IF i <= Len(a) THEN a[i] ELSE b[i - Len(a)]
  BY ConcatProperties
<1>2. Len(a) \in Nat /\ Len(b) \in Nat
  OBVIOUS
<1> HIDE DEF p
<1>3. ASSUME NEW i \in 1 .. Len(a) PROVE a[i] \in Elements(p)
  <2>1. i \in 1 .. Len(p) /\ p[i] = a[i]
    BY <1>1, <1>2
  <2> QED BY <2>1 DEF Elements
<1>4. ASSUME NEW i \in 1 .. Len(b) PROVE b[i] \in Elements(p)
  <2>1. /\ i + Len(a) \in 1 .. Len(p) /\ ~(i + Len(a) <= Len(a))
        /\ (i + Len(a)) - Len(a) = i
    BY <1>1, <1>2
  <2>2. p[i + Len(a)] = b[i]
    BY <1>1, <2>1
  <2> QED BY <2>1, <2>2 DEF Elements
<1> QED BY <1>3, <1>4 DEF Elements, p

(* What is read, written, perhaps held, and queued, one after the other.   *)
InOrder(f, hs, q, g, M) ==
  /\ f \o hs \in Seq(1 .. M) /\ hs \in Seq(1 .. M) /\ f \o hs \o q \in Seq(1 .. M)
  /\ <<g>> \o (f \o hs \o q) \in Seq(0 .. M)
  /\ Rising(<<g>> \o (f \o hs \o q))

LEMMA OrderedPending ==
  ASSUME NEW M \in Nat, NEW f \in Seq(1 .. M), NEW q \in Seq(1 .. M), NEW h \in 0 .. M,
         NEW g \in 0 .. M, NEW s \in 0 .. M, Ordered(f, h, q, 1, g, s)
  PROVE  \A hs \in {<<>>, <<h>>} : (h = None => hs = <<>>) => InOrder(f, hs, q, g, M)
<1> TAKE hs \in {<<>>, <<h>>}
<1> HAVE h = None => hs = <<>>
<1> DEFINE S == 0 .. M
<1>0. S \in SUBSET Int /\ 1 .. M \in SUBSET Int
  OBVIOUS
<1>1. hs = <<>> \/ (hs = <<h>> /\ h \in 1 .. M)
  BY DEF None
<1>2. hs \in Seq(1 .. M)
  <2>1. <<>> \in Seq(1 .. M)
    OBVIOUS
  <2>2. h \in 1 .. M => <<h>> \in Seq(1 .. M)
    OBVIOUS
  <2> QED BY <1>1, <2>1, <2>2
<1>3. Rising(hs) /\ Apart(f, hs, 1) /\ Apart(hs, q, 1) /\ Apart(<<g>>, hs, 1)
  BY <1>1 DEF Ordered, Rising, Apart, Under, Above, None
<1>4. Rising(f) /\ Rising(q) /\ Apart(f, q, 1)
  BY DEF Ordered
<1>5. f \o hs \in Seq(1 .. M) /\ Rising(f \o hs)
  BY <1>0, <1>2, <1>3, <1>4, RisingConcat
<1>6. Apart(f \o hs, q, 1)
  BY <1>0, <1>2, <1>3, <1>4, ApartConcat
<1>7. f \o hs \o q \in Seq(1 .. M) /\ Rising(f \o hs \o q)
  BY <1>0, <1>4, <1>5, <1>6, RisingConcat
<1>8. /\ <<g>> \in Seq(S) /\ f \in Seq(S) /\ hs \in Seq(S) /\ q \in Seq(S)
      /\ f \o hs \in Seq(S) /\ f \o hs \o q \in Seq(S)
  <2>1. 1 .. M \subseteq S
    OBVIOUS
  <2> HIDE DEF S
  <2>2. f \in Seq(S) /\ hs \in Seq(S) /\ q \in Seq(S) /\ f \o hs \in Seq(S) /\ f \o hs \o q \in Seq(S)
    BY <1>2, <1>5, <1>7, <2>1, SeqMonotonic
  <2> QED BY <2>2 DEF S
<1>9. Rising(<<g>>) /\ Apart(<<g>>, f, 1) /\ Apart(<<g>>, q, 1)
  BY DEF Ordered, Rising, Apart, Above
<1> HIDE DEF S
<1>10. Apart(<<g>>, f \o hs, 1)
  BY <1>0, <1>3, <1>8, <1>9, ApartConcat
<1>11. Apart(<<g>>, f \o hs \o q, 1)
  BY <1>0, <1>8, <1>9, <1>10, ApartConcat
<1>12. <<g>> \o (f \o hs \o q) \in Seq(S) /\ Rising(<<g>> \o (f \o hs \o q))
  BY <1>0, <1>7, <1>8, <1>9, <1>11, RisingConcat
<1> QED BY <1>2, <1>5, <1>7, <1>12 DEF S, InOrder

HeldPending(c) == IF held[c] # None /\ held[c] = active[c] THEN <<held[c]>> ELSE <<>>
QueuePending(c) == IF First(c) = 2 THEN Tail(queue[c]) ELSE queue[c]

LEMMA PendingParts ==
  ASSUME MsgboxInv, NEW c \in Chan
  PROVE  /\ Pending(c) = txFifo[c] \o HeldPending(c) \o QueuePending(c)
         /\ QueuePending(c) \in Seq(1 .. MaxTx) /\ HeldPending(c) \in Seq(1 .. MaxTx)
         /\ txFifo[c] \in Seq(1 .. MaxTx) /\ txFifo[c] \o HeldPending(c) \in Seq(1 .. MaxTx)
         /\ Rising(<<txGot[c]>> \o Pending(c)) /\ <<txGot[c]>> \o Pending(c) \in Seq(0 .. MaxTx)
         /\ \A j \in First(c) .. Len(queue[c]) : queue[c][j] \in Elements(QueuePending(c))
<1>0. /\ txFifo[c] \in Seq(1 .. MaxTx) /\ queue[c] \in Seq(1 .. MaxTx)
      /\ held[c] \in 0 .. MaxTx /\ txGot[c] \in 0 .. MaxTx /\ txSent[c] \in 0 .. MaxTx
      /\ sub[c] \in {NoSub} \cup SubRec /\ MaxTx \in Nat
      /\ First(c) \in {1, 2}
  BY TypeParts, MsgboxAssumption DEF MsgboxInv, TypeTx, TypePc, First
<1>1. First(c) = 2 <=> sub[c] # NoSub /\ ~sub[c].full
  <2>1. sub[c] # NoSub => sub[c].full \in BOOLEAN
    BY <1>0 DEF SubRec
  <2>2. CASE sub[c] = NoSub
    BY <2>2 DEF First
  <2>3. CASE sub[c] # NoSub /\ sub[c].full = TRUE
    BY <2>3 DEF First
  <2>4. CASE sub[c] # NoSub /\ sub[c].full = FALSE
    BY <2>4 DEF First
  <2> QED BY <2>1, <2>2, <2>3, <2>4
<1>2. Pending(c) = txFifo[c] \o HeldPending(c) \o QueuePending(c)
  BY <1>1 DEF Pending, HeldPending, QueuePending
<1>3. First(c) = 2 => queue[c] # <<>>
  BY <1>1 DEF MsgboxInv, SubInv
<1>4. Ordered(txFifo[c], held[c], queue[c], First(c), txGot[c], txSent[c])
  BY DEF MsgboxInv, OrderInv
<1>5. Ordered(txFifo[c], held[c], QueuePending(c), 1, txGot[c], txSent[c])
  <2>1. CASE First(c) = 2
    <3>1. Ordered(txFifo[c], held[c], queue[c], 2, txGot[c], txSent[c])
      BY <1>4, <2>1
    <3>2. Ordered(txFifo[c], held[c], Tail(queue[c]), 1, txGot[c], txSent[c])
      BY <1>0, <1>3, <2>1, <3>1, OrderedAccept
    <3> QED BY <2>1, <3>2 DEF QueuePending
  <2>2. CASE First(c) = 1
    BY <1>4, <2>2 DEF QueuePending
  <2> QED BY <1>0, <2>1, <2>2
<1>6. /\ QueuePending(c) \in Seq(1 .. MaxTx)
      /\ \A j \in First(c) .. Len(queue[c]) : queue[c][j] \in Elements(QueuePending(c))
  <2>1. CASE First(c) = 2
    <3>1. /\ Tail(queue[c]) \in Seq(1 .. MaxTx) /\ Len(queue[c]) \in Nat
          /\ Len(Tail(queue[c])) = Len(queue[c]) - 1
          /\ \A i \in 1 .. Len(queue[c]) - 1 : Tail(queue[c])[i] = queue[c][i + 1]
      BY <1>0, <1>3, <2>1, HeadTail
    <3>2. ASSUME NEW j \in 2 .. Len(queue[c])
          PROVE  queue[c][j] \in Elements(Tail(queue[c]))
      <4>1. j - 1 \in 1 .. Len(Tail(queue[c])) /\ j - 1 \in 1 .. Len(queue[c]) - 1
            /\ (j - 1) + 1 = j
        BY <3>1
      <4>2. Tail(queue[c])[j - 1] = queue[c][j]
        BY <3>1, <4>1
      <4> QED BY <4>1, <4>2 DEF Elements
    <3> QED BY <2>1, <3>1, <3>2 DEF QueuePending
  <2>2. CASE First(c) = 1
    BY <1>0, <2>2 DEF QueuePending, Elements
  <2> QED BY <1>0, <2>1, <2>2
<1>7. HeldPending(c) \in {<<>>, <<held[c]>>} /\ (held[c] = None => HeldPending(c) = <<>>)
  BY DEF HeldPending
<1>8. /\ txFifo[c] \o HeldPending(c) \in Seq(1 .. MaxTx) /\ HeldPending(c) \in Seq(1 .. MaxTx)
      /\ <<txGot[c]>> \o (txFifo[c] \o HeldPending(c) \o QueuePending(c)) \in Seq(0 .. MaxTx)
      /\ Rising(<<txGot[c]>> \o (txFifo[c] \o HeldPending(c) \o QueuePending(c)))
  <2> DEFINE f == txFifo[c]
             h == held[c]
             q == QueuePending(c)
             hs == HeldPending(c)
             g == txGot[c]
  <2>1. /\ f \in Seq(1 .. MaxTx) /\ q \in Seq(1 .. MaxTx) /\ h \in 0 .. MaxTx
        /\ g \in 0 .. MaxTx /\ txSent[c] \in 0 .. MaxTx /\ MaxTx \in Nat
        /\ Ordered(f, h, q, 1, g, txSent[c])
        /\ hs \in {<<>>, <<h>>} /\ (h = None => hs = <<>>)
    BY <1>0, <1>5, <1>6, <1>7
  <2> HIDE DEF f, h, q, hs, g, None
  <2>2. \A x \in {<<>>, <<h>>} : (h = None => x = <<>>) => InOrder(f, x, q, g, MaxTx)
    BY <2>1, OrderedPending
  <2>3. InOrder(f, hs, q, g, MaxTx)
    BY <2>1, <2>2
  <2> QED BY <2>3 DEF InOrder, f, h, q, hs, g
<1> QED BY <1>0, <1>2, <1>6, <1>8

(* The remote reads the messages of a channel in the order they were sent,  *)
(* each at most once, whatever times out, and none is lost while the        *)
(* channel is up and no send timed out.                                     *)
THEOREM OrderedWithoutLoss == Spec => []SentOnceInOrder
<1>1. MsgboxInv => SentInOrder
  <2> SUFFICES ASSUME MsgboxInv, NEW c \in Chan,
                      NEW i \in 1 .. Len(<<txGot[c]>> \o Pending(c)) - 1
               PROVE  (<<txGot[c]>> \o Pending(c))[i] < (<<txGot[c]>> \o Pending(c))[i + 1]
    BY DEF SentInOrder
  <2> DEFINE p == <<txGot[c]>> \o Pending(c)
  <2>1. Rising(p) /\ Len(p) \in Nat
    BY PendingParts
  <2> HIDE DEF p
  <2>2. \A j \in 1 .. Len(p) - 1 : p[j] < p[j + 1]
    BY <2>1 DEF Rising
  <2> QED BY <2>2 DEF p
<1>2. MsgboxInv => NoneLost
  <2> SUFFICES ASSUME MsgboxInv, NEW c \in Chan, ctl[c] = "up", timeouts = 0,
                      NEW m \in base[c] + 1 .. txSent[c], ~(m <= txGot[c])
               PROVE  m \in Elements(Pending(c))
    BY DEF NoneLost
  <2>1. /\ Somewhere(m, txFifo[c], held[c], queue[c], First(c), txGot[c])
        /\ (held[c] > base[c] => held[c] = active[c])
    BY DEF MsgboxInv, LossInv
  <2>2. m > base[c] /\ m # None
    <3>1. base[c] \in Nat
      BY TypeParts, MsgboxAssumption DEF MsgboxInv, TypeTx
    <3> QED BY <3>1 DEF None
  <2>3. m = held[c] => m \in Elements(HeldPending(c))
    BY <2>1, <2>2 DEF HeldPending, Elements
  <2>4. (\E i \in 1 .. Len(txFifo[c]) : txFifo[c][i] = m) => m \in Elements(txFifo[c])
    BY DEF Elements
  <2>5. (\E j \in First(c) .. Len(queue[c]) : queue[c][j] = m) => m \in Elements(QueuePending(c))
    BY PendingParts
  <2>6. \/ m \in Elements(HeldPending(c)) \/ m \in Elements(txFifo[c])
        \/ m \in Elements(QueuePending(c))
    BY <2>1, <2>3, <2>4, <2>5 DEF Somewhere
  <2>7. m \in Elements(txFifo[c] \o HeldPending(c)) \/ m \in Elements(QueuePending(c))
    BY <2>6, PendingParts, ElementsConcat
  <2>8. m \in Elements(txFifo[c] \o HeldPending(c) \o QueuePending(c))
    BY <2>7, PendingParts, ElementsConcat
  <2> QED BY <2>8, PendingParts
<1> QED BY <1>1, <1>2, MsgboxInvariant, PTL DEF SentOnceInOrder

============
