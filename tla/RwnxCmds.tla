------------------------------ MODULE RwnxCmds ------------------------------
(***************************************************************************)
(* The command manager of the AIC8800 Wi-Fi driver (rwnx_cmds.c), the      *)
(* functions that send through it (rwnx_send_msg() and rwnx_send_msg1())   *)
(* and the SDIO thread that transmits the one command buffer.              *)
(*                                                                         *)
(* A command is sent by its caller if the queue is empty and deferred to a *)
(* work otherwise; only the first in the queue is with the firmware.  The  *)
(* confirm completes it.  Whoever sent it waits with a timeout, after      *)
(* which the manager is crashed for good.  Queue and flags are under       *)
(* cmd_mgr->lock, so what a function does between lock and unlock is one   *)
(* step; what it reads and does outside is a step of its own.              *)
(***************************************************************************)
EXTENDS Naturals, Sequences, SequencesExt

CONSTANTS Callers,      (* threads that send commands                       *)
          NumSlots,     (* RWNX_CMD_ARRAY_SIZE: 20                          *)
          MaxQueued,    (* RWNX_CMD_MAX_QUEUED: 16                          *)
          Kinds,        (* the kinds of messages each caller sends          *)
          MaxSends,     (* bound: messages sent                             *)
          MaxFails      (* bound: transmissions that fail                   *)

(* "plain" wants a confirm; "wanted" also its data; "traffic" is            *)
(* ME_TRAFFIC_IND_REQ or MM_SET_ARPOFFLOAD_REQ; "deferred" comes from       *)
(* rwnx_send_msg1(defer); "silent" has no confirm.                          *)
AllKinds == {"plain", "wanted", "traffic", "deferred", "silent"}

ASSUME RwnxCmdsAssumption ==
  /\ Kinds \in [Callers -> SUBSET AllKinds]
  /\ "worker" \notin Callers
  /\ NumSlots \in Nat \ {0} /\ MaxQueued \in Nat \ {0}
  /\ MaxSends \in Nat /\ MaxFails \in Nat

VARIABLES
  cmds,         (* the queue: slots, oldest first; queue_sz is its length   *)
  cmd,          (* cmd_array                                                *)
  crashed,      (* state = RWNX_CMD_MGR_STATE_CRASHED                       *)
  next_tkn,     (* the next token                                           *)
  queued,       (* cmd_work is queued                                       *)
  pc, at,       (* every caller's and the work's place and command          *)
  buf,          (* bus->cmd_buf                                             *)
  txstate,      (* cmd_txstate: the buffer is to be sent                    *)
  trgg,         (* bustx_trgg                                               *)
  txHeld,       (* the SDIO thread holds cmd_txsema: it has sent            *)
  inbox,        (* messages the firmware has not answered                   *)
  missed,       (* history: a traffic command's wake-up was left out        *)
  mixed,        (* history: a message was written over an unsent one        *)
  sends, fails  (* how much of the bounds is used                           *)

mgr  == <<cmds, cmd, crashed, next_tkn>>
bus  == <<buf, txstate, trgg, txHeld>>
bound == <<sends, fails>>
seen  == <<missed, mixed>>
vars == <<mgr, queued, pc, at, bus, inbox, seen, bound>>

Slots     == 1 .. NumSlots
Worker    == "worker"
Procs     == Callers \cup {Worker}
NoMessage == [id |-> "silent", tkn |-> 0]
Unused    == [used |-> FALSE, id |-> "silent", tkn |-> 0, push |-> FALSE,
              cfm |-> FALSE, done |-> FALSE, complete |-> FALSE, got |-> 0]

Init ==
  /\ cmds = << >> /\ cmd = [s \in Slots |-> Unused] /\ crashed = FALSE
  /\ next_tkn = 1 /\ queued = FALSE
  /\ pc = [p \in Procs |-> "idle"] /\ at = [p \in Procs |-> 1]
  /\ buf = NoMessage /\ txstate = FALSE /\ trgg = FALSE /\ txHeld = FALSE
  /\ inbox = << >> /\ missed = FALSE /\ mixed = FALSE /\ sends = 0 /\ fails = 0

Goes(p, place)  == pc' = [pc EXCEPT ![p] = place] /\ UNCHANGED at
Done(p, place)  == pc' = [pc EXCEPT ![p] = place] /\ at' = [at EXCEPT ![p] = 1]
Queued(s)       == \E i \in DOMAIN cmds : cmds[i] = s
Without(s)      == RemoveAt(cmds, CHOOSE i \in DOMAIN cmds : cmds[i] = s)
AnyHead         == cmds # << >>                                   \* mutant
HeadToPush      == cmds # << >> /\ cmd[cmds[1]].push

(* rwnx_cmd_free(): of what a free slot holds only its flags are ever read. *)
Freed(s) == [Unused EXCEPT !.done = cmd[s].done]
Free(s)  == cmd' = [cmd EXCEPT ![s] = Freed(s)]

-----------------------------------------------------------------------------
(* rwnx_send_msg(), rwnx_send_msg1() *)

(* rwnx_cmd_malloc(): the first free slot, whose flags are left as they     *)
(* were; a caller that finds none is outside the model.                     *)
FirstFree == CHOOSE s \in Slots : ~cmd[s].used /\ \A r \in 1 .. s - 1 : cmd[r].used

Send(t, k) ==
  /\ pc[t] = "idle"
  /\ sends < MaxSends /\ sends' = sends + 1
  /\ \E s \in Slots : ~cmd[s].used
  /\ cmd' = [cmd EXCEPT ![FirstFree].used = TRUE, ![FirstFree].id = k]
  /\ at' = [at EXCEPT ![t] = FirstFree]
  /\ pc' = [pc EXCEPT ![t] = CASE k = "wanted" -> "empty" [] k = "silent" -> "write"
                               [] OTHER -> "queue"]
  /\ UNCHANGED <<cmds, crashed, next_tkn, queued, bus, inbox, seen, fails>>

(* "wait for cmd queue empty", which lasts no longer than the lock.         *)
WaitEmpty(t) ==
  /\ pc[t] = "empty"
  /\ crashed \/ cmds = << >>
  /\ Goes(t, "queue")
  /\ UNCHANGED <<mgr, queued, bus, inbox, seen, bound>>

-----------------------------------------------------------------------------
(* cmd_mgr_queue(), cmd_mgr_queue_force_defer() *)

FullLate == cmds # << >> /\ Len(cmds) > MaxQueued                 \* mutant
Full == cmds # << >> /\ Len(cmds) = MaxQueued

(* -EPIPE or -ENOMEM: the caller frees the command.                         *)
Rejected(t) ==
  /\ pc[t] = "queue"
  /\ crashed \/ Full
  /\ Free(at[t])
  /\ Done(t, "idle")
  /\ UNCHANGED <<cmds, crashed, next_tkn, queued, bus, inbox, seen, bound>>

DefersOnlyToPush(last) == last.push                               \* mutant
Busy(last) == last.push \/ last.cfm

Defers(s) == \/ cmd[s].id \in {"traffic", "deferred"}
             \/ cmds # << >> /\ Busy(cmd[cmds[Len(cmds)]])

Queue(t) ==
  LET s == at[t]
  IN /\ pc[t] = "queue"
     /\ ~crashed /\ ~Full
     /\ cmd' = [cmd EXCEPT ![s].push = @ \/ Defers(s), ![s].cfm = TRUE,
                           ![s].tkn = next_tkn, ![s].complete = FALSE]
     /\ next_tkn' = next_tkn + 1
     /\ cmds' = Append(cmds, s)
     /\ Goes(t, CASE ~Defers(s) -> "write" [] cmd[s].id = "deferred" -> "wake"
                   [] OTHER -> "check")
     /\ UNCHANGED <<crashed, queued, bus, inbox, seen, bound>>

(* WAKE_CMD_WORK(), in cmd_mgr_queue() only if the queue is short, and that *)
(* is read without the lock.  The caller returns without an answer.         *)
Wakes(t) == pc[t] = "wake" \/ Len(cmds) <= 1

Wake(t) ==
  /\ pc[t] \in {"wake", "check"}
  /\ queued' = (queued \/ Wakes(t))
  /\ missed' = (missed \/ (~Wakes(t) /\ HeadToPush /\ cmds[1] = at[t]
                                     /\ cmd[at[t]].id = "traffic"))
  /\ Done(t, "idle")
  /\ UNCHANGED <<mgr, bus, inbox, mixed, bound>>

-----------------------------------------------------------------------------
(* A caller or the work sends a command and waits for it *)

(* The work: the first command of the queue, if it waits for its push.      *)
WorkStarts ==
  /\ pc[Worker] = "idle" /\ queued
  /\ queued' = FALSE
  /\ Goes(Worker, "scan")
  /\ UNCHANGED <<mgr, bus, inbox, seen, bound>>

WorkScans ==
  /\ pc[Worker] = "scan"
  /\ IF HeadToPush
     THEN pc' = [pc EXCEPT ![Worker] = "write"] /\ at' = [at EXCEPT ![Worker] = cmds[1]]
     ELSE Goes(Worker, "idle")
  /\ UNCHANGED <<mgr, queued, bus, inbox, seen, bound>>

(* aicwf_set_cmd_tx(): the message goes into the one buffer, with no lock.  *)
Unsent == (txstate /\ ~txHeld) \/ \E p \in Procs : pc[p] = "submit"

Write(p) ==
  /\ pc[p] = "write"
  /\ mixed' = (mixed \/ Unsent)
  /\ buf' = [id |-> cmd[at[p]].id, tkn |-> cmd[at[p]].tkn]
  /\ cmd' = IF p = Worker THEN [cmd EXCEPT ![at[p]].push = FALSE] ELSE cmd
  /\ Goes(p, "submit")
  /\ UNCHANGED <<cmds, crashed, next_tkn, queued, txstate, trgg, txHeld,
                 inbox, missed, bound>>

(* aicwf_sdio_bus_txmsg(); a message with no confirm is freed.              *)
Submit(p) ==
  /\ pc[p] = "submit"
  /\ ~txHeld
  /\ txstate' = TRUE /\ trgg' = TRUE
  /\ IF cmd[at[p]].id = "silent"
     THEN Free(at[p]) /\ Done(p, "idle")
     ELSE Goes(p, "wait") /\ UNCHANGED cmd
  /\ UNCHANGED <<cmds, crashed, next_tkn, queued, buf, txHeld, inbox, seen, bound>>

AfterWait(p) == IF p = Worker THEN "scan" ELSE "idle"

LeavesTheRest(p) == queued                                        \* mutant
WakesNext(p) == queued \/ (p # Worker /\ cmds # << >>)

(* Completed: free the command; a caller leaves the rest to the work.       *)
WaitEnds(p) ==
  /\ pc[p] = "wait"
  /\ cmd[at[p]].complete
  /\ Free(at[p])
  /\ queued' = WakesNext(p)
  /\ Done(p, AfterWait(p))
  /\ UNCHANGED <<cmds, crashed, next_tkn, bus, inbox, seen, bound>>

TimeOut(p) ==
  /\ pc[p] = "wait"
  /\ ~cmd[at[p]].complete
  /\ Goes(p, "timedout")
  /\ UNCHANGED <<mgr, queued, bus, inbox, seen, bound>>

(* The answer may have come meanwhile: the manager is crashed all the same. *)
(* RWNX_CMD_FLAG_DONE may also be left over from an earlier use of the      *)
(* slot; then the command stays in the queue.  It is never freed.           *)
Crash(p) ==
  LET s == at[p]
  IN /\ pc[p] = "timedout"
     /\ crashed' = TRUE
     /\ IF cmd[s].done
        THEN UNCHANGED <<cmds, cmd>>
        ELSE cmds' = Without(s) /\ cmd' = [cmd EXCEPT ![s].done = TRUE]
     /\ Done(p, AfterWait(p))
     /\ UNCHANGED <<next_tkn, queued, bus, inbox, seen, bound>>

-----------------------------------------------------------------------------
(* The SDIO thread, the firmware and the receive path *)

(* sdio_bustx_thread(), aicwf_sdio_tx_msg(): the buffer is sent under       *)
(* cmd_txsema.                                                              *)
TxSend ==
  /\ trgg /\ ~txHeld
  /\ trgg' = FALSE
  /\ IF txstate THEN inbox' = Append(inbox, buf) /\ txHeld' = TRUE
                ELSE UNCHANGED <<inbox, txHeld>>
  /\ UNCHANGED <<mgr, queued, pc, at, buf, txstate, seen, bound>>

(* The transfer fails, or the firmware grants no buffer: then cmd_txstate   *)
(* stays set, for whoever triggers the thread next.                         *)
TxFails ==
  /\ trgg /\ ~txHeld /\ txstate
  /\ fails < MaxFails /\ fails' = fails + 1
  /\ trgg' = FALSE
  /\ txHeld' \in BOOLEAN
  /\ UNCHANGED <<mgr, queued, pc, at, buf, txstate, inbox, seen, sends>>

TxDone ==
  /\ txHeld
  /\ txHeld' = FALSE /\ txstate' = FALSE
  /\ UNCHANGED <<mgr, queued, pc, at, buf, trgg, inbox, seen, bound>>

(* cmd_complete() of a command that got its confirm.                        *)
Completed(s, m) ==
  [cmd EXCEPT ![s].cfm = FALSE, ![s].done = TRUE, ![s].complete = TRUE,
              ![s].got = m.tkn]

Matches(s, m) == cmd[s].id = m.id /\ cmd[s].cfm

(* cmd_mgr_msgind(): the confirm goes to the first command that waits for   *)
(* this id; a confirm nobody waits for goes to its handler only.            *)
MsgInd(m) ==
  LET hits == {i \in DOMAIN cmds : Matches(cmds[i], m)}
  IN IF hits = {}
     THEN UNCHANGED mgr
     ELSE LET first == CHOOSE i \in hits : \A j \in hits : i <= j
          IN /\ cmd' = Completed(cmds[first], m)
             /\ cmds' = Without(cmds[first])
             /\ UNCHANGED <<crashed, next_tkn>>

(* External: the firmware answers its messages in order.                    *)
Answer ==
  /\ inbox # << >>
  /\ inbox' = Tail(inbox)
  /\ IF Head(inbox).id = "silent" THEN UNCHANGED mgr ELSE MsgInd(Head(inbox))
  /\ UNCHANGED <<queued, pc, at, bus, seen, bound>>

-----------------------------------------------------------------------------
Call(t) == WaitEmpty(t) \/ Rejected(t) \/ Queue(t) \/ Wake(t)
Push(p) == Write(p) \/ Submit(p) \/ WaitEnds(p) \/ TimeOut(p) \/ Crash(p)
Work    == WorkStarts \/ WorkScans
Tx      == TxSend \/ TxDone

Next == \/ \E t \in Callers : Call(t) \/ \E k \in Kinds[t] : Send(t, k)
        \/ \E p \in Procs : Push(p)
        \/ Work \/ Tx \/ TxFails \/ Answer

Spec == Init /\ [][Next]_vars

(* The kernel runs every thread and the work, and timeouts end; the         *)
(* firmware answers what it received.                                       *)
FairSpec ==
  /\ Spec
  /\ \A t \in Callers : WF_vars(Call(t))
  /\ \A p \in Procs : WF_vars(Push(p))
  /\ WF_vars(Work) /\ WF_vars(Tx) /\ WF_vars(Answer)

-----------------------------------------------------------------------------
Messages == [id : AllKinds, tkn : Nat]
Commands == [used : BOOLEAN, id : AllKinds, tkn : Nat, push : BOOLEAN,
             cfm : BOOLEAN, done : BOOLEAN, complete : BOOLEAN, got : Nat]
Places   == {"idle", "empty", "queue", "wake", "check", "scan",
             "write", "submit", "wait", "timedout"}

(* Types; the queue holds no more than max_queue_sz commands.               *)
TypeOK ==
  /\ cmds \in Seq(Slots) /\ Len(cmds) <= MaxQueued
  /\ cmd \in [Slots -> Commands] /\ next_tkn \in Nat
  /\ crashed \in BOOLEAN /\ queued \in BOOLEAN /\ missed \in BOOLEAN /\ mixed \in BOOLEAN
  /\ pc \in [Procs -> Places] /\ at \in [Procs -> Slots]
  /\ buf \in Messages /\ inbox \in Seq(Messages)
  /\ txstate \in BOOLEAN /\ trgg \in BOOLEAN /\ txHeld \in BOOLEAN
  /\ sends \in 0 .. MaxSends /\ fails \in 0 .. MaxFails

Uses(p) == pc[p] \in {"empty", "queue", "write", "submit", "wait", "timedout"}

(* A slot of cmd_array that is in the queue, or that a caller or the work   *)
(* holds, is not free, is in the queue once and has one holder, whatever    *)
(* timed out or came late: a deferred command is freed by the work, one     *)
(* sent at once by its caller, one that timed out by nobody.  And a command *)
(* is taken off the list only once, by its confirm or by its timeout, while *)
(* the DONE flag that tells may be left over from the slot's last use.      *)
SlotsOwned ==
  /\ \A i, j \in DOMAIN cmds : cmd[cmds[i]].used /\ (cmds[i] = cmds[j] => i = j)
  /\ \A p, q \in Procs : Uses(p) => /\ cmd[at[p]].used
                                    /\ Uses(q) /\ at[p] = at[q] => p = q
  /\ \A p \in Procs : pc[p] = "timedout" /\ ~cmd[at[p]].done => Queued(at[p])

(* Only the first command of the queue is with the firmware, so the one     *)
(* buffer and the match by id are enough: a caller that waits for its       *)
(* command itself gets the confirm of that command, never of another, as    *)
(* long as no message without confirm, which bypasses the queue, was        *)
(* written over one in the buffer, or the other way round.                  *)
AnsweredByOwn ==
  /\ \A i \in DOMAIN cmds : ~crashed /\ i > 1 => cmd[cmds[i]].push
  /\ \A p \in Procs :
       pc[p] = "wait" /\ cmd[at[p]].complete /\ ~mixed /\ (crashed => p # Worker)
         => cmd[at[p]].got = cmd[at[p]].tkn

(* Every queued command is answered, or the manager crashes; the hand-over  *)
(* from a caller to the work, and its reads without the lock, lose nothing. *)
(* The exception is one wake-up: of a traffic command alone in the queue    *)
(* whose sender reads queue_sz after another command was queued behind it.  *)
QueueDrains == cmds # << >> ~> cmds = << >> \/ crashed \/ missed

(* And every caller returns, also one that waits for the queue to be empty. *)
CallsReturn == \A t \in Callers : pc[t] # "idle" ~> pc[t] = "idle" \/ missed

CmdProgress == QueueDrains /\ CallsReturn
=============================================================================
