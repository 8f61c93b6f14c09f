----------------------------- MODULE SunxiRproc -----------------------------
(***************************************************************************)
(* The Linux remoteproc driver of the E906 core                            *)
(* (drivers/remoteproc/sunxi_rproc.c, v3 series): the callbacks prepare,   *)
(* parse_fw, start, stop and unprepare, the crash interrupt thread, the    *)
(* work item that notifies the vrings, and the order of remove().          *)
(*                                                                         *)
(* The remoteproc core that calls them under rproc->lock, its crash work,  *)
(* the interrupt core with its disable depth and the E906 are external.    *)
(* The holder of the lock moves one call at a time; the crash handler, the *)
(* crash work and the vring work run beside it.                            *)
(***************************************************************************)
EXTENDS Integers, Sequences, FiniteSets

CONSTANTS HasCrashIrq,   (* the device tree has the crash interrupt        *)
          NumRmem,       (* memory regions to register as carveouts        *)
          NumVring,      (* vrings in the resource table, by notify id     *)
          MaxBoots,      (* bound: boots a user asks for                   *)
          MaxCrashes,    (* bound: crashes of the core                     *)
          MaxFails,      (* bound: calls that fail                         *)
          MaxNotes       (* bound: notifications from the core             *)

ASSUME RprocAssumption ==
  /\ HasCrashIrq \in BOOLEAN
  /\ NumRmem \in Nat /\ NumVring \in Nat \ {0}
  /\ MaxBoots \in Nat /\ MaxCrashes \in Nat /\ MaxFails \in Nat /\ MaxNotes \in Nat

VARIABLES
  powered, remap, core,     (* what prepare() holds, REMAP bit 1, rst_core  *)
  entries, listed,          (* rproc_mem_entry: allocated, in the core list *)
  vrings, vdev,             (* rproc->notifyids; virtio devices are up      *)
  state, op,                (* rproc->state; the holder of rproc->lock      *)
  armed, depth, warned,     (* CRASH_IRQ_ARMED, irq_desc->depth, its WARN   *)
  line, handler,            (* the crash line and its interrupt thread      *)
  crashQueued, recovering,  (* rproc->crash_handler: queued, at recovery    *)
  rx, vqQueued, walk,       (* message box, vq_work queued, its next id     *)
  news,                     (* vrings with something Linux has not seen     *)
  mbox, removing,           (* priv->mbox_chan, progress of remove()        *)
  boots, crashes, fails, notes

holds    == <<powered, remap, entries, listed>>
crashIrq == <<armed, depth, warned, line, handler>>
crashWrk == <<crashQueued, recovering>>
vqWork   == <<rx, vqQueued, walk, news>>
unbind   == <<mbox, removing>>
bounds   == <<boots, crashes, fails, notes>>
vars     == <<holds, core, vrings, vdev, state, op, crashIrq, crashWrk, vqWork,
              unbind, bounds>>

Free   == [pc |-> "free", by |-> "none", n |-> 0]       (* nobody holds it *)
LockIsFree == op = Free
At(pc)   == op.pc = pc
Goto(pc) == op' = [op EXCEPT !.pc = pc]
Unlock   == op' = Free
Calls(by, pc) == [pc |-> pc, by |-> by, n |-> 1]

Idle == NumVring                                    (* walk: no work runs  *)

(* probe(): the crash IRQ is requested with IRQF_NO_AUTOEN.  A bootloader   *)
(* may have left the core running.                                          *)
Init ==
  /\ powered = {} /\ remap \in BOOLEAN /\ core \in {"reset", "run"}
  /\ entries = 0 /\ listed = 0
  /\ vrings = {} /\ vdev = FALSE
  /\ state = "offline" /\ op = Free
  /\ armed = FALSE /\ depth = 1 /\ warned = FALSE
  /\ line = FALSE /\ handler = "idle"
  /\ crashQueued = FALSE /\ recovering = FALSE
  /\ rx = FALSE /\ vqQueued = FALSE /\ walk = Idle /\ news = {}
  /\ mbox = TRUE /\ removing = 0
  /\ boots = 0 /\ crashes = 0 /\ fails = 0 /\ notes = 0

MayFail == fails < MaxFails /\ fails' = fails + 1

-----------------------------------------------------------------------------
(* prepare() and unprepare() *)

Resources == {"pm", "cfg", "sram", "debug", "bus clk", "sram clk", "core clk"}

(* The calls of prepare() that may fail, in order. *)
PrepareCalls ==
  <<"pm", "hold", "cfg", "sram", "debug", "bus clk", "sram clk", "core clk">>

(* What the error labels release, from err_disable_sram_clk down, and the   *)
(* label each failing call jumps to.                                        *)
Releases == <<"sram clk", "bus clk", "debug", "sram", "cfg", "pm">>
LabelOffByOne == [call \in {"pm"} \cup Resources \cup {"hold"} |->
  CASE call = "core clk" -> 1 [] call = "sram clk" -> 3 [] call = "bus clk" -> 3
    [] call = "debug" -> 4 [] call = "sram" -> 5 [] call \in {"cfg", "hold"} -> 6
    [] OTHER -> 7]                                              \* mutant
Label == [call \in {"pm"} \cup Resources \cup {"hold"} |->
  CASE call = "core clk" -> 1 [] call = "sram clk" -> 2 [] call = "bus clk" -> 3
    [] call = "debug" -> 4 [] call = "sram" -> 5 [] call \in {"cfg", "hold"} -> 6
    [] OTHER -> 7]
Unwound(call) == {Releases[i] : i \in Label[call] .. Len(Releases)}

(* One call of prepare() succeeds: a resource is held, or the core is.      *)
PrepareCall ==
  /\ At("prepare")
  /\ LET call == PrepareCalls[op.n]
     IN IF call = "hold"
        THEN core' = "reset" /\ UNCHANGED <<line, powered>>
        ELSE powered' = powered \cup {call} /\ UNCHANGED <<core, line>>
  /\ op' = IF op.n = Len(PrepareCalls) THEN [op EXCEPT !.pc = "remap"]
           ELSE [op EXCEPT !.n = @ + 1]
  /\ UNCHANGED <<remap, entries, listed, vrings, vdev, state, armed, depth, warned,
                 handler, crashWrk, vqWork, unbind, bounds>>

(* One call fails: the boot fails with nothing held. *)
PrepareFails ==
  /\ At("prepare") /\ MayFail
  /\ powered' = powered \ Unwound(PrepareCalls[op.n])
  /\ Unlock
  /\ UNCHANGED <<remap, entries, listed, core, vrings, vdev, state, crashIrq,
                 crashWrk, vqWork, unbind, boots, crashes, notes>>

(* The end of prepare(): the remap bit, then both SRAM spaces are cleared.  *)
Remap ==
  /\ At("remap") /\ remap' = TRUE /\ Goto("clear")
  /\ UNCHANGED <<powered, entries, listed, core, vrings, vdev, state, crashIrq,
                 crashWrk, vqWork, unbind, bounds>>

ClearSram ==
  /\ At("clear") /\ Goto("parse")
  /\ UNCHANGED <<holds, core, vrings, vdev, state, crashIrq, crashWrk, vqWork,
                 unbind, bounds>>

Unprepare ==
  /\ At("unprepare")
  /\ remap' = FALSE /\ powered' = powered \ Resources
  /\ Unlock
  /\ UNCHANGED <<entries, listed, core, vrings, vdev, state, crashIrq, crashWrk,
                 vqWork, unbind, bounds>>

-----------------------------------------------------------------------------
(* parse_fw() and the vrings *)

(* Every entry is allocated before the first is given to the core.          *)
ParseFw ==
  /\ At("parse")
  /\ entries' = entries + NumRmem /\ listed' = listed + NumRmem
  /\ Goto("vdev")
  /\ UNCHANGED <<powered, remap, core, vrings, vdev, state, crashIrq, crashWrk,
                 vqWork, unbind, bounds>>

FreedButFirst(k) == IF k = 0 THEN 0 ELSE k - 1                  \* mutant
Freed(k) == k

(* An allocation or the resource table fails after k entries; the core then *)
(* runs unprepare() without cleaning up.                                    *)
ParseFails ==
  /\ At("parse") /\ MayFail
  /\ \E k \in 0 .. NumRmem : entries' = entries + k - Freed(k)
  /\ Goto("unprepare")
  /\ UNCHANGED <<powered, remap, listed, core, vrings, vdev, state, crashIrq,
                 crashWrk, vqWork, unbind, boots, crashes, notes>>

(* The core's resource handling: vrings get their notify ids. *)
HandleVdev ==
  /\ At("vdev") /\ vrings' = 0 .. NumVring - 1 /\ Goto("load")
  /\ UNCHANGED <<holds, core, vdev, state, crashIrq, crashWrk, vqWork, unbind, bounds>>

(* rproc_resource_cleanup() frees the listed entries and the vrings.        *)
Cleanup ==
  /\ At("cleanup")
  /\ vrings' = {} /\ entries' = entries - listed /\ listed' = 0
  /\ Goto("unprepare")
  /\ UNCHANGED <<powered, remap, core, vdev, state, crashIrq, crashWrk, vqWork,
                 unbind, bounds>>

(* Resource handling, the load of the image, or start() fails in a boot.    *)
(* (A recovery that fails leaves the core's own state behind: left out.)    *)
BootFails ==
  /\ op.by = "boot" /\ op.pc \in {"vdev", "load", "start"} /\ MayFail
  /\ Goto("cleanup")
  /\ UNCHANGED <<holds, core, vrings, vdev, state, crashIrq, crashWrk, vqWork,
                 unbind, boots, crashes, notes>>

Load ==
  /\ At("load") /\ Goto("start")
  /\ UNCHANGED <<holds, core, vrings, vdev, state, crashIrq, crashWrk, vqWork,
                 unbind, bounds>>

-----------------------------------------------------------------------------
(* start() and stop() *)

(* The boot address, then the core is released. *)
Start ==
  /\ At("start") /\ core' = "run" /\ Goto("arm")
  /\ UNCHANGED <<holds, vrings, vdev, state, crashIrq, crashWrk, vqWork, unbind, bounds>>

(* test_and_set_bit(CRASH_IRQ_ARMED) *)
Arm ==
  /\ At("arm")
  /\ armed' = (HasCrashIrq \/ armed)
  /\ Goto(IF HasCrashIrq /\ ~armed THEN "enable" ELSE "virtio")
  /\ UNCHANGED <<holds, core, vrings, vdev, state, depth, warned, line, handler,
                 crashWrk, vqWork, unbind, bounds>>

(* enable_irq(): the interrupt core warns when the line was not disabled.   *)
Enable ==
  /\ At("enable")
  /\ depth' = IF depth = 0 THEN 0 ELSE depth - 1
  /\ warned' = (warned \/ depth = 0)
  /\ Goto("virtio")
  /\ UNCHANGED <<holds, core, vrings, vdev, state, armed, line, handler, crashWrk,
                 vqWork, unbind, bounds>>

(* The core starts the virtio devices; if that fails it calls stop().       *)
StartVirtio ==
  /\ At("virtio")
  /\ \/ /\ vdev' = TRUE /\ state' = "running" /\ Unlock
        /\ UNCHANGED fails
     \/ /\ op.by = "boot" /\ MayFail /\ Goto("halt")
        /\ UNCHANGED <<vdev, state>>
  /\ UNCHANGED <<holds, core, vrings, crashIrq, crashWrk, vqWork, unbind,
                 boots, crashes, notes>>

(* The core removes the virtio devices before it calls stop(). *)
StopVirtio ==
  /\ At("devices") /\ vdev' = FALSE /\ news' = {} /\ Goto("halt")
  /\ UNCHANGED <<holds, core, vrings, state, crashIrq, crashWrk, rx, vqQueued, walk,
                 unbind, bounds>>

(* reset_control_assert(): a core in reset drives no crash line.            *)
Halt ==
  /\ At("halt") /\ core' = "reset" /\ line' = FALSE /\ Goto("disarm")
  /\ UNCHANGED <<holds, vrings, vdev, state, armed, depth, warned, handler, crashWrk,
                 vqWork, unbind, bounds>>

ThenDisable == "disable"

(* test_and_clear_bit(CRASH_IRQ_ARMED) *)
Disarm ==
  /\ At("disarm") /\ armed' = FALSE
  /\ Goto(IF armed THEN ThenDisable ELSE "stopped")
  /\ UNCHANGED <<holds, core, vrings, vdev, state, depth, warned, line, handler,
                 crashWrk, vqWork, unbind, bounds>>

(* disable_irq(): disabled at once, then waits for the handler. *)
Disable ==
  /\ At("disable") /\ depth' = depth + 1 /\ Goto("wait")
  /\ UNCHANGED <<holds, core, vrings, vdev, state, armed, warned, line, handler,
                 crashWrk, vqWork, unbind, bounds>>

DisableReturns ==
  /\ At("wait") /\ handler = "idle" /\ Goto("stopped")
  /\ UNCHANGED <<holds, core, vrings, vdev, state, crashIrq, crashWrk, vqWork,
                 unbind, bounds>>

(* Recovery loads and starts the firmware again; a shutdown cleans up.      *)
Stopped ==
  /\ At("stopped") /\ state' = "offline"
  /\ Goto(IF op.by = "recovery" THEN "load" ELSE "cleanup")
  /\ UNCHANGED <<holds, core, vrings, vdev, crashIrq, crashWrk, vqWork, unbind, bounds>>

-----------------------------------------------------------------------------
(* Crashes *)

CoreCrashes ==
  /\ core = "run" /\ powered = Resources /\ ~line /\ crashes < MaxCrashes
  /\ line' = TRUE /\ crashes' = crashes + 1
  /\ UNCHANGED <<holds, core, vrings, vdev, state, op, armed, depth, warned, handler,
                 crashWrk, vqWork, unbind, boots, fails, notes>>

(* IRQF_ONESHOT: the line stays masked until the thread returns. *)
CrashIrq ==
  /\ HasCrashIrq /\ line /\ depth = 0 /\ handler = "idle"
  /\ handler' = "woken"
  /\ UNCHANGED <<holds, core, vrings, vdev, state, op, armed, depth, warned, line,
                 crashWrk, vqWork, unbind, bounds>>

ArmedKept == armed                                              \* mutant
ArmedCleared == FALSE

(* crash_handler(): test_and_clear_bit, disable_irq_nosync, report.         *)
HandlerClears ==
  /\ handler = "woken"
  /\ handler' = IF armed THEN "mask" ELSE "report"
  /\ armed' = ArmedCleared
  /\ UNCHANGED <<holds, core, vrings, vdev, state, op, depth, warned, line,
                 crashWrk, vqWork, unbind, bounds>>

HandlerMasks ==
  /\ handler = "mask" /\ depth' = depth + 1 /\ handler' = "report"
  /\ UNCHANGED <<holds, core, vrings, vdev, state, op, armed, warned, line,
                 crashWrk, vqWork, unbind, bounds>>

OnlyQueues   == TRUE

HandlerReports ==
  /\ handler = "report" /\ OnlyQueues
  /\ crashQueued' = TRUE /\ handler' = "idle"
  /\ UNCHANGED <<holds, core, vrings, vdev, state, op, armed, depth, warned, line,
                 recovering, vqWork, unbind, bounds>>

(* The core's crash work: only a running core becomes crashed ... *)
CrashWork ==
  /\ crashQueued /\ ~recovering /\ LockIsFree
  /\ crashQueued' = FALSE
  /\ IF state = "running" THEN state' = "crashed" /\ recovering' = TRUE
     ELSE UNCHANGED <<state, recovering>>
  /\ UNCHANGED <<holds, core, vrings, vdev, op, crashIrq, vqWork, unbind, bounds>>

(* ... and is stopped and started again, keeping what prepare() holds.      *)
Recover ==
  /\ recovering /\ LockIsFree /\ state = "crashed"
  /\ recovering' = FALSE /\ op' = Calls("recovery", "devices")
  /\ UNCHANGED <<holds, core, vrings, vdev, state, crashIrq, crashQueued, vqWork,
                 unbind, bounds>>

-----------------------------------------------------------------------------
(* Notifications from the core *)

(* The firmware rings only once the virtio driver is ready. *)
CoreNotifies(v) ==
  /\ core = "run" /\ vdev /\ ~line /\ notes < MaxNotes
  /\ news' = news \cup {v} /\ rx' = TRUE /\ notes' = notes + 1
  /\ UNCHANGED <<holds, core, vrings, vdev, state, op, crashIrq, crashWrk,
                 vqQueued, walk, unbind, boots, crashes, fails>>

QueuesIfIdle == vqQueued \/ walk = Idle                         \* mutant
Queues == TRUE

(* mb_rx_callback() *)
RxCallback ==
  /\ rx /\ mbox
  /\ rx' = FALSE /\ vqQueued' = Queues
  /\ UNCHANGED <<holds, core, vrings, vdev, state, op, crashIrq, crashWrk, walk,
                 news, unbind, bounds>>

VqWork ==
  /\ vqQueued /\ walk = Idle
  /\ vqQueued' = FALSE /\ walk' = 0
  /\ UNCHANGED <<holds, core, vrings, vdev, state, op, crashIrq, crashWrk, rx,
                 news, unbind, bounds>>

(* vq_notify() for the next id, without rproc->lock. *)
VqNotify ==
  /\ walk # Idle
  /\ news' = IF walk \in vrings /\ vdev THEN news \ {walk} ELSE news
  /\ walk' = walk + 1
  /\ UNCHANGED <<holds, core, vrings, vdev, state, op, crashIrq, crashWrk, rx,
                 vqQueued, unbind, bounds>>

(* kick(): the virtio devices may call it whenever they are up.             *)
MayKick == vdev

-----------------------------------------------------------------------------
(* boot, shutdown and unbind *)

Boot ==
  /\ LockIsFree /\ state = "offline" /\ removing = 0 /\ boots < MaxBoots
  /\ boots' = boots + 1 /\ op' = Calls("boot", "prepare")
  /\ UNCHANGED <<holds, core, vrings, vdev, state, crashIrq, crashWrk, vqWork,
                 unbind, crashes, fails, notes>>

Shutdown ==
  /\ LockIsFree /\ state = "running" /\ removing = 0
  /\ op' = Calls("shutdown", "devices")
  /\ UNCHANGED <<holds, core, vrings, vdev, state, crashIrq, crashWrk, vqWork,
                 unbind, bounds>>

(* remove(): rproc_del(), which shuts the core down, then the mailbox       *)
(* channel is freed, then the work is cancelled.  (A crash being handled    *)
(* when the driver is unbound is the core's own problem and left out.)      *)
WorkFirst    == <<"shutdown", "deleted", "work", "mailbox">>    \* mutant
RemoveOrder  == <<"shutdown", "deleted", "mailbox", "work">>

Remove ==
  /\ removing < Len(RemoveOrder) /\ removing' = removing + 1
  /\ LET call == RemoveOrder[removing + 1]
     IN /\ call \in {"shutdown", "deleted"} =>
             LockIsFree /\ state # "crashed" /\ ~crashQueued /\ handler = "idle"
        /\ op' = IF call = "shutdown" /\ state = "running"
                 THEN Calls("shutdown", "devices") ELSE op
        /\ state' = IF call = "deleted" THEN "deleted" ELSE state
        /\ mbox' = (mbox /\ call # "mailbox")
        /\ call = "work" => walk = Idle
        /\ vqQueued' = (vqQueued /\ call # "work")
  /\ UNCHANGED <<holds, core, vrings, vdev, crashIrq, crashWrk, rx, walk, news, bounds>>

-----------------------------------------------------------------------------
LockHolder ==
  \/ PrepareCall \/ PrepareFails \/ Remap \/ ClearSram \/ ParseFw \/ ParseFails
  \/ HandleVdev \/ BootFails \/ Load \/ Start \/ Arm \/ Enable \/ StartVirtio
  \/ StopVirtio \/ Halt \/ Disarm \/ Disable \/ DisableReturns \/ Stopped
  \/ Cleanup \/ Unprepare

Handler == CrashIrq \/ HandlerClears \/ HandlerMasks \/ HandlerReports

CrashHandling == CrashWork \/ Recover

Work == VqWork \/ VqNotify

Next ==
  \/ LockHolder \/ Handler \/ CrashHandling \/ Work \/ RxCallback
  \/ CoreCrashes \/ \E v \in 0 .. NumVring - 1 : CoreNotifies(v)
  \/ Boot \/ Shutdown \/ Remove

Spec == Init /\ [][Next]_vars

(* Threads and work items run on; the core and the user need not do         *)
(* anything.  The crash work gets rproc->lock some time, even if boots and  *)
(* shutdowns keep taking it: a mutex is handed to its waiters.              *)
FairSpec ==
  /\ Spec
  /\ WF_vars(LockHolder) /\ WF_vars(Handler) /\ SF_vars(CrashHandling)
  /\ WF_vars(Work) /\ WF_vars(RxCallback)

-----------------------------------------------------------------------------
TypeOK ==
  /\ powered \subseteq Resources /\ remap \in BOOLEAN /\ core \in {"reset", "run"}
  /\ entries \in 0 .. NumRmem /\ listed \in 0 .. NumRmem
  /\ vrings \subseteq 0 .. NumVring - 1 /\ vdev \in BOOLEAN
  /\ state \in {"offline", "running", "crashed", "deleted"}
  /\ op \in [pc : {"free", "prepare", "remap", "clear", "parse", "vdev", "load", "start",
                   "arm", "enable", "virtio", "devices", "halt", "disarm", "disable",
                   "wait", "stopped", "cleanup", "unprepare"},
             by : {"none", "boot", "shutdown", "recovery"}, n : 0 .. Len(PrepareCalls)]
  /\ armed \in BOOLEAN /\ depth \in Nat /\ warned \in BOOLEAN
  /\ line \in BOOLEAN /\ handler \in {"idle", "woken", "mask", "report"}
  /\ crashQueued \in BOOLEAN /\ recovering \in BOOLEAN
  /\ rx \in BOOLEAN /\ vqQueued \in BOOLEAN /\ walk \in 0 .. NumVring
  /\ news \subseteq 0 .. NumVring - 1
  /\ mbox \in BOOLEAN /\ removing \in 0 .. Len(RemoveOrder)
  /\ boots \in 0 .. MaxBoots /\ crashes \in 0 .. MaxCrashes
  /\ fails \in 0 .. MaxFails /\ notes \in 0 .. MaxNotes

(* prepare(), parse_fw() and the cleanup balance: whatever call failed, a   *)
(* stopped core holds no power, clock, reset or memory entry, and a running *)
(* or crashed one holds each of them once.                                  *)
ResourcesBalanced ==
  LockIsFree =>
    IF state \in {"running", "crashed"}
    THEN powered = Resources /\ remap /\ entries = NumRmem /\ listed = NumRmem
    ELSE powered = {} /\ entries = 0 /\ listed = 0 /\ vrings = {}

(* SRAM is cleared and loaded only while it is powered and shared and the   *)
(* core is held in reset, also when a bootloader left the core running      *)
(* ("hold the core in reset").                                              *)
LoadsHeldCore ==
  op.pc \in {"clear", "parse", "vdev", "load", "start"} =>
    core = "reset" /\ powered = Resources /\ remap

(* Resources are right at every point of a boot, a shutdown and a recovery. *)
BootsInOrder == ResourcesBalanced /\ LoadsHeldCore

(* The armed bit says whether the line is enabled: no call enables or       *)
(* disables it twice, whatever stop() and the handler do at the same time.  *)
CrashIrqBalanced ==
  LockIsFree /\ handler = "idle" => depth = (IF armed THEN 0 ELSE 1)

(* ... as long as the interrupt core has not warned; and whatever it warned *)
(* of, the line of a stopped core is masked once its handler returned.      *)
BalancedUntilWarned ==
  /\ warned \/ CrashIrqBalanced
  /\ LockIsFree /\ handler = "idle" /\ state \in {"offline", "deleted"} => depth > 0

(* "The mailbox must outlive" the virtio devices, which may still kick, and  *)
(* after remove() nothing is left that uses the driver's data: no queued or *)
(* running work, and no callback that could queue it.                       *)
RemovedInOrder ==
  /\ MayKick => mbox
  /\ removing = Len(RemoveOrder) => ~mbox /\ ~vqQueued /\ walk = Idle

(* Whoever holds rproc->lock gives it back: stop() waits for the handler    *)
(* thread, which never waits for the lock.                                  *)
LockIsReleased == ~LockIsFree ~> LockIsFree

(* A crash of a running core is noticed and the core restarted, crash after *)
(* crash, unless it is shut down first or the interrupt core has warned.    *)
CrashesAreHandled ==
  (HasCrashIrq /\ state = "running" /\ line)
    ~> (warned \/ (LockIsFree /\ IF state = "running" THEN ~line
                                 ELSE state \in {"offline", "deleted"}))

(* Every notification is seen, also one that arrives while the work walks   *)
(* the vrings.                                                              *)
NotificationsSeen == \A v \in 0 .. NumVring - 1 : (v \in news) ~> (v \notin news)

(* Three threads that wait for each other's lock, line and work all run on. *)
RprocProgress == LockIsReleased /\ CrashesAreHandled /\ NotificationsSeen
=============================================================================
