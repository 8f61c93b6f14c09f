# Verification of the Cubie A5E / E906 communication stack

This directory holds TLA+ models of the code that lets Linux on the A523's
Cortex-A55 cores talk to the firmware on its XuanTie E906 core, and of the two
concurrent cores of the board's Wi-Fi driver; TLC configurations that check
them; and TLAPS proofs of what matters most.
`PROJECT.json` lists the components, runs, mutants, mapped lines, findings,
hazards and theorems in machine-readable form.

## 1. The system

The repository is a workspace around one board. Its own program logic is in two
places: the Linux drivers (`upstream-remoteproc/v3/*.patch`, the series that was
sent for review) and the firmware (`firmware/`). The bulk of its lines is the AIC8800
Wi-Fi driver, present twice in near-identical copies, of which the command manager and the
receive reordering are the parts with a concurrency of their own. Everything else is
generated, documentation, or test orchestration.

    Linux                                          E906
    rpmsg tools, ping tools                        firmware applications
        |                 \                           /         |
    virtio / rpmsg core    \---- SPSC rings, ping ---/       rpmsg.cpp
        |                        slots in DRAM/SRAM             |
    sunxi_rproc (v3-0004) -- vrings in shared SRAM -------------+
        |                                                       |
    sun55i-msgbox (v3-0002) ---- message box FIFOs -------- msgbox.cpp

### 1.1 Inventory

**Shared-memory SPSC ring** (`firmware/common/ipc/spsc_ring.hpp`). State: shared
`head`, `tail` and `slots`; each endpoint keeps its own index and a copy of the
other's, and a sticky `corrupt` flag. Operations: `reserve`/`commit`,
`peek`/`release`, `in_flight`, construction over a ring another process may be
using. The two ends run on different processors with only barriers between
them. Hard: stale copies, store order, index wrap, an endpoint that dies and is
constructed again, indices overwritten from outside. Correct if it is a bounded
FIFO, the two ends never share a slot, no item is read half written, and
corruption is reported exactly when there is some.

**Message box driver** (`v3-0002`). State: per channel the held message, the
receive and write interrupt enables, per receiving processor a reference-counted
TX-done interrupt. Operations: `send_data`, `last_tx_done`, two interrupt
handlers, `startup`, `shutdown`. Called by the mailbox core with and without its
own lock, from threads, timers and interrupts on all CPUs. Hard: a send that
finds the FIFO full, blocking sends that time out, four channels on one line,
`shutdown` beside running handlers, the remote writing during a drain. Correct
if messages arrive in order and once, none is forgotten, "done" is said when it
is true, and nothing runs for a channel after its `shutdown`.

**Remoteproc driver** (`v3-0004`). State: power, clocks, resets, the SRAM remap
bit, carveout entries, the armed bit and disable depth of the crash interrupt,
the vring work, the mailbox channel. Operations: `prepare`, `parse_fw`, `start`,
`stop`, `unprepare`, `kick`, `da_to_va`, the crash thread, the receive callback
with its work, `probe`, `remove`. The remoteproc core calls most of them under
`rproc->lock`; the crash thread and the vring work run without it. Hard: a
failure at every step of `prepare`, a crash beside a shutdown, a notification
beside a teardown, the order of `remove`. Correct if nothing leaks, SRAM is
touched only under a held core, every crash leads to a restart, every
notification is seen, and no part outlives what it uses.

**RPMsg device of the firmware** (`firmware/common/hal/rpmsg.cpp`, resource table,
`apps/testPingRpmsg`). State: two vrings in shared memory with the firmware's
private indices, the endpoint table, the kick flag. Operations: `init`,
`is_driver_ready`, `register_endpoint`, `announce_service`, `poll`, `reply`,
`enable_rx_kick`. Peer: the Linux virtio rpmsg bus. Hard: doorbell suppression
and lost wake-ups, a host that returns no buffers, a host driver that goes away
and comes back. Correct if each message is handled once, every reply uses a
buffer the host gave, every buffer comes back.

**DRAM message pair** (`apps/testDRAMMsg`, `linux/ping_dram.cpp`). State: a control block
in SRAM with a magic number and two SPSC rings, the server's and the client's ring
endpoints, the client's counters. Operations: the server initialises the rings, magic
last, and echoes; a client checks the magic, constructs its endpoints over whatever
indices it finds, waits for idle rings, posts within a window and checks every reply.
Hard: a client killed anywhere and the next one continuing, an E906 restart under a live
client, both rings full. Correct if no run reports a bad reply and every ping is answered.

**Shared-memory ping** (`apps/testPing` and its Linux tools). State: one ping packet and
one pong packet with a sequence number each, a doorbell, a UIO interrupt that masks
itself. Operations: `sync`, `exchange`, the wait of `ping_uio`, the firmware's loop. Hard:
restart of either side, a late answer after a timeout, a doorbell that comes before or
after the look that makes it unnecessary. Correct if the two never use the slot at once,
what is accepted is the answer to this ping, and a sleeper is woken.

**Wi-Fi command manager** (`aic8800_fdrv/rwnx_cmds.c`, `rwnx_msg_tx.c`, `aicwf_sdio.c`).
State: a static array of commands, a queue of those not confirmed, a work for deferred
ones, one transmit buffer, the manager's crashed flag. Operations: `rwnx_send_msg`,
`rwnx_send_msg1`, `cmd_mgr_queue`, `cmd_mgr_task_process`, `cmd_mgr_msgind`, the SDIO thread.
Hard: callers, work, transmit thread and receive path meet at the queue; decisions made
from reads without the lock; timeouts that race the confirm; slots that are recycled.
Correct if each slot has one user, each caller gets its own confirm, and the queue drains.

**Wi-Fi receive reordering** (`aic8800_fdrv/rwnx_rx.c`). State: per session the next sequence
number, a sorted list of frames that wait for a gap, a timer and a work; a common pool of
entries. Operations: `reord_process_unit`, `reord_flush_tid`, `reord_timeout_handler`,
`reord_timeout_worker`. Hard: 12-bit numbers that wrap, a window that moves on, a timer that is
deleted without waiting for its handler, work left over from an earlier gap. Correct if the
order of what goes up is broken only by frames that were given up, and none is held for ever.

**Message box of the firmware** (`hal/msgbox.cpp`): bounded spin on a full FIFO, dropped
sends; a thin layer over registers, whose effect is in the modules of its users.
**FreeRTOS application** (`apps/testFreeRTOS`): worker task woken by an interrupt.
**In-process SPSC queue** (`hal/spsc_queue.hpp`): queue between an interrupt and a loop, all of
its slots usable. **Trace buffer** (`hal/trace.cpp`): ring buffer whose head is shared by
interrupt and thread. **Atomics and interrupt dispatcher** (`arch_riscv/`).

### 1.2 How the parts interact

The remoteproc driver is a client of the message box driver: a kick is a message,
a message from the remote is a callback that queues a work item that tells
virtio. The firmware's RPMsg engine sees the same message as a doorbell. The
rings and the ping slot use shared memory directly and need no driver but the
life cycle of the core. A restart of the E906 (crash recovery or a new boot) is
the event that crosses all layers: it clears SRAM, keeps DRAM, keeps the mailbox
channel and its queue, and restarts the firmware's private indices.

## 2. Modules

| Module | What it is |
|---|---|
| `Fifo` | what a bounded queue promises: put at one end, take at the other, capacity |
| `SpscRing` | the shared-memory ring, one action per access to shared memory |
| `SpscRingProofs` | inductive invariant and safety theorems of `SpscRing`, and that it implements `Fifo` |
| `Sun55iMsgbox` | the message box driver for the channels of one route |
| `Sun55iMsgboxProofs` | inductive invariant and safety theorems of `Sun55iMsgbox` |
| `SunxiRproc` | life cycle, crash interrupt, vring work and unbind of the remoteproc driver |
| `SunxiRprocProofs` | inductive invariant and safety theorems of `SunxiRproc` |
| `RpmsgDevice` | the firmware's RPMsg device, driven by the polling program or the FreeRTOS worker |
| `RpmsgDeviceProofs` | inductive invariant and safety theorems of `RpmsgDevice`, and that it implements `EchoService` |
| `EchoService` | what the echo firmware promises to the host: each request answered once, unchanged, in order |
| `RpmsgRefinement` | the mapping under which `RpmsgDevice` implements `EchoService` |
| `ShmPing` | the shared-memory ping: both Linux programs, the firmware, doorbell and UIO interrupt |
| `ShmPingProofs` | inductive invariant and safety theorems of `ShmPing` |
| `DramMsg` | the DRAM message pair: echo server and client over two instances of `SpscRing` |
| `DramMsgProofs` | inductive invariants and safety theorems of `DramMsg` |
| `RwnxCmds` | the command manager of the Wi-Fi driver, its senders and its transmit thread |
| `RwnxCmdsProofs` | inductive invariant and safety theorems of `RwnxCmds` |
| `RxReorder` | one receive reordering session of the Wi-Fi driver |
| `RxReorderProofs` | inductive invariant and safety theorems of `RxReorder` |
| `MC*` | model values and bounds for TLC; the `.cfg` files name them |

Operators marked `\* mutant` are single plausible mistakes in the definition that
follows them. Nothing refers to them; they are substituted for that definition,
one at a time, to show that each property notices the mistake it is there for.

### 2.1 SpscRing

`head`, `tail`, `slots` are the shared words; `pHead`, `pTail`, `pCorrupt` and
`cHead`, `cTail`, `cCorrupt` are the private members of `Producer` and `Consumer`.
`Reserve` and `Peek` are one action each because each reads at most one shared
index; the copy of an item is two actions with a `Junk` value between them, so
that a reader can meet half an item; `Commit` and `Release` publish the index.
Indices count modulo `IndexMod` (2^32 in the code). `RestartProducer` and
`RestartConsumer` construct an endpoint again from the shared indices at any
point, also in the middle of a copy. A store that may pass the barrier is
expressed in `SlotWritten`, whose mutant is a commit before the copy is complete.
Indices overwritten from outside are not modelled: `corrupt()` is shown never to be
raised without cause, not to be raised with one. `DramMsg` has the one way the code itself
gets there, a server that initialises the rings under a live client.

### 2.2 Sun55iMsgbox

One action is one critical section of `mbox->lock` or of the core's `chan->lock`.
`send_data` is two of them (`SendData`, `SendDataArm`), as in the code, with
`sub` saying who is in between. `tick` follows the TX-done handler or the poll
timer channel by channel: look, `last_tx_done`, complete, submit the next. The
`txDoneIrq` says which of the two the device tree chose. `lapsed` counts, for the
properties only, the blocking sends that gave up since the poll timer took the
channel up. The drain is one action per register access since the remote needs no lock.
`startup` and `shutdown` go through the `ctl` states in the order of the code;
`mutex` is `tx_irq_lock`. Messages are numbered in the order they were sent, so
order and loss are comparisons of numbers. The mailbox core (`msg_submit`,
`tx_tick`, the poll timer, request and free of a channel), the FIFO with its
status bits and the remote are external, taken from how the driver and its KUnit
mock (`v3-0006`) use them. A status bit can be cleared only while its condition
does not hold, as the mock has it.

Left out: the other three routes (independent state), `peek_data` (reads only),
a channel freed while the core's poll timer is working on it (the core does not
wait there; the driver cannot).

### 2.3 SunxiRproc

`op` is what the holder of `rproc->lock` is doing; its `pc` goes through the calls
of a boot (`prepare` call by call, `remap`, `clear`, `parse`, `vdev`, `load`,
`start`, `arm`, `enable`, `virtio`), of a stop (`devices`, `halt`, `disarm`,
`disable`, `wait`, `stopped`) and of a cleanup. Each step of `prepare` may fail and
then releases exactly what the label it jumps to releases (`Label`, `Unwound`).
`depth` is the disable depth of the crash line, 1 after `IRQF_NO_AUTOEN`;
`enable_irq` at depth 0 sets `warned`, as the kernel's WARN does. `handler` is the
interrupt thread in three steps: clear the bit, mask, report. `walk` is the next
notify id of the running work. `removing` counts the calls of `remove`.

External: the remoteproc core (boot, shutdown, recovery, its crash work), the
interrupt core, the E906. A core in reset drives no crash line. Left out: a
recovery whose restart fails and an unbind while a crash is being handled (both
leave a state only the core can repair), crash dump segments, ELF checks,
`da_to_va` and its table (planned as operators), the bit of the remap register
that belongs to the DSP.

### 2.4 RpmsgDevice

`avail` and `used` are the two halves of each vring (index, ring, and NO_NOTIFY as
`quiet`), `buf` what each buffer holds, `last` the firmware's `last_avail_idx`, `pc`
where the program is inside `is_driver_ready`, `announce_service`, `poll` or `reply`,
`pending` the counter of `poll`'s inner loop. One action is one access to memory the
host also uses, with the private work up to the next; a used element and the
index that shows it are one action because the fence between them orders them and
the host looks only behind the index. `toHost` and `toDev` count the doorbells in the
two message box FIFOs, whose content says nothing. `sleeps` chooses the program: the
loop of `testPingRpmsg`, or the worker of `testFreeRTOS` with `notified` (its task
notification), `irqOn` (the channel's receive interrupt), the kick flag it turns off
and on, and `Isr`. Two variables follow the code's own order where it matters: the
request's buffer is returned after the callback has replied, and the host's
doorbell of a reply comes before that.

External: the virtio ring and rpmsg bus of Linux. `HostSend` and `HostSendKick` are
two actions, so the kick decision is made later than the ring update, from the flag
as it is then; a sender without a buffer sleeps until the ring's callback. The vring
work delivers one reply at a time, lends its buffer again and kicks at its end. A kick
into a full FIFO is lost, which the model allows for and the firmware survives.
The level-triggered interrupt line follows the FIFO, so `clear_irq_status` on a
non-empty FIFO changes nothing. Left out: the endpoint table (both programs register
one handler for every address), `setup_vq` and `translate_da`, buffers smaller than a
message, the counters, and a host driver that is unbound and bound again.

### 2.5 ShmPing

`pingSeq`, `ping` are what Linux writes and `pongSeq`, `pong` what the E906 writes; a packet
keeps its magic, its number, its timestamp and the number its payload was made for. Each
side's stores are separate actions in the order of the barriers: packet, number, doorbell
(`PongHeader`, `PongBody`, `Publish`, `Ring`; `Fill`, `Stamp`, `Post`). `host.uio` says which of the two
programs runs: `ping_shm` spins on `pong_seq` (`Spin`); `ping_uio` looks, unmasks its line, looks
again and sleeps (`Look` to `Wake`), then drains the doorbells and clears the pending bit
(`Pop`, `Ack`), which the hardware sets again as long as the FIFO is not empty. A program may end
anywhere (`Quit`: done, timed out or killed) and the next one starts from what it finds. The
E906 may stop anywhere; crash recovery keeps SRAM, a boot clears it. `disturbed` remembers that
the core was not up all through a run: only then may the run report something wrong.

### 2.6 DramMsg

`Tx` and `Rx` are two instances of `SpscRing`; the actions of server and client are its
operations, joined with the program's own place (`core`, `client.pc`). A new endpoint is
`RestartProducer` or `RestartConsumer` of the instance, so what `SpscRing` shows of restarted
endpoints is used here by a real program. A message is named by its run and number, which the
timestamp in the descriptor tells apart; payload and descriptor are one item, since both are
written before `commit()` and checked after `peek()`. `upset` says that the rings may have been
initialised while a client was at work: it is cleared when the server initialises them with no
client past its magic check. Until then anything may go wrong for clients: one that survives a
restart may leave indices that make every later run fail, and a run killed with unread
replies makes later ones end with "rings not idle at start" until the E906 restarts.

### 2.7 RwnxCmds

`cmds` is the queue and `cmd` the array of commands with their flags (`push`, `cfm`, `done`,
`complete`). `pc` and `at` are the place and the command of every caller and of the work. What is
between lock and unlock of `cmd_mgr->lock` is one action; the wait for an empty queue, the wake-up
of the work, the copy into the buffer, the submission and the wait are actions of their own. A
kind of message stands for the way it is sent: with or without a confirm, with data wanted,
deferred by its id, or by `rwnx_send_msg1`. A deferring caller that has queued its command is at
`wake` (`cmd_mgr_queue_force_defer`, which always wakes the work) or at `check` (`cmd_mgr_queue`,
which first reads `queue_sz`, now without the lock). `TxSend`, `TxFails` and `TxDone` are the SDIO thread.
The firmware (external) answers what it received in order. A bus transfer is one step and
`bustx_trgg` is a boolean; the code's completion is counted and the data path raises it too
(`aicwf_sdio.c:1674`), which may wake the thread once for nothing. No property depends on
either. `missed` remembers the one wake-up
the code leaves out and `mixed` that a message was written over an unsent one; both limit a
property (section 5).

Left out: `cmd_mgr_llind`, non-blocking commands, drain and removal, the USB bus. A caller that
finds no free slot is outside the model (the code dereferences NULL there).

### 2.8 RxReorder

A frame is its place in the sender's order; `Sn` is its number on the air and `Less` the macro
`SN_LESS`. The receive thread is `rx`: it takes an entry of the pool (`Receive`), looks the session
up under one lock (`Find`) and works under the list lock (`LateFrame`, `HeldFrame`, `NewFrame`).
`Checked` is `reord_need_check`, `Enqueued` the sorted insertion, `Scan` `reord_rxframes_process`
and `GiveUp` what goes up. Timer, handler and work are `tmr`, `firing`, `work` and `running`, so
that a handler or a work may be under way while the thread deletes or arms the timer.
`reord_flush_tid` is three actions, since it looks at the timer and cancels the work outside the
lock. The sender (external) keeps what it has sent inside one window, gives frames up, and
ends the session before it sends a frame that is not part of it. `passed` collects the frames
that `ind_sn` moved past before they came.

Seen while modelling, all within what the properties allow: an EAPOL or multicast frame
inside a session leaves a gap that holds the frames behind it for the reorder timeout; the
first frame received starts the window, so earlier ones of the session are late; late frames
that are not RTP go up out of order, repeated ones twice; a frame already taken from the queue
can be passed by the work before it gets the lock. The branch for a session that is not enabled
(line 1648) is never taken with one receive thread, and it would unlock the wrong lock (1653).
Left out: `reord_deinit_sta` (a handler running while it looks at the timer queues the work
after the cancellation, on memory that is then freed), the leak of an entry on an unknown
interface type, and an outage of half the sequence space.

## 3. Runs

| Run | Instance | Shows |
|---|---|---|
| `ring` | 4 slots, indices mod 8, 2 item values, 2 restarts | all ring safety but the types (`dram_msg` checks them in `RingInv`), refinement of `Fifo`, progress of both sides |
| `msgbox` | 1 channel requested twice, FIFO of 2, 4 messages out, 2 in, 2 timeouts, interrupt and timer | order, no loss, nobody forgets a queue, done only when accepted, quiet shutdown, progress, with a held message in timer mode; receive path against the remote's writes |
| `msgbox_two_channels` | 2 channels, FIFO of 1, 1 message each way | users of the shared line, also after a failed startup; shutdowns end; delivery beside the other channel |
| `rproc` | 2 boots, 2 crashes, 1 failing call, 2 notifications, 2 entries, 2 vrings | all properties of the remoteproc driver |
| `rproc_crash_irq` | 2 boots, 1 crash is enough | **violation**: crash line masked under a running core |
| `rpmsg` | 2 buffers per ring, indices mod 4, a valid and a malformed message, both programs | one owner per buffer, whole replies, no forgotten doorbell, sleeper can be woken, kicks off otherwise |
| `rpmsg_echo` | 2 different messages, polling program | echo service refined; replies, senders and `reply()` make progress |
| `rpmsg_lost_wakeup` | worker program | **violation**: it sleeps with a message in the ring |
| `shm_ping` | numbers mod 4, 4 pings, 2 runs of either program, 2 restarts | slot exclusion, genuine answers, no false alarm, sleepers wake, pings are answered |
| `dram_msg` | rings of 2, window 2, 3 pings a run, 2 runs, 1 restart | ring invariants across programs, clean runs, pings are answered |
| `wifi_cmds` | 2 callers, 3 slots, queue of 2, 3 messages of every kind, 1 failing transfer | one user per slot, own confirm, the queue drains and callers return |
| `rx_reorder` | numbers mod 16 from 14 on, window 4, 2 entries, 6 frames, 1 repeat | order, pool and list; no frame is passed that may still come in time; none is held for ever |

Two more configurations, `MCMsgboxEarlyDone.cfg` and `MCMsgboxHeldDone.cfg`, are not among the
runs: with each TLC prints the trace of a case section 5 tells of.

**Bounds.** `IndexMod` 8 with 4 slots is the tightest ratio with which full and empty
differ from a corrupt fill level and lets every index wrap several times; the
code has 2^32. Four messages through a FIFO of two fill it, overflow it and drain
it across a channel request; a refused send needs a full FIFO and one message
more. -EBUSY in write-IRQ mode appears only after the channel is requested again
over a FIFO the remote has not emptied, hence two requests. Two channels are the
smallest number that shares a line. Two boots are the smallest number in which a
late handler meets the next run; two crashes show that the line is armed again
after the first recovery. One failing call reaches every error label, since each
call may be the one. `MaxTimeouts` is 2: two
senders blocked on one channel queue their messages within microseconds and their waits
(`tx_tout`, one value for the channel) end together, so both may give up between the timer's
`last_tx_done()` and the core's tick, or one in each of two visits. Two buffers are the smallest
ring in which buffers change their order and a ring is neither full nor empty; its
indices, counted modulo 4, wrap after two rounds, and a full ring, an empty one and a
ring error remain different. One doorbell fills the host's FIFO, so `notify_host` waits
at once; two fill the firmware's, so kicks are lost. Order needs two different
messages and no malformed one, ownership needs a malformed one, so the two runs differ.
Three numbers are the fewest with which `ping_shm` can tell the last answer from a wrong one, and
the run has four; two runs and two restarts reach every late answer and every half-made packet, and
four pings wrap the numbers. In `dram_msg`, three pings through rings of two wrap the slots and with two runs and
the new endpoints the indices; one killed run and one restart are the two events its hazards need.
Two callers and the work are the fewest that queue behind a deferred command; with two in the
queue it is full. Five frames are enough for two gaps in one list and a window of four holds them. With six
one may lie beyond the window, on an empty list and on one that holds frames, so that the window's
start is computed from it (the third branch of `reord_need_check`). Starting at 14 puts the wrap of the
numbers inside the session. The instances and the proofs assume fewer than half the sequence numbers in a whole run,
which is more than the code needs: it needs that only of the numbers it compares, those of one window
and of what is still on its way to it.

**Deadlock** checking is off where the environment may simply stop (no client, no
remote, bounds used up); there the progress properties (`ChannelProgress`,
`RprocProgress`, `EchoProgress`, `PingProgress`, `PingsReturn`, `CmdProgress`,
`ReorderProgress`) say that no call hangs. The ring runs check for deadlock.

**Fairness.** Ring: both sides keep polling, as both programs do; the scheduler is
weakly fair. Message box: threads that hold or wait for a lock run on, an
asserted line is served, the poll timer fires again while a request is active
(strong fairness, because it visits a channel only between two handlers), the
remote keeps reading. Clients need never send. RPMsg: the
core runs, its interrupt is taken, the host's driver probes once, takes doorbells and
runs its work; nobody need send. Remoteproc: threads and works run
on; the crash work gets the mutex some time (a kernel mutex hands itself to its
waiters). The core need never crash or ring, the user need never act. Ping and DRAM pair: the
firmware loops, a stopped E906 is started again in `ShmPing`, the interrupt is taken, and a program
that neither ended nor gave up keeps running. Wi-Fi: threads, works, timers and timeouts end; the
firmware answers what reached it; no frame need be sent or arrive.

## 4. What is proved

TLAPS checks, for every ring size, every index width and any number of restarts
that `SpscRing` allows:

| Theorem | Says |
|---|---|
| `TypeCorrect` | types, and indices stay in range |
| `RingInvariant` | the inductive invariant `RingInv` always holds |
| `SlotsExclusive` | producer and consumer are never inside one slot |
| `WholeItemsOnly` | no item is read half written |
| `NeverAlarms` | `corrupt()` is never raised by a legal history |
| `CopiesLagAlways` | private indices and copies never run ahead of the shared ones |
| `RingImplementsFifo` | every step is a step of `Fifo` or a stutter |

The safety properties are not inductive: slot exclusion depends on how old the
copies may be and on what each endpoint has already checked. `RingInv` adds the
types, that a private index equals the shared one it owns and the copy of the
other's only lags behind it (by at most `N` in all), that an endpoint inside an
operation has found room, or an item, in its own copies, that every slot between
`tail` and `head` holds a whole item, and that an item in transit equals the slot
it is copied to or from. Each action keeps each part; the arithmetic modulo
`IndexMod` is in lemmas of its own. The assumption on the constants is that `N`
divides `IndexMod` and is smaller, which the code has because its `N` is a power of
two. The refinement maps the FIFO's contents to the slots from `tail` to `head`, as
a function over positions (no recursion), and needs `RingInv` to show that a commit
appends and a release removes the first element. `RingInv` is proved in parts: the types, what
the shared words say, and what each endpoint adds from its construction on. A step of one
endpoint needs nothing of the other's part and keeps it, so an endpoint may be absent; the lemmas
on single calls (`ProducerCall` to `ReleaseShifts`) say this for the programs that use a ring.

For `DramMsg`, for every ring size, window, number of pings, of runs and of stops
(`DramMsgProofs`):

| Theorem | Says |
|---|---|
| `DramInvariant` | the inductive invariant `DramInv` always holds |
| `RingsAlwaysHold` | both rings keep `RingInv`, and the E906 always finds room for its reply |
| `RingsHoldTheRun` | the rings hold this run's messages, in order, and nothing else |
| `RunsAreClean` | `ping_dram` finds no wrong reply and no corrupt index |

Apart from the types they speak of rings that were not initialised under a client (`upset`). The two rings are
instances of `SpscRingProofs` as well, whose lemmas are cited once for each; `TxSame` and `RxSame`
say that the actions are those of the instances the model uses. `DramInv` says which endpoints
exist where the two programs are, and counts: together the rings hold at most `Window` messages,
one more between the commit of a reply and the release of its ping, whoever put them there. That
is why a new run may take over what a killed one left, and why the reply ring cannot fill up as
long as the window is no larger than a ring. A new run posts only after it saw the ping ring
empty, which means that the E906 is not in the middle of a ping, and then the reply ring empty;
from there on the number in the rings is what it sent and has not received, and `OrderedInv` says
which messages these are: replies from the next one expected on, then unanswered pings. Commit
before release matters here: the other way round an empty ping ring would not mean that every reply is
out. The magic word is what keeps clients out while the rings are initialised; it is written last.
The proof that no reply passes for one to a ping that was not sent needs the markers of empty and
unfinished slots to be no messages (`MarkersAssumption`).

For `ShmPing`, for every width of the sequence numbers above two and any number of pings,
runs and restarts (`ShmPingProofs`):

| Theorem | Says |
|---|---|
| `PingPongInvariant` | the inductive invariant `PingPongInv` always holds |
| `TypeCorrect` | types, and at most one doorbell in the FIFO |
| `SlotsExclusive` | the E906 uses the slot only while the program waits or its run has ended |
| `NeverAlarms` | a run under which the E906 did not restart reports nothing malformed |
| `SleepersWake` | a sleeping program whose answer is there has an interrupt on its way |
| `EchoInvariant` | the invariant `EchoInv` of the payloads, where `MaxRestarts + 1 < SeqMod` |
| `AcceptedPongsWereMade` | an accepted pong was made from the ping the run sent, under the same hypothesis |

`PingPongInv` joins four parts. The slot part says which of the two owns the slot: the numbers
are equal, or differ by one and the program waits, whatever step the firmware is at. The
line part says that an answer that was published without a doorbell in the FIFO is about to be
rung for, and that a doorbell in the FIFO shows in the pending bit, so a sleeper's line is
unmasked or its event unread. The packet part says that the ping in the slot is whole while
the E906 may read it, and the pong that was started from it carries its number, timestamp and
body. The last part ties the program's own number to the slot. Slot exclusion is lost only by
a program that starts before the earlier answer is out; the packet part needs slot exclusion to
survive the E906's writes.

`AcceptedWasMade` needs a second invariant, `EchoInv`, because the program compares the payload of a
pong with its number and the firmware may stop between a pong's header and its payload. Then the
payload of an earlier pong stays in the slot, and each such stop costs a number. `EchoInv` counts
them: how far the number in the slot is ahead of the payload's is at most the restarts so far,
with one more while a ping is out and one fewer while the restarted firmware has yet to adopt the
slot. The payload therefore passes for the current one only after a whole round of numbers,
which `MaxRestarts + 1 < SeqMod` excludes. The hypothesis is needed: with as many restarts as
numbers TLC finds a pong that is accepted and was never made (`SeqMod` 3, `MaxRestarts` 3,
`MaxRuns` 4). In the code `SeqMod` is 2^32, and every restart in the count has to hit between the
same two writes.

For `RwnxCmds`, for every number of callers, slots, queued commands, messages and failing
transfers (`RwnxCmdsProofs`):

| Theorem | Says |
|---|---|
| `TypeCorrect` | types, and the queue is never longer than `max_queue_sz` |
| `SlotsAlwaysOwned` | no slot has two users or is used while free, none is taken off the list twice |
| `AnswersAreOwn` | who waits for its command itself gets the confirm of that command |

The invariant is `CmdInv`. Its first half, `SlotInv`, is inductive without the second. It says of
a command in the queue that it is used, waits for a confirm, is not complete, and, behind the
head of a manager that has not crashed, waits for its push; and of every process what the slot it
holds is like: not yet queued, or being sent by its caller (never deferred) or by the work
(deferred, and the flag taken away), and, while it is being sent, at the head if it is in the
queue at all. `RWNX_CMD_FLAG_DONE` may be left over from an earlier use of the slot; it is enough
that a command without it is still in the queue, since only then does a timeout take it off. The
second half says what is on its way to the firmware and back: at most one message that wants a
confirm, that of the head, and none while somebody is about to send. Then the match by id alone,
which may find a command behind the head, cannot find the wrong one for a caller that waits. A message
without confirm that is written over an unsent one ends this for good (`mixed`). After a crash it
is claimed only while a caller waits for a command in the queue, because the work goes on to the next
command before the last one is answered; so the theorem leaves out the work after a crash,
whose wait nobody reads the result of. The lemma `Removal` says what the list is like after a
`list_del`: the same commands but one, in the same order.

For `Sun55iMsgbox`, in both TX-done modes, for every number of channels, FIFO depth, messages,
requests of a channel and timeouts (`Sun55iMsgboxProofs`):

| Theorem | Says |
|---|---|
| `MsgboxInvariant` | the inductive invariant `MsgboxInv` always holds |
| `TypeCorrect` | types, and no write ever meets a full FIFO |
| `UsersCounted` | `tx_irq_users` counts the channels that need the TX-done line |
| `ReceivesConsistently` | deliveries have a client; a read pending bit means a message |
| `OrderedWithoutLoss` | messages arrive once, in order, and none is lost without a timeout |
| `DoneMeansAccepted` | a request is reported done only after the remote's FIFO took its message: always with the interrupt; with the timer unless two sends gave up during its visit |
| `QuietWhenAlone` | after the shutdown of a channel that has its line for itself nobody works for it |

`MsgboxInv` joins nine parts. `SubInv` ties a `send_data()` between its two critical sections to the
thread it runs in (a client, the TX-done handler, the timer) and to `chan->lock`. `RxInv` and
`LineInv` follow the receive handler and `startup`/`shutdown` through their places: which bits are
enabled there, who still counts as a user; `users` is the cardinality of a set of channels, so a step
of one channel is a lemma on adding or removing one element. `OrderInv` says that what the remote
has read, the FIFO, the held message and the core's queue are one increasing sequence; `TimerInv`
what the poll timer knows between `last_tx_done()` and the core's tick (nothing is held if at most one
send gave up since, and the FIFO has room unless that one let another be written); `LapseInv` that every
send that gave up in a visit is counted; `AcceptInv` that an active request that is not held is the message
the FIFO took last, as is one that `send_data()` has written and the core has not taken over; `LossInv` says where every message is
that was not read. `DoneMeansAccepted` has no hypothesis. Its limit is part of the property and is where the
code stops keeping its word: two blocking sends that give up one after the other between the timer's
look and its tick leave a third message held that is then reported done (section 5); with the
interrupt there is no limit. `QuietWhenAlone` speaks of a channel that owns its line, for the reason of V3-S4 (below).
The proof also corrected the model: the mailbox core resets a channel it hands out under `chan->lock`,
so `Request` waits for that lock.

For `SunxiRproc`, with and without the crash interrupt, for every number of memory regions, vrings,
boots, crashes, failing calls and notifications (`SunxiRprocProofs`):

| Theorem | Says |
|---|---|
| `TypeCorrect` | types; among them that no memory entry is lost or freed twice |
| `BootsAreOrdered` | whichever call fails, a stopped core holds nothing; only a held core is loaded |
| `LineBalanced` | the armed bit tells the disable depth until the kernel warns; a stopped core's line is masked even then |
| `UnboundInOrder` | the message box outlives who kicks, and `remove()` leaves no work and no callback behind |

The invariant is `RprocInv`, and the properties follow from it in a few steps, because each says at
rest what the invariant says at every place of the lock's holder. `OrderInv` lists what is acquired
there: before the n-th call of `prepare()` it is what the calls before it acquired, `HeldAt(n)`, and the
lemma `PrepareUnwinds` says that the label the n-th call jumps to releases just that. `LineInv`
gives the disable depth between the steps too (`Depth`): whoever changed the armed bit owes the line
one enable or disable, which is still to come. `enable_irq` at depth 0 can only leave it too high,
so after a warning the depth is at least what it should be, and that is enough for a stopped core.
Both need `RemoveInv`: once `remove()` has begun, at most its own shutdown runs.

For `RpmsgDevice`, for both programs, every ring size and index width, every set of messages and
every depth of the doorbell FIFOs (`RpmsgDeviceProofs`):

| Theorem | Says |
|---|---|
| `RpmsgInvariant` | the inductive invariant `RpmsgInv` always holds |
| `TypeCorrect` | types; no index leaves its range, no FIFO overflows |
| `BuffersHaveOneOwner` | no buffer is lost or twice in a ring; what the host finds returned is a whole message |
| `DoorbellsHold` | no doorbell to the host is missing, and kicks are on exactly where they are wanted |
| `EchoImplemented` | every well-formed request is answered once, unchanged and in order: the refinement of `EchoService` |

`OneOwner` is not inductive, because four sets that make up all buffers do not say which slot
holds which buffer. The proof counts the buffers of a ring from the one the host will see next: first
what it has not seen, then the buffer being filled, then what is lent. `Flow` is the buffer at a
position and `Round` says that no buffer has two positions or is also kept by the host, and that
positions and kept buffers are `N` in all. Returning a buffer then changes no position at all (what was
the first of one half is now the last of the other, in another array), lending adds a last one, and
a buffer that was seen and lent again goes from first to last (`FlowGive`, `FlowOffer`, `FlowTurn`). These
lemmas are about one ring and any owner; `RxMoves` and `TxMoves` show that each step is one of these
moves on each ring. `PlaceInv` says what the firmware has established where it is: that
`poll()`'s count never exceeds what is lent, so the ring error is never raised, and that nothing is
served before the driver is there. `ContentInv` says what the buffers hold: requests where they are lent
on vring1, whole messages from the filled one to the last unread one on vring0. `SleepInv` holds the
flag and the interrupt mask on the worker's way to sleep. `HostIsTold` is inductive once descriptors are
known to be in range, which is what keeps `poll()` from ending without its last doorbell. A worker may
still sleep with a message in the ring (section 5): the theorem says only that the host may kick it.

`EchoImplemented` maps the state to the requests out: the well-formed ones (`Kept`) of the replies the host
has not read and the requests the firmware has not answered. `ShapeHolds` places both sequences in the
order of the buffers above, so the moves of the rings say what a step does to them:
requests are added at the end and taken from the front (`RequestedMoves`), and so are replies, while the
buffer that is being filled keeps its content (`RepliesMoves`). `CopyInv` says what that content is, the oldest
request or the announcement; it needs `OldestStays`, that no host step writes the buffer of a request
the firmware reads. `EchoStep` then joins them. `ReplyPublish` moves the oldest request from one sequence to
the end of the other, and what is out stays the same; a malformed request leaves with `ReturnBuffer`
and was never counted. That `Kept` takes a sequence one message at a time, from both ends and over `\o`
(`KeptAppend`, `KeptTail`, `KeptConcat`), is proved by the induction on sets described below for
`RxReorder`. At most `2 * N` requests are out, `N` in either sequence. Nothing is assumed of the host but that it lends
and reads as the virtio driver does, and nothing of fairness: a reply that never comes is `EchoProgress`.

For `RxReorder`, for every width of the sequence numbers, window, first number, pool and every number of
frames sent (fewer than half the sequence numbers) and received twice (`RxReorderProofs`):

| Theorem | Says |
|---|---|
| `RxInvariant` | the inductive invariant `RxInv` always holds |
| `TypeCorrect` | types; held frames are sorted and inside the window; no pool entry is lost or freed twice |
| `NeverReorders` | a frame goes up after a later one only if the window had passed it before it came, or if it came twice |

"Any number of frames" is any number below half the sequence numbers: the proofs assume it of the
whole run, the code needs it only of the numbers it compares (section 3). It is what makes `SN_LESS`
mean anything; the lemma `SnOrder` and those around it turn comparisons of wrapping
numbers into comparisons of places in the sender's order, and nothing else in the proof sees a
number. `InOrder` is about what went up already. Its strengthening `PendingInv` says the same of what
may still go up: a frame in the air, in the thread's hands or in the list comes after everything that
went up, or it was passed, or it came twice. That is kept by a release because of `WindowInv`: `ind_sn` stands
at a place, the list is sorted and lies after that place within a window, and any frame
before it that has not been seen yet is among the passed ones. `PlaceInv` says where frames can be:
a frame held is not in the air, and a flushed session holds nothing, so the frame that begins the next
session comes first. Two operators are loops: the search for the place to insert (`SelectInSeq`, a least
index) and `Scan`, a recursive function over the list. The library's induction theorems take an operator as a
parameter and cannot be used, so induction is stated of a set (`SetInduction`, from a least
element of a well-founded order), and `Scan` is characterised by showing that a function with
its equations exists (`ScanExists`, `ScanIsLoop`).

Only model-checked: liveness (and with it the lost wake-up's fairness), which TLAPS 1.4.5 does not reach.

## 5. Disagreements found

Two are runs that fail, with the trace TLC prints.

* `rpmsg_lost_wakeup`: the worker of `testFreeRTOS` turns kicks on and sleeps. A message
  added after `poll()` last read the ring's index, while NO_NOTIFY was still set, is not
  kicked; nothing looks at the ring again, and the message waits for the next one. The
  comment above the call says the host will wake the worker when a new message
  arrives. `Doorbells` holds: the next message does wake it.
* `rproc_crash_irq`: the crash thread clears the armed bit and masks the line in two steps.
  The project's own review ledger (`upstream-remoteproc/v3/COMMENTS.md`) lists it as V3-S6.

Two concern what the message box driver promises of a request that is done. `DoneIsAccepted` is what
the code keeps: the remote's FIFO took the message. The comments promise more
(`v3-0002`, lines 448 and 553), and TLC shows where the code keeps less:

* `DoneHasRoom`, "and has room for the next one" (`MCMsgboxEarlyDone.cfg`). With the interrupt,
  `send_data()` writes the message and arms the interrupt in two critical sections, and a refused
  message waits with the interrupt armed. A handler that saw room for the refused message reports it done
  after another send wrote it and filled the FIFO. This is V3-S3 of the ledger.
* `DoneIsAlwaysAccepted` (`MCMsgboxHeldDone.cfg`). With the poll timer, `last_tx_done()` answers for
  the request that is active then, and the core's tick ends the one that is active later. Two
  blocking senders that give up in between leave a third message active, which met a full FIFO and
  is held; the tick reports it sent, and the next send drops it. `DoneIsAccepted` excepts exactly
  this case: one sender may give up at any moment. The ledger does not list it (V3-K1 plans to drop
  the timer).

Two more of that ledger show in the models as limits of a property. V3-S4: on a line that
another channel keeps, a TX-done handler may start between `synchronize_irq()` and the second
disarm; `QuietAfterShutdown` is checked for a channel that owns its line. V3-S5: the work queued by a late
notification walks the notify ids while a shutdown frees the vrings; `RemovedInOrder` is about
the unbind, which does order them. One is outside the model: V3-S2, a message refused with -EBUSY
stays in the core's queue with no active request, so a blocking sender that gives up leaves the core with a
pointer to memory that is gone. That the refused message is submitted again, by whoever submits next, is in
the model; the memory it lies in is not, since a message is a number.

Other properties that hold only with a stated limit: `BalancedUntilWarned` and the crash part of
`RprocProgress` hold until the interrupt core has warned (then `rproc_crash_irq` applies);
`SentOnceInOrder` and `TxProgress` speak of channels on which no blocking send gave up;
`DoneIsAccepted` says nothing of a visit of the poll timer in which two sends gave up. A crash reported in one run may also be handled in the
next one, if a shutdown and a boot come between the report and the core's crash work; nothing
the driver does could prevent that. `CleanRuns`, `RingsHold` and `PingsReturn` speak of runs whose
rings were not initialised under them (`upset`), `NoFalseAlarm` of runs under which the E906 stayed
up (`disturbed`). `CmdProgress` excepts one wake-up (`missed`): the sender of a traffic command
reads `queue_sz` without the lock after it queued its command alone; if another was queued
behind it meanwhile, the work is not woken and the queue waits for the next command.
`AnsweredByOwn` excepts messages without confirm that were written over an unsent command in the
one buffer (`mixed`), which no lock prevents. A caller that waits for an empty queue because it
wants the confirm's data may still be deferred if another queues first; it then returns without
the data, and the confirm is copied into a buffer that has gone (`rwnx_msg_tx.c:334`).

## 6. Not modelled

The map covers a small share of the repository's lines, because nine tenths of them are the
vendored AIC8800 driver, in two near-identical copies: cfg80211 operations that fill one message
and send it, tables of channels, rates and firmware patches, register and layout headers,
debug files. They have no state machine of their own beyond the command manager that carries
them and the receive path, which are modelled from one copy; the other copy (`aic8800-rfcv3`) has
the same functions.

* Peripheral drivers of the firmware (UART, SPI, GPIO, clocks, PMP, timer): register programming
  that polls a status bit. Startup code and the FreeRTOS port are assembly.
* The message box driver of the firmware: a bounded spin and a FIFO access, which its users'
  modules contain (`Ring`, `Pop`, `NotifyHost`, `DrainDoorbells`).
* In-process SPSC queue: the algorithm of `SpscRing` with both indices in one address space.
* Trace buffer, atomics, interrupt dispatcher: one function each; the trace buffer's `putc()` is not
  protected against an interrupt that traces too, which costs a character of a debugging aid.
* Address translation of the remoteproc driver (`da_to_va`, `sys_to_da` and the overlap check):
  pure arithmetic on tables, covered by the KUnit tests of `v3-0007`.
* Unit tests, host tools, board files, build configuration and documents.

## 7. What could follow

1. A host rpmsg driver that is unbound and bound again.
2. The removal of a station in `RxReorder`, with the life time of its session.
