------------------------------ MODULE RxReorder -----------------------------
(***************************************************************************)
(* The receive reordering of the AIC8800 Wi-Fi driver (rwnx_rx.c): one     *)
(* session of one station, with its timer and its work.                    *)
(*                                                                         *)
(* Frames of a block-ack session arrive out of order.  The receive thread  *)
(* holds a frame in reord_list until all frames before it have come or are *)
(* given up: because the window moved on, or because the reorder timer     *)
(* fired and its work started over at the oldest frame held.  A frame that *)
(* comes after that is late and goes up at once.                           *)
(*                                                                         *)
(* What runs under reord_list_lock is one step.  The lookup of the session *)
(* takes another lock, and the timer's handler and the flush take none     *)
(* where they look at the timer and the work.                              *)
(*                                                                         *)
(* A frame is its place 1, 2, ... in the sender's order, and a late RTP    *)
(* frame, which is dropped, is any late frame.                             *)
(***************************************************************************)
EXTENDS Naturals, Sequences, FiniteSets, SequencesExt

CONSTANTS SnMod,        (* sequence numbers: 4096                           *)
          WSize,        (* AICWF_REORDER_WINSIZE: 64                        *)
          Pool,         (* recv_msdu entries the other sessions leave       *)
          First,        (* the first frame's sequence number                *)
          MaxFrames,    (* bound: frames sent                               *)
          MaxRepeats    (* bound: frames received twice                     *)

Half == SnMod \div 2

ASSUME RxReorderAssumption ==
  /\ SnMod \in Nat /\ WSize \in 1 .. Half /\ Pool \in Nat \ {0}
  /\ First \in 0 .. SnMod - 1
  /\ MaxFrames \in 1 .. Half - 1 /\ MaxRepeats \in Nat

Frames == 1 .. MaxFrames
Unset  == SnMod                                                  (* 0xffff *)

VARIABLES
  ind_sn,       (* the next sequence number to go up                        *)
  list,         (* reord_list                                               *)
  enable,       (* the session reorders: not since a flush                  *)
  pool,         (* free recv_msdu entries                                   *)
  rx,           (* the receive thread's place and frame                     *)
  tmr,          (* reord_timer is pending                                   *)
  firing,       (* its handler is running                                   *)
  work,         (* reord_timer_work is queued                               *)
  running,      (* it is running, before the lock                           *)
  sent, air,    (* frames sent, and those still to arrive or be lost        *)
  up,           (* history: the frames given to the network stack           *)
  passed,       (* history: frames that ind_sn passed before they came      *)
  again         (* history: frames received twice                           *)

session == <<ind_sn, list, enable>>
timer   == <<tmr, firing>>
works   == <<work, running>>
radio   == <<sent, air>>
seen    == <<passed, again>>
vars    == <<session, pool, rx, timer, works, radio, up, seen>>

Idle == [pc |-> "idle", f |-> 1]

Init ==
  /\ ind_sn = Unset /\ list = << >> /\ enable = TRUE /\ pool = Pool
  /\ rx = Idle /\ tmr = FALSE /\ firing = FALSE
  /\ work = FALSE /\ running = FALSE
  /\ sent = 0 /\ air = {} /\ up = << >> /\ passed = {} /\ again = {}

Sn(f)         == (First + f - 1) % SnMod
After(s)      == (s + 1) % SnMod
LessNoWrap(a, b) == a < b                                         \* mutant
Less(a, b)    == ((a + SnMod) - b) % SnMod >= Half           (* SN_LESS() *)
Goes(place)   == rx' = [rx EXCEPT !.pc = place]
Precedes(f, s) == ((s + SnMod) - Sn(f)) % SnMod \in 1 .. Half - 1

(* Still to come after this step: in the air, or in hand before the lock.   *)
Coming == air' \cup {f \in Frames : rx'.pc \in {"find", "check"} /\ rx'.f = f}
Missed == passed' = passed \cup {f \in Coming : Precedes(f, ind_sn')}

(* How many members of l come before the first one whose number is not less *)
(* than s (Ahead), or is beyond s (Ready).                                  *)
Before(l, k)  == IF k = 0 THEN Len(l) ELSE k - 1
Ahead(l, s)   == Before(l, SelectInSeq(l, LAMBDA f : ~Less(Sn(f), s)))
Ready(l, s)   == Before(l, SelectInSeq(l, LAMBDA f : Less(s, Sn(f))))

-----------------------------------------------------------------------------
(* The sender keeps all that is in the air within one window.  It gives a   *)
(* frame up when it was not acknowledged after some attempts.               *)

Transmit ==
  /\ sent < MaxFrames /\ \A f \in air : sent + 1 < f + WSize
  /\ sent' = sent + 1 /\ air' = air \cup {sent + 1}
  /\ UNCHANGED <<session, pool, rx, timer, works, up, seen>>

Lose(f) ==
  /\ f \in air /\ air' = air \ {f}
  /\ UNCHANGED <<session, pool, rx, timer, works, sent, up, seen>>

-----------------------------------------------------------------------------
(* reord_rxframes_process(): ind_sn moves over the frames held up to the    *)
(* first gap; then reord_rxframes_ind() gives them up.                      *)

Advance(at, f) ==
  IF at.gap \/ Less(at.ind, Sn(f)) THEN [at EXCEPT !.gap = TRUE]
  ELSE IF at.ind = Sn(f) THEN [at EXCEPT !.ind = After(@)] ELSE at

Scan(s, l) ==
  LET at[i \in 0 .. Len(l)] ==
        IF i = 0 THEN [ind |-> s, gap |-> FALSE] ELSE Advance(at[i - 1], l[i])
  IN  at[Len(l)]

(* reord_single_frame_ind() of n frames: to the stack, entries to the pool. *)
GiveUp(l, n) ==
  /\ up' = up \o SubSeq(l, 1, n) /\ pool' = pool + n
  /\ list' = SubSeq(l, n + 1, Len(l))

ScanAndGive(s, l) ==
  /\ ind_sn' = Scan(s, l).ind /\ Missed
  /\ GiveUp(l, Ready(l, ind_sn'))

-----------------------------------------------------------------------------
(* reord_process_unit().  Without a free entry the frame is dropped.  EAPOL *)
(* and multicast frames go up past the session, their numbers missing in it.*)

Receive(f) ==
  /\ rx.pc = "idle"
  /\ \/ f \in air /\ UNCHANGED again
     \/ /\ f \in 1 .. sent \ air /\ sent < f + WSize
        /\ Cardinality(again) < MaxRepeats /\ again' = again \cup {f}
  /\ air' = air \ {f}
  /\ \/ pool = 0 /\ UNCHANGED <<pool, rx>>
     \/ pool > 0 /\ UNCHANGED <<pool, rx>>        (* EAPOL, multicast: freed *)
     \/ pool > 0 /\ pool' = pool - 1 /\ rx' = [pc |-> "find", f |-> f]
  /\ UNCHANGED <<session, timer, works, sent, up, passed>>

(* Under stas_reord_lock: a flushed session begins anew.                    *)
Find ==
  /\ rx.pc = "find" /\ Goes("check")
  /\ enable' = TRUE /\ ind_sn' = IF enable THEN ind_sn ELSE Unset
  /\ UNCHANGED <<list, pool, timer, works, radio, up, seen>>

Late(f) == ind_sn # Unset /\ Less(Sn(f), ind_sn)

LateFrame ==
  /\ rx.pc = "check" /\ Late(rx.f)
  /\ rx' = Idle /\ pool' = pool + 1
  /\ up' \in {up, Append(up, rx.f)}                  (* a late RTP: dropped *)
  /\ UNCHANGED <<session, timer, works, radio, seen>>

(* reord_need_check(): the window's end, and its start after frame f.       *)
WindowEnd == (ind_sn + WSize - 1) % SnMod
StartTooLate(f) == (Sn(f) + SnMod - (WSize - 2)) % SnMod          \* mutant
WindowStart(f) == (Sn(f) + SnMod - (WSize - 1)) % SnMod
Checked(f) ==
  IF ind_sn \in {Unset, Sn(f)} THEN After(Sn(f))
  ELSE IF Less(WindowEnd, Sn(f)) THEN WindowStart(f)
  ELSE ind_sn

(* reord_rxframe_enqueue()                                                  *)
Held(f) == \E i \in DOMAIN list : Sn(list[i]) = Sn(f)
AtTheEnd(f) == Append(list, f)                                    \* mutant
Enqueued(f) ==
  InsertAt(list, Ahead(list, Sn(f)) + 1, f)

HeldFrame ==
  /\ rx.pc = "check" /\ ~Late(rx.f) /\ Held(rx.f)
  /\ rx' = Idle /\ pool' = pool + 1
  /\ UNCHANGED <<list, enable, timer, works, radio, up, again>>
  /\ ind_sn' = Checked(rx.f) /\ Missed

NewFrame ==
  /\ rx.pc = "check" /\ ~Late(rx.f) /\ ~Held(rx.f)
  /\ rx' = Idle
  /\ UNCHANGED <<enable, firing, works, radio, again>>
  /\ tmr' = Scan(Checked(rx.f), Enqueued(rx.f)).gap
  /\ ScanAndGive(Checked(rx.f), Enqueued(rx.f))

-----------------------------------------------------------------------------
(* reord_flush_tid() for a frame outside a session, and the frame itself.   *)
(* The sender has ended the session: nothing else is in the air.            *)

FlushList ==
  /\ rx.pc = "idle" /\ air = {sent} /\ air' = {}
  /\ \/ ~enable /\ up' = Append(up, sent) /\ UNCHANGED <<session, pool, rx>>
     \/ /\ enable /\ GiveUp(list, Len(list)) /\ enable' = FALSE
        /\ rx' = [pc |-> "timer", f |-> sent] /\ UNCHANGED ind_sn
  /\ UNCHANGED <<timer, works, sent, seen>>

(* timer_delete_sync() waits for the handler, but is called only if pending.*)
FlushTimer ==
  /\ rx.pc = "timer" /\ (tmr => ~firing)
  /\ tmr' = FALSE /\ Goes("work")
  /\ UNCHANGED <<session, pool, firing, works, radio, up, seen>>

(* cancel_work_sync() waits for the work.                                   *)
FlushWork ==
  /\ rx.pc = "work" /\ ~running
  /\ work' = FALSE /\ up' = Append(up, rx.f) /\ rx' = Idle
  /\ UNCHANGED <<session, pool, timer, running, radio, seen>>

-----------------------------------------------------------------------------
(* reord_timeout_handler() and reord_timeout_worker()                       *)

TimerFires ==
  /\ tmr /\ ~firing /\ tmr' = FALSE /\ firing' = TRUE
  /\ UNCHANGED <<session, pool, rx, works, radio, up, seen>>

HandlerQueues ==
  /\ firing /\ firing' = FALSE /\ work' = TRUE
  /\ UNCHANGED <<session, pool, rx, tmr, running, radio, up, seen>>

WorkStarts ==
  /\ work /\ ~running /\ work' = FALSE /\ running' = TRUE
  /\ UNCHANGED <<session, pool, rx, timer, radio, up, seen>>

NeverAgain == tmr                                                 \* mutant
Rearmed    == tmr \/ Scan(Sn(list[1]), list).gap
WorkRuns ==
  /\ running /\ running' = FALSE
  /\ UNCHANGED <<enable, rx, firing, work, radio, again>>
  /\ \/ list = << >> /\ UNCHANGED <<ind_sn, list, pool, tmr, up, passed>>
     \/ /\ list # << >> /\ tmr' = Rearmed
        /\ ScanAndGive(Sn(list[1]), list)

-----------------------------------------------------------------------------
Process == Find \/ LateFrame \/ HeldFrame \/ NewFrame
Timeout == TimerFires \/ HandlerQueues \/ WorkStarts \/ WorkRuns
Next ==
  \/ Transmit \/ Process \/ FlushList \/ FlushTimer \/ FlushWork \/ Timeout
  \/ \E f \in Frames : Lose(f) \/ Receive(f)

Spec == Init /\ [][Next]_vars

(* The receive thread finishes with a frame it has, timers expire and their *)
(* handler ends, and queued work runs.  Nothing has to be sent or to arrive. *)
FairSpec ==
  /\ Spec /\ WF_vars(Process \/ FlushTimer \/ FlushWork)
  /\ WF_vars(TimerFires \/ HandlerQueues) /\ WF_vars(WorkStarts \/ WorkRuns)

-----------------------------------------------------------------------------
(* Types.  The frames held are in order without repetition, all inside the  *)
(* window after ind_sn, and every entry of the pool is free, holds a frame  *)
(* of the list or the frame in hand.                                        *)
TypeOK ==
  /\ ind_sn \in 0 .. SnMod /\ list \in Seq(Frames) /\ pool \in 0 .. Pool
  /\ rx \in [pc : {"idle", "find", "check", "timer", "work"}, f : Frames]
  /\ {enable, tmr, firing, work, running} \subseteq BOOLEAN
  /\ sent \in 0 .. MaxFrames /\ air \subseteq 1 .. sent
  /\ \A i \in 2 .. Len(list) : list[i - 1] < list[i]
  /\ \A i \in DOMAIN list :
       ((Sn(list[i]) + SnMod) - ind_sn) % SnMod \in 1 .. WSize - 1
  /\ pool + Len(list) + (IF rx.pc \in {"find", "check"} THEN 1 ELSE 0) = Pool

(* A frame goes up after a later one only if the window had passed it       *)
(* before it came, or if it came twice: reordering never reorders, over a   *)
(* wrap of the sequence numbers, a timeout, a window that moves on and a    *)
(* flush, whatever work is left of an earlier timeout.                      *)
InOrder ==
  \A j \in DOMAIN up : \A i \in 1 .. j - 1 :
    up[i] < up[j] \/ up[j] \in passed \cup again

(* A frame is passed before it came only when it is due: the work gives up  *)
(* what the timer waited for, a session begins at its first frame, or a     *)
(* frame came that is WSize or more after it.  Neither the window's start   *)
(* nor the scan over the frames held ever goes further than that.           *)
PassedWhenDue ==
  [][\A f \in passed' \ passed :
       (running /\ ~running') \/ ind_sn = Unset \/ f + WSize <= rx.f]_vars

(* No frame is held for ever: whatever does not come, the timer, armed      *)
(* again as long as there are gaps, gives up what waits.  The sender has    *)
(* finitely many frames, so that is to say that the list empties.           *)
ReorderProgress == []<>(list = << >>)
=============================================================================
