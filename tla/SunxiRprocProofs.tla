-------------------------- MODULE SunxiRprocProofs --------------------------
(***************************************************************************)
(* Proofs about SunxiRproc for any number of boots, crashes, failing       *)
(* calls, memory regions and vrings.                                       *)
(*                                                                         *)
(* What the holder of rproc->lock has acquired follows from the call it is *)
(* at (OrderInv).  The depth of the crash line follows from the armed bit  *)
(* and from who is between a change of that bit and the enable or disable  *)
(* that belongs to it (LineInv).  RemoveInv says what unbinding leaves.    *)
(***************************************************************************)
EXTENDS SunxiRproc, TLAPS

(* The type invariant in parts.                                            *)
Pcs == {"free", "prepare", "remap", "clear", "parse", "vdev", "load", "start", "arm",
        "enable", "virtio", "devices", "halt", "disarm", "disable", "wait", "stopped",
        "cleanup", "unprepare"}
TypeResources ==
  /\ powered \subseteq Resources /\ remap \in BOOLEAN /\ core \in {"reset", "run"}
  /\ entries \in 0 .. NumRmem /\ listed \in 0 .. NumRmem
  /\ vrings \subseteq 0 .. NumVring - 1 /\ vdev \in BOOLEAN
TypeOp ==
  /\ state \in {"offline", "running", "crashed", "deleted"}
  /\ op \in [pc : Pcs, by : {"none", "boot", "shutdown", "recovery"}, n : 0 .. 8]
TypeIrq ==
  /\ armed \in BOOLEAN /\ depth \in Nat /\ warned \in BOOLEAN
  /\ line \in BOOLEAN /\ handler \in {"idle", "woken", "mask", "report"}
  /\ crashQueued \in BOOLEAN /\ recovering \in BOOLEAN
TypeWork ==
  /\ rx \in BOOLEAN /\ vqQueued \in BOOLEAN /\ walk \in 0 .. NumVring
  /\ news \subseteq 0 .. NumVring - 1
  /\ mbox \in BOOLEAN /\ removing \in 0 .. 4
TypeBounds ==
  /\ boots \in 0 .. MaxBoots /\ crashes \in 0 .. MaxCrashes
  /\ fails \in 0 .. MaxFails /\ notes \in 0 .. MaxNotes

(* What prepare() holds before its n-th call; the second holds the core.   *)
HeldAt(n) == {PrepareCalls[i] : i \in (1 .. n - 1) \ {2}}

Empty      == entries = 0 /\ listed = 0 /\ vrings = {}
Registered == entries = NumRmem /\ listed = NumRmem
Ready      == powered = Resources /\ remap = TRUE
UpStates   == {"running", "crashed"}

Loading  == {"vdev", "load", "start"}
Starting == {"arm", "enable", "virtio"}
Halting  == {"disarm", "disable", "wait", "stopped"}
Stopping == {"devices", "halt"} \cup Halting
Offline  == {"prepare", "remap", "clear", "parse"} \cup Loading \cup Starting
            \cup {"cleanup", "unprepare"}

(* What the driver has acquired at each place of the lock's holder.        *)
OrderInv ==
  /\ op.pc = "free" => op = Free
  /\ op.pc = "free" => IF state \in UpStates THEN Ready /\ Registered
                       ELSE powered = {} /\ Empty
  /\ op.pc = "prepare" => /\ op.n \in 1 .. 8 /\ powered = HeldAt(op.n) /\ Empty
                          /\ op.n > 2 => core = "reset"
  /\ op.pc = "remap" => powered = Resources /\ Empty /\ core = "reset"
  /\ op.pc \in {"clear", "parse"} => Ready /\ Empty /\ core = "reset"
  /\ op.pc \in Loading \cup Starting \cup Stopping => Ready /\ Registered
  /\ op.pc \in Loading \cup Halting => core = "reset"
  /\ op.pc = "cleanup" => Registered
  /\ op.pc = "unprepare" => Empty
  /\ op.pc \in Offline => state = "offline"

(* The depth that the armed bit stands for, with one enable or disable that*)
(* is still to come; enable_irq() at depth 0 leaves it one too high.       *)
Depth == (IF armed = TRUE THEN 0 ELSE 1) + (IF op.pc = "enable" THEN 1 ELSE 0)
         - (IF op.pc = "disable" THEN 1 ELSE 0) - (IF handler = "mask" THEN 1 ELSE 0)

(* Before Arm and after Disarm: the line is not armed.                     *)
Unarmed ==
  \/ op.pc \in (Offline \ {"enable", "virtio"}) \cup {"disable", "wait", "stopped"}
  \/ op.pc = "free" /\ state \notin UpStates

LineInv ==
  /\ depth >= Depth
  /\ warned = FALSE => depth = Depth
  /\ Unarmed => armed = FALSE

(* Once remove() has begun, a shutdown runs at most, and then nothing.     *)
RemoveInv ==
  /\ removing >= 1 => \/ op.pc = "free" /\ state \notin UpStates
                      \/ /\ removing = 1 /\ op.by = "shutdown"
                         /\ op.pc \in Stopping \cup {"cleanup", "unprepare"}
  /\ removing >= 2 => op.pc = "free" /\ state = "deleted"
  /\ mbox = FALSE <=> removing >= 3
  /\ removing = 4 => vqQueued = FALSE /\ walk = Idle
  /\ vdev = TRUE => op.pc = "devices" \/ (op.pc = "free" /\ state \in UpStates)

RprocInv == TypeOK /\ OrderInv /\ LineInv /\ RemoveInv

-----------------------------------------------------------------------------
(* The lengths of prepare()'s and remove()'s lists of calls.               *)
LEMMA Lengths == Len(PrepareCalls) = 8 /\ Len(RemoveOrder) = 4
BY DEF PrepareCalls, RemoveOrder

(* TypeOK is its five parts, before and after a step.                      *)
LEMMA TypeParts ==
  /\ TypeOK <=> TypeResources /\ TypeOp /\ TypeIrq /\ TypeWork /\ TypeBounds
  /\ TypeOK' <=> TypeResources' /\ TypeOp' /\ TypeIrq' /\ TypeWork' /\ TypeBounds'
BY Lengths DEF TypeOK, TypeResources, TypeOp, TypeIrq, TypeWork, TypeBounds, Pcs

(* The calls of prepare(), in their order.                                 *)
LEMMA Calls8 ==
  /\ PrepareCalls[1] = "pm" /\ PrepareCalls[2] = "hold" /\ PrepareCalls[3] = "cfg"
  /\ PrepareCalls[4] = "sram" /\ PrepareCalls[5] = "debug"
  /\ PrepareCalls[6] = "bus clk" /\ PrepareCalls[7] = "sram clk"
  /\ PrepareCalls[8] = "core clk"
BY DEF PrepareCalls

(* The entry of Releases a failing call jumps to.                          *)
LEMMA Labels7 ==
  /\ Label["pm"] = 7 /\ Label["hold"] = 6 /\ Label["cfg"] = 6 /\ Label["sram"] = 5
  /\ Label["debug"] = 4 /\ Label["bus clk"] = 3 /\ Label["sram clk"] = 2
  /\ Label["core clk"] = 1
BY DEF Label, Resources

(* What the error labels release, in their order.                          *)
LEMMA Releases6 ==
  /\ Len(Releases) = 6
  /\ Releases[1] = "sram clk" /\ Releases[2] = "bus clk" /\ Releases[3] = "debug"
  /\ Releases[4] = "sram" /\ Releases[5] = "cfg" /\ Releases[6] = "pm"
BY DEF Releases

(* The error labels release the calls in reverse, but for the reset.       *)
LEMMA ReleasedAt ==
  /\ Releases[6] = PrepareCalls[1]
  /\ \A i \in 3 .. 7 : Releases[8 - i] = PrepareCalls[i]
<1>1. /\ Releases[6] = PrepareCalls[1] /\ Releases[5] = PrepareCalls[3]
      /\ Releases[4] = PrepareCalls[4] /\ Releases[3] = PrepareCalls[5]
      /\ Releases[2] = PrepareCalls[6] /\ Releases[1] = PrepareCalls[7]
  BY Calls8, Releases6
<1> QED BY <1>1

(* A call jumps to the label just above what its predecessor acquired.     *)
LEMMA LabelAt ==
  /\ Label[PrepareCalls[2]] = 6
  /\ \A n \in 3 .. 8 : Label[PrepareCalls[n]] = 9 - n
<1>1. /\ Label[PrepareCalls[2]] = 6 /\ Label[PrepareCalls[3]] = 6
      /\ Label[PrepareCalls[4]] = 5 /\ Label[PrepareCalls[5]] = 4
      /\ Label[PrepareCalls[6]] = 3 /\ Label[PrepareCalls[7]] = 2
      /\ Label[PrepareCalls[8]] = 1
  BY Calls8, Labels7
<1> QED BY <1>1

(* A failing call releases what the calls before it acquired.              *)
LEMMA PrepareUnwinds ==
  ASSUME NEW n \in 1 .. 8
  PROVE  HeldAt(n) \ Unwound(PrepareCalls[n]) = {}
<1> SUFFICES ASSUME NEW i \in (1 .. n - 1) \ {2}
             PROVE  PrepareCalls[i] \in Unwound(PrepareCalls[n])
  BY DEF HeldAt
<1> DEFINE label == Label[PrepareCalls[n]]
<1>0. i \in 1 .. 7 /\ i # 2 /\ n \in 2 .. 8 /\ i < n
  OBVIOUS
<1>1. label \in 1 .. 7 /\ (n = 2 => label = 6) /\ (n # 2 => label = 9 - n)
  <2>1. CASE n = 2
    BY <2>1, LabelAt
  <2>2. CASE n # 2
    <3>1. n \in 3 .. 8
      BY <1>0, <2>2
    <3>2. label = 9 - n
      BY <3>1, LabelAt
    <3> QED BY <2>2, <3>1, <3>2
  <2> QED BY <2>1, <2>2
<1> HIDE DEF label
<1>2. PICK j \in label .. 6 : Releases[j] = PrepareCalls[i]
  <2>1. CASE i = 1
    BY <1>0, <1>1, <2>1, ReleasedAt
  <2>2. CASE i # 1
    <3>1. i \in 3 .. 7 /\ 8 - i \in label .. 6
      BY <1>0, <1>1, <2>2
    <3> QED BY <3>1, ReleasedAt
  <2> QED BY <2>1, <2>2
<1>3. Unwound(PrepareCalls[n]) = {Releases[k] : k \in label .. 6}
  BY Releases6 DEF Unwound, label
<1> QED BY <1>2, <1>3

(* A call that succeeds adds what the next one counts on.                  *)
LEMMA PrepareAdds ==
  ASSUME NEW n \in 1 .. 8
  PROVE  /\ PrepareCalls[n] = "hold" <=> n = 2
         /\ n # 2 => PrepareCalls[n] \in Resources
         /\ HeldAt(1) = {}
         /\ n = 2 => HeldAt(n + 1) = HeldAt(n)
         /\ n # 2 => HeldAt(n + 1) = HeldAt(n) \cup {PrepareCalls[n]}
         /\ HeldAt(9) = Resources
<1>1. n = 1 \/ n = 2 \/ n = 3 \/ n = 4 \/ n = 5 \/ n = 6 \/ n = 7 \/ n = 8
  OBVIOUS
<1>2. PrepareCalls[n] = "hold" <=> n = 2
  BY <1>1, Calls8
<1>3. n # 2 => PrepareCalls[n] \in Resources
  BY <1>1, Calls8 DEF Resources
<1>4. HeldAt(1) = {}
  BY DEF HeldAt
<1>5. n = 2 => HeldAt(n + 1) = HeldAt(n)
  BY DEF HeldAt
<1>6. n # 2 => HeldAt(n + 1) = HeldAt(n) \cup {PrepareCalls[n]}
  BY DEF HeldAt
<1>7. HeldAt(9) = Resources
  <2>1. ASSUME NEW i \in (1 .. 8) \ {2} PROVE PrepareCalls[i] \in Resources
    <3>1. i = 1 \/ i = 3 \/ i = 4 \/ i = 5 \/ i = 6 \/ i = 7 \/ i = 8
      OBVIOUS
    <3> QED BY <3>1, Calls8 DEF Resources
  <2>2. ASSUME NEW r \in Resources PROVE \E i \in (1 .. 8) \ {2} : PrepareCalls[i] = r
    <3>1. \A i \in {1, 3, 4, 5, 6, 7, 8} : i \in (1 .. 8) \ {2}
      OBVIOUS
    <3> QED BY <3>1, Calls8, Zenon DEF Resources
  <2> QED BY <2>1, <2>2 DEF HeldAt
<1> QED BY <1>2, <1>3, <1>4, <1>5, <1>6, <1>7

-----------------------------------------------------------------------------
(* The initial state                                                       *)

(* probe() establishes the invariant.                                      *)
LEMMA InvInit == Init => RprocInv
<1> SUFFICES ASSUME Init PROVE RprocInv OBVIOUS
<1>0. NumRmem \in Nat /\ NumVring \in Nat /\ MaxBoots \in Nat /\ MaxCrashes \in Nat
      /\ MaxFails \in Nat /\ MaxNotes \in Nat
  BY RprocAssumption
<1>1. TypeResources
  <2>1. vrings \subseteq 0 .. NumVring - 1 /\ powered \subseteq Resources
    BY DEF Init
  <2>2. entries \in 0 .. NumRmem /\ listed \in 0 .. NumRmem
    BY <1>0 DEF Init
  <2> QED BY <2>1, <2>2, Zenon DEF Init, TypeResources
<1>2. TypeOp
  BY DEF Init, TypeOp, Free, Pcs
<1>3. TypeWork /\ TypeBounds
  <2>1. /\ boots \in 0 .. MaxBoots /\ crashes \in 0 .. MaxCrashes
        /\ fails \in 0 .. MaxFails /\ notes \in 0 .. MaxNotes
        /\ removing \in 0 .. 4 /\ walk \in 0 .. NumVring
    BY <1>0 DEF Init, Idle
  <2>2. news \subseteq 0 .. NumVring - 1
    BY DEF Init
  <2> QED BY <2>1, <2>2, Zenon DEF Init, TypeWork, TypeBounds
<1>7. TypeIrq
  <2>1. depth \in Nat
    BY DEF Init
  <2> QED BY <2>1, Zenon DEF Init, TypeIrq
<1>4. OrderInv
  BY DEF Init, OrderInv, Free, Empty, UpStates, Offline, Loading, Starting, Halting,
         Stopping
<1>5. LineInv
  BY DEF Init, LineInv, Unarmed, Depth, Free, UpStates, Offline, Loading, Starting
<1>6. RemoveInv
  BY DEF Init, RemoveInv, Free, UpStates, Idle
<1> QED BY <1>1, <1>2, <1>3, <1>4, <1>5, <1>6, <1>7, TypeParts DEF RprocInv

-----------------------------------------------------------------------------
(* Types, one part of the state after the other                            *)

(* The bounds are numbers, and there is a vring.                           *)
LEMMA Numbers ==
  /\ NumRmem \in Nat /\ NumVring \in Nat /\ NumVring > 0
  /\ MaxBoots \in Nat /\ MaxCrashes \in Nat /\ MaxFails \in Nat /\ MaxNotes \in Nat
BY RprocAssumption

(* The calls of remove(), in their order.                                  *)
LEMMA RemoveCalls ==
  /\ RemoveOrder[1] = "shutdown" /\ RemoveOrder[2] = "deleted"
  /\ RemoveOrder[3] = "mailbox" /\ RemoveOrder[4] = "work"
BY DEF RemoveOrder

(* The actions that change nothing of the lock holder's state.             *)
Beside == \/ Handler \/ Work \/ RxCallback \/ CoreCrashes
          \/ \E v \in 0 .. NumVring - 1 : CoreNotifies(v)

(* The handler, the work and the core leave boots, stops and unbinding     *)
(* alone.                                                                  *)
LEMMA BesideFrame ==
  Beside => UNCHANGED <<holds, core, vrings, vdev, state, op, unbind, boots, fails>>
<1>1. Handler => UNCHANGED <<holds, core, vrings, vdev, state, op, unbind, boots, fails>>
  BY DEF Handler, CrashIrq, HandlerClears, HandlerMasks, HandlerReports, bounds
<1>2. Work \/ RxCallback =>
        UNCHANGED <<holds, core, vrings, vdev, state, op, unbind, boots, fails>>
  BY DEF Work, VqWork, VqNotify, RxCallback, bounds
<1>3. CoreCrashes =>
        UNCHANGED <<holds, core, vrings, vdev, state, op, unbind, boots, fails>>
  BY DEF CoreCrashes
<1>4. ASSUME NEW v \in 0 .. NumVring - 1, CoreNotifies(v)
      PROVE  UNCHANGED <<holds, core, vrings, vdev, state, op, unbind, boots, fails>>
  BY <1>4 DEF CoreNotifies
<1> QED BY <1>1, <1>2, <1>3, <1>4 DEF Beside

(* What is acquired keeps its type: entries never exceed NumRmem, nor      *)
(* fall below 0.                                                           *)
LEMMA ResourcesStep == TypeOK /\ OrderInv /\ [Next]_vars => TypeResources'
<1> SUFFICES ASSUME TypeResources, TypeOp, OrderInv, [Next]_vars PROVE TypeResources'
  BY TypeParts
<1>1. CASE PrepareCall
  <2>1. op.n \in 1 .. 8
    BY <1>1 DEF PrepareCall, At, OrderInv
  <2>2. /\ UNCHANGED <<remap, entries, listed, vrings, vdev>>
        /\ core' = core \/ core' = "reset"
        /\ powered' = powered \/ powered' = powered \cup {PrepareCalls[op.n]}
        /\ powered' # powered => PrepareCalls[op.n] # "hold"
    BY <1>1 DEF PrepareCall
  <2> QED BY <2>1, <2>2, PrepareAdds DEF TypeResources
<1>2. CASE PrepareFails \/ Remap \/ Unprepare
  BY <1>2 DEF PrepareFails, Remap, Unprepare, TypeResources
<1>3. CASE ParseFw
  <2>1. entries = 0 /\ listed = 0
    BY <1>3 DEF ParseFw, At, OrderInv, Empty
  <2> QED BY <1>3, <2>1, Numbers DEF ParseFw, TypeResources
<1>4. CASE ParseFails
  <2>1. entries' = entries
    BY <1>4, Numbers DEF ParseFails, Freed, TypeResources
  <2> QED BY <1>4, <2>1 DEF ParseFails, TypeResources
<1>5. CASE Cleanup
  <2>1. entries = NumRmem /\ listed = NumRmem
    BY <1>5 DEF Cleanup, At, OrderInv, Registered
  <2> QED BY <1>5, <2>1, Numbers DEF Cleanup, TypeResources
<1>6. CASE HandleVdev \/ StartVirtio \/ StopVirtio
  BY <1>6 DEF HandleVdev, StartVirtio, StopVirtio, holds, TypeResources
<1>7. CASE Start \/ Halt
  BY <1>7 DEF Start, Halt, holds, TypeResources
<1>8. CASE \/ ClearSram \/ BootFails \/ Load \/ Arm \/ Enable \/ Disarm \/ Disable
           \/ DisableReturns \/ Stopped \/ CrashHandling \/ Boot \/ Shutdown \/ Remove
  BY <1>8 DEF ClearSram, BootFails, Load, Arm, Enable, Disarm, Disable, DisableReturns,
     Stopped, CrashHandling, CrashWork, Recover, Boot, Shutdown, Remove, holds,
     TypeResources
<1>9. CASE Beside
  BY <1>9, BesideFrame DEF holds, TypeResources
<1>10. CASE UNCHANGED vars
  BY <1>10 DEF vars, holds, TypeResources
<1> QED BY <1>1, <1>2, <1>3, <1>4, <1>5, <1>6, <1>7, <1>8, <1>9, <1>10
        DEF Next, LockHolder, Beside

(* The state and the holder of the lock keep their type.                   *)
LEMMA OpStep == TypeOK /\ OrderInv /\ [Next]_vars => TypeOp'
<1> SUFFICES ASSUME TypeOp, OrderInv, [Next]_vars PROVE TypeOp'
  BY TypeParts
<1>1. CASE PrepareCall
  <2>1. op.n \in 1 .. 8
    BY <1>1 DEF PrepareCall, At, OrderInv
  <2>2. op' \in {[op EXCEPT !.pc = "remap"]} \/ (op' = [op EXCEPT !.n = @ + 1] /\ op.n # 8)
    BY <1>1, Lengths DEF PrepareCall
  <2>3. state' = state
    BY <1>1 DEF PrepareCall
  <2> QED BY <2>1, <2>2, <2>3 DEF TypeOp, Pcs
<1>2. CASE PrepareFails \/ Unprepare
  BY <1>2 DEF PrepareFails, Unprepare, Unlock, Free, TypeOp, Pcs
<1>3. CASE \/ Remap \/ ClearSram \/ ParseFw \/ ParseFails \/ HandleVdev \/ BootFails
           \/ Load \/ Start \/ Cleanup
  BY <1>3 DEF Remap, ClearSram, ParseFw, ParseFails, HandleVdev, BootFails, Load, Start,
     Cleanup, Goto, TypeOp, Pcs
<1>4. CASE \/ Arm \/ Enable \/ StopVirtio \/ Halt \/ Disarm \/ Disable \/ DisableReturns
           \/ Stopped
  BY <1>4 DEF Arm, Enable, StopVirtio, Halt, Disarm, Disable, ThenDisable, DisableReturns,
     Stopped, Goto, TypeOp, Pcs
<1>5. CASE StartVirtio
  BY <1>5 DEF StartVirtio, Goto, Unlock, Free, TypeOp, Pcs
<1>6. CASE CrashHandling \/ Boot \/ Shutdown
  BY <1>6 DEF CrashHandling, CrashWork, Recover, Boot, Shutdown, Calls, TypeOp, Pcs
<1>7. CASE Remove
  BY <1>7 DEF Remove, Calls, TypeOp, Pcs
<1>8. CASE Beside
  BY <1>8, BesideFrame DEF TypeOp
<1>9. CASE UNCHANGED vars
  BY <1>9 DEF vars, TypeOp
<1> QED BY <1>1, <1>2, <1>3, <1>4, <1>5, <1>6, <1>7, <1>8, <1>9 DEF Next, LockHolder, Beside

(* The crash line and its handler keep their type.                         *)
LEMMA IrqStep == TypeOK /\ [Next]_vars => TypeIrq'
<1> SUFFICES ASSUME TypeIrq, [Next]_vars PROVE TypeIrq'
  BY TypeParts
<1>1. CASE PrepareCall \/ PrepareFails \/ Remap \/ ClearSram \/ ParseFw \/ ParseFails
  BY <1>1 DEF PrepareCall, PrepareFails, Remap, ClearSram, ParseFw, ParseFails, crashIrq,
     crashWrk, TypeIrq
<1>2. CASE \/ HandleVdev \/ BootFails \/ Load \/ Start \/ Cleanup \/ Unprepare
           \/ StartVirtio \/ StopVirtio \/ DisableReturns \/ Stopped
  BY <1>2 DEF HandleVdev, BootFails, Load, Start, Cleanup, Unprepare, StartVirtio,
     StopVirtio, DisableReturns, Stopped, crashIrq, crashWrk, TypeIrq
<1>3. CASE Arm
  BY <1>3, RprocAssumption, Zenon DEF Arm, crashWrk, TypeIrq
<1>4. CASE Enable \/ Disable
  <2>1. depth' \in Nat
    BY <1>4 DEF Enable, Disable, TypeIrq
  <2>2. /\ UNCHANGED <<armed, line, handler, crashWrk>>
        /\ warned' = warned \/ warned' = (warned \/ depth = 0)
    BY <1>4 DEF Enable, Disable
  <2> QED BY <2>1, <2>2, Zenon DEF crashWrk, TypeIrq
<1>5. CASE Halt \/ Disarm
  BY <1>5 DEF Halt, Disarm, crashWrk, TypeIrq
<1>6. CASE Handler
  <2>1. depth' \in Nat /\ UNCHANGED <<line, warned, recovering>>
    BY <1>6 DEF Handler, CrashIrq, HandlerClears, HandlerMasks, HandlerReports, crashWrk,
       TypeIrq
  <2>2. armed' \in {armed, FALSE} /\ crashQueued' \in {crashQueued, TRUE}
    BY <1>6 DEF Handler, CrashIrq, HandlerClears, HandlerMasks, HandlerReports,
       ArmedCleared, crashWrk
  <2>3. handler' \in {"idle", "woken", "mask", "report"}
    BY <1>6 DEF Handler, CrashIrq, HandlerClears, HandlerMasks, HandlerReports
  <2> QED BY <2>1, <2>2, <2>3 DEF TypeIrq
<1>7. CASE CrashHandling
  BY <1>7 DEF CrashHandling, CrashWork, Recover, crashIrq, TypeIrq
<1>8. CASE CoreCrashes
  BY <1>8 DEF CoreCrashes, crashWrk, TypeIrq
<1>9. CASE Work \/ RxCallback \/ \E v \in 0 .. NumVring - 1 : CoreNotifies(v)
  BY <1>9 DEF Work, VqWork, VqNotify, RxCallback, CoreNotifies, crashIrq, crashWrk, TypeIrq
<1>10. CASE Boot \/ Shutdown \/ Remove
  BY <1>10 DEF Boot, Shutdown, Remove, crashIrq, crashWrk, TypeIrq
<1>11. CASE UNCHANGED vars
  BY <1>11 DEF vars, crashIrq, crashWrk, TypeIrq
<1> QED BY <1>1, <1>2, <1>3, <1>4, <1>5, <1>6, <1>7, <1>8, <1>9, <1>10, <1>11
        DEF Next, LockHolder

(* The vring work and the progress of remove() keep their type.            *)
LEMMA WorkStep == TypeOK /\ [Next]_vars => TypeWork'
<1> SUFFICES ASSUME TypeWork, [Next]_vars PROVE TypeWork'
  BY TypeParts
<1>1. CASE PrepareCall \/ PrepareFails \/ Remap \/ ClearSram \/ ParseFw \/ ParseFails
  BY <1>1 DEF PrepareCall, PrepareFails, Remap, ClearSram, ParseFw, ParseFails, vqWork,
     unbind, TypeWork
<1>2. CASE \/ HandleVdev \/ BootFails \/ Load \/ Start \/ Cleanup \/ Unprepare
           \/ StartVirtio \/ StopVirtio \/ DisableReturns \/ Stopped
  BY <1>2 DEF HandleVdev, BootFails, Load, Start, Cleanup, Unprepare, StartVirtio,
     StopVirtio, DisableReturns, Stopped, vqWork, unbind, TypeWork
<1>3. CASE Arm \/ Enable \/ Disable \/ Halt \/ Disarm
  BY <1>3 DEF Arm, Enable, Disable, Halt, Disarm, vqWork, unbind, TypeWork
<1>4. CASE Handler \/ CrashHandling \/ CoreCrashes
  BY <1>4 DEF Handler, CrashIrq, HandlerClears, HandlerMasks, HandlerReports,
     CrashHandling, CrashWork, Recover, CoreCrashes, vqWork, unbind, TypeWork
<1>5. CASE VqWork
  <2>1. walk' \in 0 .. NumVring
    BY <1>5, Numbers DEF VqWork
  <2>2. vqQueued' = FALSE /\ UNCHANGED <<rx, news, mbox, removing>>
    BY <1>5 DEF VqWork, unbind
  <2> QED BY <2>1, <2>2 DEF TypeWork
<1>6. CASE VqNotify
  <2>1. walk + 1 \in 0 .. NumVring
    BY <1>6, Numbers DEF VqNotify, Idle, TypeWork
  <2>2. news' \subseteq news
    BY <1>6 DEF VqNotify
  <2> QED BY <1>6, <2>1, <2>2 DEF VqNotify, unbind, TypeWork
<1>7. CASE RxCallback
  BY <1>7 DEF RxCallback, Queues, unbind, TypeWork
<1>8. CASE \E v \in 0 .. NumVring - 1 : CoreNotifies(v)
  BY <1>8 DEF CoreNotifies, unbind, TypeWork
<1>9. CASE Boot \/ Shutdown
  BY <1>9 DEF Boot, Shutdown, vqWork, unbind, TypeWork
<1>10. CASE Remove
  BY <1>10, Lengths DEF Remove, TypeWork
<1>11. CASE UNCHANGED vars
  BY <1>11 DEF vars, vqWork, unbind, TypeWork
<1> QED BY <1>1, <1>2, <1>3, <1>4, <1>5, <1>6, <1>7, <1>8, <1>9, <1>10, <1>11
        DEF Next, LockHolder, Work

(* The counters stay within the bounds.                                    *)
LEMMA BoundsStep == TypeOK /\ [Next]_vars => TypeBounds'
<1> SUFFICES ASSUME TypeBounds, [Next]_vars PROVE TypeBounds'
  BY TypeParts
<1>1. CASE PrepareCall \/ Remap \/ ClearSram \/ ParseFw
  BY <1>1 DEF PrepareCall, Remap, ClearSram, ParseFw, bounds, TypeBounds
<1>2. CASE PrepareFails \/ ParseFails \/ BootFails \/ StartVirtio
  BY <1>2, Numbers DEF PrepareFails, ParseFails, BootFails, StartVirtio, MayFail, TypeBounds
<1>3. CASE \/ HandleVdev \/ Load \/ Start \/ Cleanup \/ Unprepare
           \/ StopVirtio \/ DisableReturns \/ Stopped
  BY <1>3 DEF HandleVdev, Load, Start, Cleanup, Unprepare, StopVirtio, DisableReturns,
     Stopped, bounds, TypeBounds
<1>4. CASE Arm \/ Enable \/ Disable \/ Halt \/ Disarm
  BY <1>4 DEF Arm, Enable, Disable, Halt, Disarm, bounds, TypeBounds
<1>5. CASE Handler \/ CrashHandling \/ Work \/ RxCallback
  BY <1>5 DEF Handler, CrashIrq, HandlerClears, HandlerMasks, HandlerReports,
     CrashHandling, CrashWork, Recover, Work, VqWork, VqNotify, RxCallback, bounds,
     TypeBounds
<1>6. CASE CoreCrashes
  BY <1>6, Numbers DEF CoreCrashes, TypeBounds
<1>7. CASE \E v \in 0 .. NumVring - 1 : CoreNotifies(v)
  BY <1>7, Numbers DEF CoreNotifies, TypeBounds
<1>8. CASE Boot
  BY <1>8, Numbers DEF Boot, TypeBounds
<1>9. CASE Shutdown \/ Remove
  BY <1>9 DEF Shutdown, Remove, bounds, TypeBounds
<1>10. CASE UNCHANGED vars
  BY <1>10 DEF vars, bounds, TypeBounds
<1> QED BY <1>1, <1>2, <1>3, <1>4, <1>5, <1>6, <1>7, <1>8, <1>9, <1>10 DEF Next, LockHolder

(* Every step keeps the type invariant.                                    *)
LEMMA TypeStep == TypeOK /\ OrderInv /\ [Next]_vars => TypeOK'
BY TypeParts, ResourcesStep, OpStep, IrqStep, WorkStep, BoundsStep

-----------------------------------------------------------------------------
(* What the lock's holder has acquired                                     *)

(* Goto moves the lock's holder and changes nothing else of it.            *)
LEMMA GotoPc ==
  ASSUME TypeOK, NEW x, Goto(x)
  PROVE  op'.pc = x /\ op'.by = op.by /\ op'.n = op.n
BY TypeParts DEF TypeOp, Goto

(* Actions of others leave it alone.                                       *)
LEMMA OrderKept ==
  ASSUME OrderInv, UNCHANGED <<holds, core, vrings, state, op>>
  PROVE  OrderInv'
BY DEF OrderInv, holds, Ready, Registered, Empty

(* Every call finds what the calls before it acquired.                     *)
LEMMA OrderStep == TypeOK /\ OrderInv /\ RemoveInv /\ [Next]_vars => OrderInv'
<1> SUFFICES ASSUME TypeOK, OrderInv, RemoveInv, [Next]_vars PROVE OrderInv'
  OBVIOUS
<1>1. CASE PrepareCall
  <2>1. /\ op.pc = "prepare" /\ op.n \in 1 .. 8 /\ powered = HeldAt(op.n) /\ Empty
        /\ (op.n > 2 => core = "reset") /\ state = "offline"
    BY <1>1 DEF PrepareCall, At, OrderInv, Offline
  <2>2. UNCHANGED <<remap, entries, listed, vrings, state>>
    BY <1>1 DEF PrepareCall
  <2>3. /\ op.n = 2 => powered' = powered /\ core' = "reset"
        /\ op.n # 2 => powered' = powered \cup {PrepareCalls[op.n]} /\ core' = core
    BY <1>1, <2>1, PrepareAdds DEF PrepareCall
  <2>4. powered' = HeldAt(op.n + 1)
    BY <2>1, <2>3, PrepareAdds
  <2>5. op.n + 1 > 2 => core' = "reset"
    BY <2>1, <2>3
  <2>6. CASE op.n = 8
    <3>1. op'.pc = "remap" /\ op.n + 1 = 9
      BY <1>1, <2>6, Lengths, TypeParts DEF PrepareCall, TypeOp
    <3>2. powered' = Resources /\ core' = "reset"
      BY <2>1, <2>4, <2>5, <3>1, PrepareAdds
    <3> QED BY <2>1, <2>2, <3>1, <3>2
            DEF OrderInv, Empty, Loading, Starting, Halting, Stopping, Offline
  <2>7. CASE op.n # 8
    <3>1. op'.pc = "prepare" /\ op'.n = op.n + 1 /\ op'.n \in 1 .. 8
      BY <1>1, <2>1, <2>7, Lengths, TypeParts DEF PrepareCall, TypeOp
    <3> QED BY <2>1, <2>2, <2>4, <2>5, <3>1
            DEF OrderInv, Empty, Loading, Starting, Halting, Stopping, Offline
  <2> QED BY <2>6, <2>7
<1>2. CASE PrepareFails
  <2>1. op.n \in 1 .. 8 /\ powered = HeldAt(op.n) /\ Empty /\ state = "offline"
    BY <1>2 DEF PrepareFails, At, OrderInv, Offline
  <2>2. powered' = {}
    BY <1>2, <2>1, PrepareUnwinds DEF PrepareFails
  <2>3. op' = Free /\ UNCHANGED <<entries, listed, vrings, state>>
    BY <1>2 DEF PrepareFails, Unlock
  <2> QED BY <2>1, <2>2, <2>3
          DEF OrderInv, Empty, Free, UpStates, Loading, Starting, Halting, Stopping, Offline
<1>3. CASE Unprepare
  <2>1. Empty /\ state = "offline" /\ powered \subseteq Resources
    BY <1>3, TypeParts DEF Unprepare, At, OrderInv, Offline, TypeResources
  <2>2. /\ powered' = {} /\ op' = Free
        /\ UNCHANGED <<entries, listed, vrings, state>>
    BY <1>3, <2>1 DEF Unprepare, Unlock
  <2> QED BY <2>1, <2>2
          DEF OrderInv, Empty, Free, UpStates, Loading, Starting, Halting, Stopping, Offline
<1>4. CASE Remap
  <2>1. powered = Resources /\ Empty /\ core = "reset" /\ state = "offline"
    BY <1>4 DEF Remap, At, OrderInv, Offline
  <2>2. /\ op'.pc = "clear" /\ remap' = TRUE
        /\ UNCHANGED <<powered, core, entries, listed, vrings, state>>
    BY <1>4, GotoPc DEF Remap
  <2> QED BY <2>1, <2>2
          DEF OrderInv, Ready, Empty, Loading, Starting, Halting, Stopping, Offline
<1>5. CASE ClearSram
  <2>1. Ready /\ Empty /\ core = "reset" /\ state = "offline"
    BY <1>5 DEF ClearSram, At, OrderInv, Offline
  <2>2. op'.pc = "parse" /\ UNCHANGED <<holds, core, vrings, state>>
    BY <1>5, GotoPc DEF ClearSram
  <2> QED BY <2>1, <2>2
          DEF OrderInv, Ready, Empty, holds, Loading, Starting, Halting, Stopping, Offline
<1>6. CASE ParseFw
  <2>1. Ready /\ Empty /\ core = "reset" /\ state = "offline"
    BY <1>6 DEF ParseFw, At, OrderInv, Offline
  <2>2. /\ op'.pc = "vdev" /\ UNCHANGED <<powered, remap, core, vrings, state>>
        /\ entries' = entries + NumRmem /\ listed' = listed + NumRmem
    BY <1>6, GotoPc DEF ParseFw
  <2>3. Registered' /\ Ready'
    BY <2>1, <2>2, Numbers DEF Registered, Empty, Ready
  <2> QED BY <2>1, <2>2, <2>3
          DEF OrderInv, Loading, Starting, Halting, Stopping, Offline
<1>7. CASE ParseFails
  <2>1. Empty /\ state = "offline"
    BY <1>7 DEF ParseFails, At, OrderInv, Offline
  <2>2. op'.pc = "unprepare" /\ UNCHANGED <<listed, vrings, state>>
    BY <1>7, GotoPc DEF ParseFails
  <2>3. entries' = 0
    BY <1>7, <2>1, Numbers DEF ParseFails, Freed, Empty
  <2> QED BY <2>1, <2>2, <2>3
          DEF OrderInv, Empty, Loading, Starting, Halting, Stopping, Offline
<1>8. CASE HandleVdev \/ Load \/ Start
  <2>1. Ready /\ Registered /\ state = "offline" /\ core = "reset"
    BY <1>8 DEF HandleVdev, Load, Start, At, OrderInv, Loading, Offline
  <2>2. /\ \/ op'.pc \in {"load", "start"} /\ core' = core
           \/ op'.pc = "arm"
        /\ UNCHANGED <<holds, state>>
    BY <1>8, GotoPc DEF HandleVdev, Load, Start
  <2> QED BY <2>1, <2>2 DEF OrderInv, Ready, Registered, holds, Loading, Starting, Halting,
             Stopping, Offline
<1>9. CASE BootFails
  <2>1. Registered /\ state = "offline"
    BY <1>9 DEF BootFails, OrderInv, Loading, Offline
  <2>2. op'.pc = "cleanup" /\ UNCHANGED <<holds, state>>
    BY <1>9, GotoPc DEF BootFails
  <2> QED BY <2>1, <2>2 DEF OrderInv, Registered, holds, Loading, Starting, Halting,
             Stopping, Offline
<1>10. CASE Cleanup
  <2>1. Registered /\ state = "offline"
    BY <1>10 DEF Cleanup, At, OrderInv, Offline
  <2>2. /\ op'.pc = "unprepare" /\ state' = state
        /\ vrings' = {} /\ entries' = entries - listed /\ listed' = 0
    BY <1>10, GotoPc DEF Cleanup
  <2>3. Empty'
    BY <2>1, <2>2, Numbers DEF Registered, Empty
  <2> QED BY <2>1, <2>2, <2>3 DEF OrderInv, Loading, Starting, Halting, Stopping, Offline
<1>11. CASE Arm \/ Enable
  <2>1. Ready /\ Registered /\ state = "offline"
    BY <1>11 DEF Arm, Enable, At, OrderInv, Starting, Offline
  <2>2. op'.pc \in {"enable", "virtio"} /\ UNCHANGED <<holds, state>>
    BY <1>11, GotoPc DEF Arm, Enable
  <2> QED BY <2>1, <2>2 DEF OrderInv, Ready, Registered, holds, Loading, Starting, Halting,
             Stopping, Offline
<1>12. CASE StartVirtio
  <2>1. Ready /\ Registered
    BY <1>12 DEF StartVirtio, At, OrderInv, Starting
  <2>2. /\ UNCHANGED holds
        /\ \/ op' = Free /\ state' = "running"
           \/ op'.pc = "halt"
    BY <1>12, GotoPc DEF StartVirtio, Unlock
  <2> QED BY <2>1, <2>2 DEF OrderInv, Ready, Registered, holds, Free, UpStates, Loading,
             Starting, Halting, Stopping, Offline
<1>13. CASE StopVirtio \/ Halt \/ Disarm \/ Disable \/ DisableReturns
  <2>1. /\ op.pc \in Stopping /\ Ready /\ Registered
        /\ op.pc \in Halting => core = "reset"
    BY <1>13 DEF StopVirtio, Halt, Disarm, Disable, DisableReturns, At, OrderInv, Stopping,
       Halting
  <2>2. /\ UNCHANGED <<holds, state>>
        /\ \/ op'.pc = "halt"
           \/ op'.pc \in Halting /\ core' = "reset"
           \/ op'.pc \in Halting /\ op.pc \in Halting /\ core' = core
    BY <1>13, GotoPc DEF StopVirtio, Halt, Disarm, Disable, DisableReturns, At, Halting,
       ThenDisable
  <2> QED BY <2>1, <2>2 DEF OrderInv, Ready, Registered, holds, Loading, Starting, Halting,
             Stopping, Offline
<1>14. CASE Stopped
  <2>1. Ready /\ Registered /\ core = "reset"
    BY <1>14 DEF Stopped, At, OrderInv, Stopping, Halting
  <2>2. /\ UNCHANGED <<holds, core>> /\ state' = "offline"
        /\ op'.pc \in {"load", "cleanup"}
    BY <1>14, GotoPc DEF Stopped
  <2> QED BY <2>1, <2>2 DEF OrderInv, Ready, Registered, holds, Loading, Starting, Halting,
             Stopping, Offline
<1>15. CASE CrashWork
  <2>1. /\ op = Free /\ op' = op /\ UNCHANGED <<holds, vrings>>
        /\ state' = state \/ (state = "running" /\ state' = "crashed")
    BY <1>15 DEF CrashWork, LockIsFree
  <2> QED BY <2>1 DEF OrderInv, Ready, Registered, Empty, holds, Free, UpStates, Loading,
             Starting, Halting, Stopping, Offline
<1>16. CASE Recover \/ Shutdown
  <2>1. Ready /\ Registered
    BY <1>16 DEF Recover, Shutdown, LockIsFree, Free, OrderInv, UpStates
  <2>2. op'.pc = "devices" /\ UNCHANGED holds
    BY <1>16 DEF Recover, Shutdown, Calls
  <2> QED BY <2>1, <2>2 DEF OrderInv, Ready, Registered, holds, Loading, Starting, Halting,
             Stopping, Offline
<1>17. CASE Boot
  <2>1. powered = {} /\ Empty /\ state = "offline"
    BY <1>17 DEF Boot, LockIsFree, Free, OrderInv, UpStates
  <2>2. op'.pc = "prepare" /\ op'.n = 1 /\ UNCHANGED <<holds, vrings, state>>
    BY <1>17 DEF Boot, Calls
  <2>3. powered' = HeldAt(1)
    BY <2>1, <2>2, PrepareAdds DEF holds
  <2> QED BY <2>1, <2>2, <2>3 DEF OrderInv, Empty, holds, Loading, Starting, Halting,
             Stopping, Offline
<1>18. CASE Remove
  <2>1. UNCHANGED <<holds, core, vrings>> /\ removing \in 0 .. 3
    BY <1>18, Lengths, TypeParts DEF Remove, TypeWork
  <2>2. CASE removing = 0 /\ state = "running"
    <3>1. op = Free /\ op'.pc = "devices"
      BY <1>18, <2>2, RemoveCalls DEF Remove, LockIsFree, Calls
    <3>2. Ready /\ Registered
      BY <2>2, <3>1 DEF OrderInv, Free, UpStates
    <3> QED BY <2>1, <3>1, <3>2 DEF OrderInv, Ready, Registered, holds, Loading, Starting,
               Halting, Stopping, Offline
  <2>3. CASE removing = 1
    <3>1. op = Free /\ op' = op /\ state' = "deleted" /\ state \notin UpStates
      BY <1>18, <2>3, RemoveCalls DEF Remove, LockIsFree, RemoveInv, Free, Stopping, Halting
    <3> QED BY <2>1, <3>1 DEF OrderInv, Empty, holds, Free, UpStates, Loading, Starting,
               Halting, Stopping, Offline
  <2>4. CASE (removing = 0 /\ state # "running") \/ removing \in {2, 3}
    <3>1. UNCHANGED <<op, state>>
      BY <1>18, <2>4, RemoveCalls DEF Remove
    <3> QED BY <2>1, <3>1, OrderKept
  <2> QED BY <2>1, <2>2, <2>3, <2>4
<1>19. CASE Beside
  BY <1>19, BesideFrame, OrderKept
<1>20. CASE UNCHANGED vars
  BY <1>20, OrderKept DEF vars
<1> QED BY <1>1, <1>2, <1>3, <1>4, <1>5, <1>6, <1>7, <1>8, <1>9, <1>10, <1>11, <1>12, <1>13,
           <1>14, <1>15, <1>16, <1>17, <1>18, <1>19, <1>20
        DEF Next, LockHolder, CrashHandling, Beside

-----------------------------------------------------------------------------
(* The crash line                                                          *)

(* A step that leaves the line alone and is not at enable or disable.      *)
LEMMA LineKept ==
  ASSUME LineInv, UNCHANGED crashIrq,
         op.pc \notin {"enable", "disable"}, op'.pc \notin {"enable", "disable"},
         Unarmed' => armed = FALSE
  PROVE  LineInv'
<1>1. Depth' = Depth
  BY DEF Depth, crashIrq
<1> QED BY <1>1 DEF LineInv, crashIrq

(* A step that changes nothing LineInv speaks of.                          *)
LEMMA LineStays ==
  ASSUME LineInv, UNCHANGED <<armed, depth, warned, handler, op, state>>
  PROVE  LineInv'
BY DEF LineInv, Depth, Unarmed

(* Whoever changes the armed bit owes the line one enable or disable.      *)
LEMMA LineStep == TypeOK /\ OrderInv /\ LineInv /\ RemoveInv /\ [Next]_vars => LineInv'
<1> SUFFICES ASSUME TypeOK, OrderInv, LineInv, RemoveInv, [Next]_vars PROVE LineInv'
  OBVIOUS
<1>0. depth \in Nat
  BY TypeParts DEF TypeIrq
<1>1. CASE PrepareCall
  <2>1. op.pc = "prepare" /\ op'.pc \in {"prepare", "remap"}
    BY <1>1, TypeParts DEF PrepareCall, At, TypeOp
  <2>2. armed = FALSE
    BY <2>1 DEF LineInv, Unarmed, Offline
  <2>3. UNCHANGED <<armed, depth, warned, handler>>
    BY <1>1 DEF PrepareCall
  <2> QED BY <2>1, <2>2, <2>3 DEF LineInv, Depth
<1>2. CASE PrepareFails \/ Unprepare
  <2>1. op.pc \in {"prepare", "unprepare"} /\ op'.pc = "free" /\ UNCHANGED crashIrq
    BY <1>2 DEF PrepareFails, Unprepare, At, Unlock, Free
  <2> QED BY <2>1, LineKept DEF LineInv, Unarmed, Offline
<1>3. CASE Remap \/ ClearSram \/ ParseFw \/ ParseFails
  <2>1. /\ op.pc \in {"remap", "clear", "parse"}
        /\ op'.pc \in {"clear", "parse", "vdev", "unprepare"} /\ UNCHANGED crashIrq
    BY <1>3, GotoPc DEF Remap, ClearSram, ParseFw, ParseFails, At
  <2> QED BY <2>1, LineKept DEF LineInv, Unarmed, Offline
<1>4. CASE HandleVdev \/ BootFails \/ Load \/ Start \/ Cleanup
  <2>1. /\ op.pc \in {"vdev", "load", "start", "cleanup"}
        /\ op'.pc \in {"load", "cleanup", "start", "arm", "unprepare"} /\ UNCHANGED crashIrq
    BY <1>4, GotoPc DEF HandleVdev, BootFails, Load, Start, Cleanup, At
  <2> QED BY <2>1, LineKept DEF LineInv, Unarmed, Offline, Loading
<1>5. CASE Arm
  <2>1. op.pc = "arm" /\ UNCHANGED <<depth, warned, handler>>
    BY <1>5 DEF Arm, At
  <2>2. armed = FALSE
    BY <2>1 DEF LineInv, Unarmed, Offline, Starting
  <2>3. \/ armed' = TRUE /\ op'.pc = "enable"
        \/ armed' = FALSE /\ op'.pc = "virtio"
    BY <1>5, <2>2, GotoPc DEF Arm
  <2>4. Depth' = Depth
    BY <2>1, <2>2, <2>3 DEF Depth
  <2>5. ~Unarmed' \/ armed' = FALSE
    BY <2>3 DEF Unarmed, Offline, Loading, Starting
  <2> QED BY <2>1, <2>4, <2>5 DEF LineInv
<1>6. CASE Enable
  <2>1. op.pc = "enable" /\ op'.pc = "virtio" /\ UNCHANGED <<armed, handler>>
    BY <1>6, GotoPc DEF Enable, At
  <2>2. Depth' = Depth - 1 /\ Depth \in Int
    BY <2>1 DEF Depth
  <2>3. \/ depth = 0 /\ depth' = 0 /\ warned' = TRUE
        \/ depth # 0 /\ depth' = depth - 1 /\ warned' = warned
    BY <1>6, TypeParts DEF Enable, TypeIrq
  <2>4. ~Unarmed'
    BY <2>1 DEF Unarmed, Offline, Loading, Starting
  <2> QED BY <1>0, <2>2, <2>3, <2>4 DEF LineInv
<1>7. CASE StartVirtio
  <2>1. /\ op.pc = "virtio" /\ UNCHANGED crashIrq
        /\ op'.pc = "halt" \/ (op'.pc = "free" /\ state' = "running")
    BY <1>7, GotoPc DEF StartVirtio, At, Unlock, Free
  <2>2. ~Unarmed'
    BY <2>1 DEF Unarmed, Offline, Loading, Starting, UpStates
  <2> QED BY <2>1, <2>2, LineKept
<1>8. CASE StopVirtio
  <2>1. op.pc = "devices" /\ op'.pc = "halt" /\ UNCHANGED crashIrq
    BY <1>8, GotoPc DEF StopVirtio, At
  <2>2. ~Unarmed'
    BY <2>1 DEF Unarmed, Offline, Loading, Starting
  <2> QED BY <2>1, <2>2, LineKept
<1>9. CASE Halt
  <2>1. op.pc = "halt" /\ op'.pc = "disarm" /\ UNCHANGED <<armed, depth, warned, handler>>
    BY <1>9, GotoPc DEF Halt, At
  <2>2. Depth' = Depth /\ ~Unarmed'
    BY <2>1 DEF Depth, Unarmed, Offline, Loading, Starting
  <2> QED BY <2>1, <2>2 DEF LineInv
<1>10. CASE Disarm
  <2>1. op.pc = "disarm" /\ armed' = FALSE /\ UNCHANGED <<depth, warned, handler>>
    BY <1>10 DEF Disarm, At
  <2>2. \/ armed = TRUE /\ op'.pc = "disable"
        \/ armed = FALSE /\ op'.pc = "stopped"
    BY <1>10, GotoPc, TypeParts DEF Disarm, ThenDisable, TypeIrq
  <2>3. Depth' = Depth
    BY <2>1, <2>2 DEF Depth
  <2> QED BY <2>1, <2>3 DEF LineInv
<1>11. CASE Disable
  <2>1. /\ op.pc = "disable" /\ op'.pc = "wait" /\ UNCHANGED <<armed, warned, handler>>
        /\ depth' = depth + 1
    BY <1>11, GotoPc DEF Disable, At
  <2>2. Depth' = Depth + 1 /\ Depth \in Int
    BY <2>1 DEF Depth
  <2>3. armed = FALSE
    BY <2>1 DEF LineInv, Unarmed
  <2> QED BY <1>0, <2>1, <2>2, <2>3 DEF LineInv
<1>12. CASE DisableReturns \/ Stopped
  <2>1. /\ op.pc \in {"wait", "stopped"} /\ UNCHANGED crashIrq
        /\ op'.pc \in {"stopped", "load", "cleanup"}
    BY <1>12, GotoPc DEF DisableReturns, Stopped, At
  <2> QED BY <2>1, LineKept DEF LineInv, Unarmed
<1>13. CASE CrashIrq \/ HandlerReports
  <2>1. /\ UNCHANGED <<armed, depth, warned, op, state>>
        /\ handler # "mask" /\ handler' # "mask"
    BY <1>13 DEF CrashIrq, HandlerReports
  <2>2. Depth' = Depth
    BY <2>1 DEF Depth
  <2> QED BY <2>1, <2>2 DEF LineInv, Unarmed
<1>14. CASE HandlerClears
  <2>1. /\ UNCHANGED <<depth, warned, op, state>> /\ armed' = FALSE
        /\ handler = "woken" /\ handler' = IF armed THEN "mask" ELSE "report"
    BY <1>14 DEF HandlerClears, ArmedCleared
  <2>2. \/ armed = TRUE /\ handler' = "mask"
        \/ armed = FALSE /\ handler' = "report"
    BY <2>1, TypeParts DEF TypeIrq
  <2>3. Depth' = Depth
    BY <2>1, <2>2 DEF Depth
  <2> QED BY <2>1, <2>3 DEF LineInv
<1>15. CASE HandlerMasks
  <2>1. /\ UNCHANGED <<armed, warned, op, state>> /\ depth' = depth + 1
        /\ handler = "mask" /\ handler' = "report"
    BY <1>15 DEF HandlerMasks
  <2>2. Depth' = Depth + 1 /\ Depth \in Int
    BY <2>1 DEF Depth
  <2> QED BY <1>0, <2>1, <2>2 DEF LineInv, Unarmed
<1>16. CASE CrashWork
  <2>1. /\ UNCHANGED <<op, crashIrq>> /\ op.pc = "free"
        /\ state' = state \/ state' = "crashed"
    BY <1>16 DEF CrashWork, LockIsFree, Free
  <2>2. Unarmed' => Unarmed
    BY <2>1 DEF Unarmed, UpStates
  <2> QED BY <2>1, <2>2, LineKept DEF LineInv
<1>17. CASE Recover \/ Shutdown
  <2>1. op.pc = "free" /\ op'.pc = "devices" /\ UNCHANGED crashIrq
    BY <1>17 DEF Recover, Shutdown, LockIsFree, Free, Calls
  <2>2. ~Unarmed'
    BY <2>1 DEF Unarmed, Offline, Loading, Starting
  <2> QED BY <2>1, <2>2, LineKept
<1>18. CASE Boot
  <2>1. /\ op.pc = "free" /\ state = "offline" /\ op'.pc = "prepare"
        /\ UNCHANGED crashIrq
    BY <1>18 DEF Boot, LockIsFree, Free, Calls
  <2>2. armed = FALSE
    BY <2>1 DEF LineInv, Unarmed, UpStates
  <2> QED BY <2>1, <2>2, LineKept
<1>19. CASE Remove
  <2>1. UNCHANGED crashIrq /\ removing \in 0 .. 3
    BY <1>19, Lengths, TypeParts DEF Remove, TypeWork
  <2>2. CASE removing = 0 /\ state = "running"
    <3>1. op.pc = "free" /\ op'.pc = "devices"
      BY <1>19, <2>2, RemoveCalls DEF Remove, LockIsFree, Free, Calls
    <3>2. ~Unarmed'
      BY <3>1 DEF Unarmed, Offline, Loading, Starting
    <3> QED BY <2>1, <3>1, <3>2, LineKept
  <2>3. CASE removing = 1
    <3>1. op.pc = "free" /\ op' = op /\ state \notin UpStates
      BY <1>19, <2>3, RemoveCalls DEF Remove, LockIsFree, RemoveInv, Free, Stopping, Halting
    <3>2. armed = FALSE
      BY <3>1 DEF LineInv, Unarmed
    <3> QED BY <2>1, <3>1, <3>2, LineKept
  <2>4. CASE (removing = 0 /\ state # "running") \/ removing \in {2, 3}
    <3>1. UNCHANGED <<op, state>>
      BY <1>19, <2>4, RemoveCalls DEF Remove
    <3> QED BY <2>1, <3>1, LineStays DEF crashIrq
  <2> QED BY <2>1, <2>2, <2>3, <2>4
<1>20. CASE \/ Work \/ RxCallback \/ CoreCrashes
            \/ \E v \in 0 .. NumVring - 1 : CoreNotifies(v)
  BY <1>20, LineStays DEF Work, VqWork, VqNotify, RxCallback, CoreCrashes, CoreNotifies,
     crashIrq
<1>21. CASE UNCHANGED vars
  BY <1>21, LineStays DEF vars, crashIrq
<1> QED BY <1>1, <1>2, <1>3, <1>4, <1>5, <1>6, <1>7, <1>8, <1>9, <1>10, <1>11, <1>12, <1>13,
           <1>14, <1>15, <1>16, <1>17, <1>18, <1>19, <1>20, <1>21
        DEF Next, LockHolder, Handler, CrashHandling

-----------------------------------------------------------------------------
(* Unbinding                                                               *)

(* The places of a shutdown that remove() may find itself in.              *)
Closing == Stopping \cup {"cleanup", "unprepare"}

(* A step that changes nothing RemoveInv speaks of.                        *)
LEMMA RemoveKept ==
  ASSUME RemoveInv, UNCHANGED <<vdev, state, op, vqQueued, walk, unbind>>
  PROVE  RemoveInv'
BY DEF RemoveInv, unbind

(* A step of a boot or a recovery: remove() has not begun.                 *)
LEMMA BootKept ==
  ASSUME TypeOK, RemoveInv, UNCHANGED <<vdev, vqQueued, walk, unbind>>,
         op.pc \notin Closing \cup {"free"}
  PROVE  RemoveInv'
<1>1. removing = 0 /\ vdev = FALSE
  BY TypeParts DEF RemoveInv, Closing, Stopping, TypeWork, TypeResources
<1> QED BY <1>1 DEF RemoveInv, unbind

(* A step of stopping the core, also by remove().                          *)
LEMMA ClosingKept ==
  ASSUME TypeOK, RemoveInv, UNCHANGED <<vqQueued, walk, unbind>>,
         op.pc \in Closing, vdev' = FALSE,
         \/ op'.pc \in Closing /\ op'.by = op.by
         \/ op'.pc = "free" /\ state' \notin UpStates
         \/ op.by # "shutdown"
  PROVE  RemoveInv'
<1>1. op.pc # "free"
  BY DEF Closing, Stopping, Halting
<1>2. removing \in 0 .. 1 /\ (removing = 1 => op.by = "shutdown")
  BY <1>1, TypeParts DEF RemoveInv, TypeWork
<1> QED BY <1>2 DEF RemoveInv, unbind, Closing

(* Nothing boots, recovers or calls back once remove() has begun.          *)
LEMMA RemoveStep == TypeOK /\ OrderInv /\ RemoveInv /\ [Next]_vars => RemoveInv'
<1> SUFFICES ASSUME TypeOK, OrderInv, RemoveInv, [Next]_vars PROVE RemoveInv'
  OBVIOUS
<1>1. CASE PrepareCall \/ PrepareFails \/ Remap \/ ClearSram \/ ParseFw \/ ParseFails
  <2>1. /\ op.pc \in {"prepare", "remap", "clear", "parse"}
        /\ UNCHANGED <<vdev, vqWork, unbind>>
    BY <1>1 DEF PrepareCall, PrepareFails, Remap, ClearSram, ParseFw, ParseFails, At
  <2> QED BY <2>1, BootKept DEF vqWork, Closing, Stopping, Halting
<1>2. CASE HandleVdev \/ BootFails \/ Load \/ Start \/ Arm \/ Enable
  <2>1. /\ op.pc \in {"vdev", "load", "start", "arm", "enable"}
        /\ UNCHANGED <<vdev, vqWork, unbind>>
    BY <1>2 DEF HandleVdev, BootFails, Load, Start, Arm, Enable, At
  <2> QED BY <2>1, BootKept DEF vqWork, Closing, Stopping, Halting
<1>3. CASE StartVirtio
  <2>1. /\ op.pc = "virtio" /\ UNCHANGED <<vqWork, unbind>>
        /\ \/ op'.pc = "free" /\ state' = "running"
           \/ UNCHANGED vdev
    BY <1>3 DEF StartVirtio, At, Unlock, Free
  <2>2. removing = 0 /\ vdev = FALSE
    BY <2>1, TypeParts DEF RemoveInv, Stopping, Halting, TypeWork, TypeResources
  <2> QED BY <2>1, <2>2 DEF RemoveInv, unbind, UpStates
<1>4. CASE StopVirtio
  <2>1. /\ op.pc = "devices" /\ op'.pc = "halt" /\ op'.by = op.by /\ vdev' = FALSE
        /\ UNCHANGED <<vqQueued, walk, unbind>>
    BY <1>4, GotoPc DEF StopVirtio, At
  <2> QED BY <2>1, ClosingKept DEF Closing, Stopping
<1>5. CASE Halt \/ Disarm \/ Disable \/ DisableReturns
  <2>1. /\ op.pc \in {"halt", "disarm", "disable", "wait"}
        /\ op'.pc \in {"disarm", "disable", "wait", "stopped"} /\ op'.by = op.by
        /\ UNCHANGED <<vdev, vqWork, unbind>>
    BY <1>5, GotoPc DEF Halt, Disarm, Disable, DisableReturns, ThenDisable, At
  <2>2. vdev = FALSE
    BY <2>1, TypeParts DEF RemoveInv, TypeResources
  <2> QED BY <2>1, <2>2, ClosingKept DEF vqWork, Closing, Stopping, Halting
<1>6. CASE Stopped
  <2>1. /\ op.pc = "stopped" /\ op'.by = op.by /\ UNCHANGED <<vdev, vqWork, unbind>>
        /\ \/ op'.pc = "load" /\ op.by = "recovery"
           \/ op'.pc = "cleanup"
    BY <1>6, GotoPc DEF Stopped, At
  <2>2. vdev = FALSE
    BY <2>1, TypeParts DEF RemoveInv, TypeResources
  <2> QED BY <2>1, <2>2, ClosingKept DEF vqWork, Closing, Stopping, Halting
<1>7. CASE Cleanup
  <2>1. /\ op.pc = "cleanup" /\ op'.pc = "unprepare" /\ op'.by = op.by
        /\ UNCHANGED <<vdev, vqWork, unbind>>
    BY <1>7, GotoPc DEF Cleanup, At
  <2>2. vdev = FALSE
    BY <2>1, TypeParts DEF RemoveInv, TypeResources
  <2> QED BY <2>1, <2>2, ClosingKept DEF vqWork, Closing
<1>8. CASE Unprepare
  <2>1. /\ op.pc = "unprepare" /\ op'.pc = "free"
        /\ UNCHANGED <<vdev, state, vqWork, unbind>>
    BY <1>8 DEF Unprepare, At, Unlock, Free
  <2>2. vdev = FALSE /\ state = "offline"
    BY <2>1, TypeParts DEF RemoveInv, OrderInv, Offline, TypeResources
  <2> QED BY <2>1, <2>2, ClosingKept DEF vqWork, Closing, UpStates
<1>9. CASE Handler \/ CoreCrashes \/ \E v \in 0 .. NumVring - 1 : CoreNotifies(v)
  BY <1>9, RemoveKept DEF Handler, CrashIrq, HandlerClears, HandlerMasks, HandlerReports,
     CoreCrashes, CoreNotifies, vqWork
<1>10. CASE CrashWork
  <2>1. /\ op.pc = "free" /\ UNCHANGED <<op, vdev, vqWork, unbind>>
        /\ state' = state \/ (state = "running" /\ state' = "crashed")
    BY <1>10 DEF CrashWork, LockIsFree, Free
  <2>2. CASE state = "running"
    <3>1. removing = 0
      BY <2>1, <2>2, TypeParts DEF RemoveInv, Stopping, Halting, UpStates, TypeWork
    <3> QED BY <2>1, <2>2, <3>1 DEF RemoveInv, unbind, UpStates
  <2>3. CASE state # "running"
    BY <2>1, <2>3, RemoveKept DEF vqWork
  <2> QED BY <2>2, <2>3
<1>11. CASE Recover \/ Shutdown
  <2>1. /\ op.pc = "free" /\ state \in UpStates /\ op'.pc = "devices"
        /\ UNCHANGED <<vdev, vqWork, unbind>>
    BY <1>11 DEF Recover, Shutdown, LockIsFree, Free, UpStates, Calls
  <2>2. removing = 0
    BY <2>1, TypeParts DEF RemoveInv, Stopping, Halting, TypeWork
  <2> QED BY <2>1, <2>2 DEF RemoveInv, unbind
<1>12. CASE Boot
  <2>1. /\ op.pc = "free" /\ state = "offline" /\ removing = 0
        /\ UNCHANGED <<vdev, vqWork, unbind>>
    BY <1>12 DEF Boot, LockIsFree, Free
  <2>2. vdev = FALSE
    BY <2>1, TypeParts DEF RemoveInv, UpStates, TypeResources
  <2> QED BY <2>1, <2>2 DEF RemoveInv, unbind
<1>13. CASE VqWork \/ VqNotify \/ RxCallback
  <2>1. /\ UNCHANGED <<vdev, state, op, unbind>> /\ removing # 4
    BY <1>13, TypeParts DEF VqWork, VqNotify, RxCallback, RemoveInv, unbind, TypeWork
  <2> QED BY <2>1 DEF RemoveInv, unbind
<1>14. CASE Remove
  <2>1. /\ UNCHANGED <<vdev, walk>> /\ removing \in 0 .. 3 /\ removing' = removing + 1
    BY <1>14, Lengths, TypeParts DEF Remove, TypeWork
  <2>mbox. ASSUME NEW call, RemoveOrder[removing + 1] = call
           PROVE  /\ call = "mailbox" => mbox' = FALSE
                  /\ call # "mailbox" /\ mbox = TRUE => mbox' = TRUE
    <3>1. mbox' = (mbox /\ call # "mailbox")
      BY <1>14, <2>mbox DEF Remove
    <3> QED BY <3>1, Zenon
  <2>old. removing < 3 => mbox = TRUE
    BY TypeParts DEF RemoveInv, TypeWork
  <2>2. CASE removing = 0
    <3>1. op = Free /\ state # "crashed" /\ state' = state
      BY <1>14, <2>2, RemoveCalls DEF Remove, LockIsFree
    <3>3. mbox' = TRUE
      <4>1. RemoveOrder[removing + 1] = "shutdown" /\ mbox = TRUE
        BY <2>2, <2>old, RemoveCalls
      <4> QED BY <4>1, <2>mbox, Zenon
    <3>2. \/ state = "running" /\ op'.pc = "devices" /\ op'.by = "shutdown"
          \/ state # "running" /\ op' = op
      BY <1>14, <2>2, RemoveCalls DEF Remove, Calls
    <3> QED BY <2>1, <2>2, <2>old, <3>1, <3>2, <3>3 DEF RemoveInv, Free, Stopping, UpStates
  <2>3. CASE removing = 1
    <3>1. op = Free /\ op' = op /\ state' = "deleted"
      BY <1>14, <2>3, RemoveCalls DEF Remove, LockIsFree
    <3>3. mbox' = TRUE
      <4>1. RemoveOrder[removing + 1] = "deleted" /\ mbox = TRUE
        BY <2>3, <2>old, RemoveCalls
      <4> QED BY <4>1, <2>mbox, Zenon
    <3>2. state \notin UpStates
      BY <2>3, <3>1 DEF RemoveInv, Free, Stopping, Halting
    <3> QED BY <2>1, <2>3, <2>old, <3>1, <3>2, <3>3 DEF RemoveInv, Free, UpStates
  <2>4. CASE removing = 2
    <3>1. UNCHANGED <<op, state>>
      BY <1>14, <2>4, RemoveCalls DEF Remove
    <3>2. mbox' = FALSE
      <4>1. RemoveOrder[removing + 1] = "mailbox"
        BY <2>4, RemoveCalls
      <4> QED BY <4>1, <2>mbox, Zenon
    <3> QED BY <2>1, <2>4, <3>1, <3>2 DEF RemoveInv
  <2>5. CASE removing = 3
    <3>1. UNCHANGED <<op, state>> /\ mbox' = FALSE /\ vqQueued' = FALSE /\ walk = Idle
      BY <1>14, <2>5, RemoveCalls, TypeParts DEF Remove, RemoveInv, TypeWork
    <3> QED BY <2>1, <2>5, <3>1 DEF RemoveInv, Idle
  <2> QED BY <2>1, <2>2, <2>3, <2>4, <2>5
<1>15. CASE UNCHANGED vars
  BY <1>15, RemoveKept DEF vars, vqWork
<1> QED BY <1>1, <1>2, <1>3, <1>4, <1>5, <1>6, <1>7, <1>8, <1>9, <1>10, <1>11, <1>12, <1>13,
           <1>14, <1>15
        DEF Next, LockHolder, CrashHandling, Work

-----------------------------------------------------------------------------
(* The invariant and what follows from it                                  *)

(* The invariant is inductive.                                             *)
LEMMA InvHolds == Spec => []RprocInv
<1>1. RprocInv /\ [Next]_vars => RprocInv'
  BY TypeStep, OrderStep, LineStep, RemoveStep DEF RprocInv
<1> QED BY InvInit, <1>1, PTL DEF Spec

(* No step of any thread leaves the driver's state out of its types: no    *)
(* entry is freed twice, no step of prepare() or remove() is past the last.*)
THEOREM TypeCorrect == Spec => []TypeOK
<1>1. RprocInv => TypeOK
  BY DEF RprocInv
<1> QED BY InvHolds, <1>1, PTL

(* Whichever call of a boot fails, prepare(), parse_fw() and unprepare()   *)
(* leave a stopped core with nothing, and code is loaded only into a held, *)
(* powered core.                                                           *)
THEOREM BootsAreOrdered == Spec => []BootsInOrder
<1>1. RprocInv => BootsInOrder
  <2> SUFFICES ASSUME RprocInv PROVE BootsInOrder
    OBVIOUS
  <2>1. LockIsFree => op.pc = "free"
    BY DEF LockIsFree, Free
  <2>2. ResourcesBalanced
    BY <2>1 DEF RprocInv, OrderInv, ResourcesBalanced, UpStates, Ready, Registered, Empty
  <2>3. LoadsHeldCore
    BY DEF RprocInv, OrderInv, LoadsHeldCore, Ready, Loading
  <2> QED BY <2>2, <2>3 DEF BootsInOrder
<1> QED BY InvHolds, <1>1, PTL

(* stop() and the crash handler, one bit between them, never disable the   *)
(* line twice; and a stopped core's line is masked even after a warning.   *)
THEOREM LineBalanced == Spec => []BalancedUntilWarned
<1>1. RprocInv => BalancedUntilWarned
  <2> SUFFICES ASSUME RprocInv PROVE BalancedUntilWarned
    OBVIOUS
  <2>1. LockIsFree => op.pc = "free"
    BY DEF LockIsFree, Free
  <2>2. depth \in Nat /\ warned \in BOOLEAN /\ armed \in BOOLEAN
    BY TypeParts DEF RprocInv, TypeIrq
  <2>3. ASSUME LockIsFree, handler = "idle"
        PROVE  Depth = (IF armed = TRUE THEN 0 ELSE 1)
    BY <2>1, <2>3 DEF Depth
  <2>4. ASSUME warned = FALSE, LockIsFree, handler = "idle"
        PROVE  depth = (IF armed THEN 0 ELSE 1)
    <3>1. CASE armed = TRUE
      BY <3>1, <2>3, <2>4 DEF RprocInv, LineInv
    <3>2. CASE armed = FALSE
      BY <3>2, <2>3, <2>4 DEF RprocInv, LineInv
    <3> QED BY <2>2, <3>1, <3>2
  <2>5. ASSUME LockIsFree, handler = "idle", state \in {"offline", "deleted"}
        PROVE  depth > 0
    <3>1. armed = FALSE
      BY <2>1, <2>5 DEF RprocInv, LineInv, Unarmed, UpStates
    <3>2. depth >= Depth /\ Depth = 1
      BY <2>3, <2>5, <3>1 DEF RprocInv, LineInv
    <3> QED BY <2>2, <3>2
  <2> QED BY <2>2, <2>4, <2>5, Zenon DEF BalancedUntilWarned, CrashIrqBalanced
<1> QED BY InvHolds, <1>1, PTL

(* The message box outlives the virtio devices that kick, and after        *)
(* remove() no work and no callback is left.                               *)
THEOREM UnboundInOrder == Spec => []RemovedInOrder
<1>1. RprocInv => RemovedInOrder
  <2> SUFFICES ASSUME RprocInv PROVE RemovedInOrder
    OBVIOUS
  <2>1. removing \in 0 .. 4 /\ mbox \in BOOLEAN /\ vdev \in BOOLEAN
    BY TypeParts DEF RprocInv, TypeWork, TypeResources
  <2>2. vdev = TRUE => mbox = TRUE
    <3>1. removing >= 2 => op.pc = "free" /\ state = "deleted"
      BY DEF RprocInv, RemoveInv
    <3>2. removing >= 2 => vdev # TRUE
      BY <3>1 DEF RprocInv, RemoveInv, UpStates
    <3> QED BY <2>1, <3>2 DEF RprocInv, RemoveInv
  <2>3. removing = 4 => mbox = FALSE /\ vqQueued = FALSE /\ walk = Idle
    BY <2>1 DEF RprocInv, RemoveInv
  <2> QED BY <2>2, <2>3, <2>1, Lengths DEF RemovedInOrder, MayKick
<1> QED BY InvHolds, <1>1, PTL

=============================================================================
