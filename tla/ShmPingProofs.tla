---------------------------- MODULE ShmPingProofs ----------------------------
(***************************************************************************)
(* Proofs about ShmPing for every width of the sequence numbers and every  *)
(* number of pings, runs and restarts.  The inductive invariant has a part *)
(* that holds whatever restarts (who may touch the slot), one for the      *)
(* interrupt line, and one for a run during which the E906 stayed up.      *)
(***************************************************************************)
EXTENDS ShmPing, TLAPS

(* The program owns the slot, or has posted and waits for its pong.         *)
Owns  == host.pc \in {"ready", "stamp", "post", "verify"}
Awaits ==
  \/ host.pc \in {"look", "unmask", "relook", "sleep"}
  \/ host.pc \in {"drain", "ack"} /\ host.synced = TRUE

(* Whoever restarted, and whatever an earlier run left behind: the E906     *)
(* works on a ping only while the two numbers differ, the program only      *)
(* touches the packets while they agree.                                    *)
SlotInv ==
  /\ core.pc = "adopt" => core.handled \in {pingSeq, pongSeq}
  /\ core.pc \in {"poll", "check", "body", "publish"} => core.handled = pongSeq
  /\ core.pc \in {"check", "body", "publish"} => core.posted = pingSeq /\ pingSeq # pongSeq
  /\ core.pc = "ring" => core.posted = pongSeq
  /\ Owns => pingSeq = pongSeq
  /\ Awaits => pingSeq \in {host.seq, pongSeq}
  /\ Owns \/ host.pc \in {"look", "unmask", "relook", "sleep"} => host.synced = TRUE

(* A waiting doorbell keeps the pending bit; a program about to sleep has   *)
(* its interrupt enabled and unmasked, or an event to read.                 *)
LineInv ==
  /\ bells > 0 => pending = TRUE
  /\ host.pc \in {"unmask", "relook", "sleep", "drain", "ack"} => host.uio = TRUE
  /\ host.pc \notin {"off", "failed"} /\ host.uio = TRUE => enabled = TRUE
  /\ host.pc \in {"relook", "sleep"} => unmasked = TRUE \/ unread = TRUE

Filled == ping.magic = "PING" /\ ping.seq = host.seq /\ ping.body = host.seq

(* While the E906 stays up: a ping that is out is the successor of the last *)
(* answer and whole, and a pong that answers it echoes it.                  *)
PingInv ==
  /\ core.pc # "down"
  /\ core.pc \in {"boot", "adopt"} => host.synced = FALSE /\ pingSeq = pongSeq
  /\ pingSeq # pongSeq =>
       pingSeq = Succ(pongSeq) /\ ping.seq = pingSeq /\ ping.magic = "PING"
  /\ core.pc \in {"body", "publish"} =>
       /\ core.ok = TRUE /\ pong.magic = "PONG"
       /\ pong.seq = core.posted /\ pong.time = ping.time
  /\ core.pc = "publish" => pong.body = ping.body

RunInv ==
  /\ host.pc = "ready" => host.seq = pingSeq
  /\ host.pc \in {"stamp", "post"} => host.seq = Succ(pingSeq) /\ Filled
  /\ host.pc = "post" => ping.time = host.time
  /\ Awaits => host.seq = pingSeq /\ Filled /\ ping.time = host.time
  /\ Awaits /\ Answered => Genuine
  /\ host.pc = "verify" => host.seq = pingSeq /\ Genuine
  /\ host.pc \in {"unmask", "relook", "sleep"} /\ Answered =>
       core.pc = "ring" \/ pending = TRUE

PingPongInv ==
  /\ TypeOK /\ SlotInv /\ LineInv
  /\ host.pc = "failed" => disturbed = TRUE
  /\ disturbed = FALSE => PingInv /\ RunInv

-----------------------------------------------------------------------------
(* Sequence numbers *)

(* The successor of a sequence number is another sequence number.           *)
LEMMA SuccFacts ==
  ASSUME NEW n \in Seqs
  PROVE  Succ(n) \in Seqs /\ Succ(n) # n
<1>1. SeqMod \in Nat /\ SeqMod > 2
  BY ShmPingAssumption
<1>2. CASE n + 1 < SeqMod
  <2>1. ((n + 1) % SeqMod) = n + 1
    BY <1>1, <1>2 DEF Seqs
  <2> QED BY <1>1, <1>2, <2>1 DEF Seqs, Succ
<1>3. CASE n + 1 = SeqMod
  <2>1. ((n + 1) % SeqMod) = 0
    BY <1>1, <1>3 DEF Seqs
  <2> QED BY <1>1, <1>3, <2>1 DEF Seqs, Succ
<1> QED BY <1>1, <1>2, <1>3 DEF Seqs

-----------------------------------------------------------------------------
(* Types *)

LEMMA TypeInit == Init => TypeOK
<1> SUFFICES ASSUME Init PROVE TypeOK OBVIOUS
<1>1. 0 \in Seqs /\ 0 \in Times /\ 0 \in 0 .. MaxRuns /\ 0 \in 0 .. MaxRestarts
  BY ShmPingAssumption DEF Seqs, Times
<1>2. Blank \in Packets({"PING"}) /\ Blank \in Packets({"PONG", "ERRO"})
  BY <1>1 DEF Blank, Packets
<1>3. host \in HostStates /\ core \in CoreStates
  BY <1>1 DEF Init, HostStates, CoreStates
<1>4. /\ pending \in BOOLEAN /\ enabled \in BOOLEAN /\ unmasked \in BOOLEAN
      /\ unread \in BOOLEAN /\ disturbed \in BOOLEAN
  BY DEF Init
<1>5. made \subseteq Times
  BY DEF Init
<1>6. /\ pingSeq \in Seqs /\ pongSeq \in Seqs /\ clock \in Times
      /\ runs \in 0 .. MaxRuns /\ restarts \in 0 .. MaxRestarts /\ bells \in 0 .. 1
  BY <1>1 DEF Init
<1>7. ping \in Packets({"PING"}) /\ pong \in Packets({"PONG", "ERRO"})
  BY <1>2 DEF Init
<1> QED BY <1>3, <1>4, <1>5, <1>6, <1>7 DEF TypeOK

LEMMA TypeStep == TypeOK /\ [Next]_vars => TypeOK'
<1> SUFFICES ASSUME TypeOK, [Next]_vars PROVE TypeOK' OBVIOUS
<1> USE DEF TypeOK, slot, line, bound
<1>num. MaxRuns \in Nat /\ MaxRestarts \in Nat /\ MaxPings \in Nat
  BY ShmPingAssumption
<1>1. ASSUME Adopt PROVE TypeOK'
  BY <1>1 DEF Adopt, CoreStates
<1>2. ASSUME FreeSlot PROVE TypeOK'
  BY <1>2 DEF FreeSlot, PongAdopted, CoreGoes, CoreStates
<1>3. ASSUME See PROVE TypeOK'
  BY <1>3 DEF See, CoreStates
<1>4. ASSUME PongHeader PROVE TypeOK'
  <2>1. WellFormed \in BOOLEAN
    BY DEF WellFormed
  <2>2. core' \in CoreStates
    BY <1>4, <2>1 DEF PongHeader, CoreStates
  <2>3. pong' \in Packets({"PONG", "ERRO"})
    BY <1>4, <2>1 DEF PongHeader, Packets, CoreStates
  <2> QED BY <1>4, <2>2, <2>3 DEF PongHeader
<1>5. ASSUME PongBody PROVE TypeOK'
  BY <1>5 DEF PongBody, CoreGoes, Packets, CoreStates
<1>6. ASSUME Publish PROVE TypeOK'
  BY <1>6 DEF Publish, PongComplete, CoreGoes, CoreStates
<1>7. ASSUME Ring PROVE TypeOK'
  <2>1. core' \in CoreStates
    BY <1>7 DEF Ring, CoreStates
  <2>2. (bells' = 1 /\ pending' = TRUE) \/ (bells' = bells /\ pending' = pending)
    BY <1>7 DEF Ring, NoBellWaiting
  <2>3. bells' \in 0 .. 1
    BY <2>2
  <2>4. pending' \in BOOLEAN
    BY <2>2
  <2>5. UNCHANGED <<slot, enabled, unmasked, unread, host, bound>>
    BY <1>7 DEF Ring
  <2> QED BY <2>1, <2>3, <2>4, <2>5
<1>8. ASSUME CoreStops PROVE TypeOK'
  BY <1>8, <1>num DEF CoreStops, CoreGoes, CoreStates
<1>9. ASSUME CoreStarts PROVE TypeOK'
  <2>1. 0 \in Seqs /\ Blank \in Packets({"PING"}) /\ Blank \in Packets({"PONG", "ERRO"})
    BY ShmPingAssumption DEF Seqs, Times, Blank, Packets
  <2> QED BY <1>9, <2>1 DEF CoreStarts, CoreGoes, CoreStates
<1>10. ASSUME Start PROVE TypeOK'
  <2>1. PICK uio \in BOOLEAN :
          /\ host' = [host EXCEPT !.pc = IF uio THEN "drain" ELSE "sync",
                                  !.uio = uio, !.synced = FALSE]
          /\ enabled' = (enabled \/ uio)
    BY <1>10 DEF Start
  <2>2. host' \in HostStates
    BY <2>1 DEF HostStates
  <2>3. enabled' \in BOOLEAN
    BY <2>1
  <2>4. runs' \in 0 .. MaxRuns
    BY <1>10, <1>num DEF Start
  <2> QED BY <1>10, <2>2, <2>3, <2>4 DEF Start
<1>11. ASSUME Sync PROVE TypeOK'
  <2>1. host' \in HostStates
    BY <1>11 DEF Sync, HostStates
  <2> QED BY <1>11, <2>1 DEF Sync
<1>12. ASSUME Fill PROVE TypeOK'
  <2>1. Succ(host.seq) \in Seqs
    BY SuccFacts DEF HostStates
  <2>2. host' \in HostStates
    BY <1>12, <2>1 DEF Fill, HostStates
  <2>3. ping' \in Packets({"PING"})
    BY <1>12, <2>1 DEF Fill, Packets
  <2> QED BY <1>12, <2>2, <2>3 DEF Fill
<1>13. ASSUME Stamp PROVE TypeOK'
  <2>1. clock' \in Times /\ clock + 1 \in Times
    BY <1>13, <1>num DEF Stamp, Times
  <2>2. host' \in HostStates
    BY <1>13, <2>1 DEF Stamp, HostStates
  <2>3. ping' \in Packets({"PING"})
    BY <1>13, <2>1 DEF Stamp, Packets
  <2> QED BY <1>13, <2>1, <2>2, <2>3 DEF Stamp
<1>14. ASSUME Post PROVE TypeOK'
  BY <1>14 DEF Post, HostGoes, HostStates
<1>15. ASSUME Waits PROVE TypeOK'
  <2>1. ASSUME Pop PROVE TypeOK'
    BY <2>1 DEF Pop, HostGoes, HostStates
  <2>2. ASSUME Ack PROVE TypeOK'
    BY <2>2 DEF Ack, HostGoes, AfterDrain, HostStates
  <2>3. ASSUME Spin \/ Look \/ Unmask \/ LookAgain \/ Wake \/ Verify PROVE TypeOK'
    BY <2>3 DEF Spin, Look, Unmask, LookAgain, Wake, Verify, HostGoes, HostStates
  <2> QED BY <1>11, <1>15, <2>1, <2>2, <2>3 DEF Waits
<1>16. ASSUME Quit PROVE TypeOK'
  BY <1>16 DEF Quit, HostGoes, HostStates
<1>17. ASSUME Isr PROVE TypeOK'
  BY <1>17 DEF Isr
<1>18. ASSUME UNCHANGED vars PROVE TypeOK'
  BY <1>18 DEF vars
<1> QED
  BY <1>1, <1>2, <1>3, <1>4, <1>5, <1>6, <1>7, <1>8, <1>9, <1>10, <1>12, <1>13,
     <1>14, <1>15, <1>16, <1>17, <1>18
  DEF Next, Firmware, Program


-----------------------------------------------------------------------------
(* Who may touch the slot *)

LEMMA SlotStep == TypeOK /\ SlotInv /\ [Next]_vars => SlotInv'
<1> SUFFICES ASSUME TypeOK, SlotInv, [Next]_vars PROVE SlotInv' OBVIOUS
<1> USE DEF SlotInv, Owns, Awaits, slot, line, bound
<1>typ. host \in HostStates /\ core \in CoreStates
  BY DEF TypeOK
<1> USE DEF HostStates, CoreStates
<1>1. ASSUME Adopt \/ FreeSlot PROVE SlotInv'
  BY <1>1, <1>typ DEF Adopt, FreeSlot, PongAdopted, CoreGoes
<1>2. ASSUME See \/ PongHeader \/ PongBody PROVE SlotInv'
  BY <1>2, <1>typ DEF See, PongHeader, PongBody, CoreGoes
<1>3. ASSUME Publish \/ Ring PROVE SlotInv'
  BY <1>3, <1>typ DEF Publish, PongComplete, Ring, CoreGoes
<1>4. ASSUME CoreStops \/ CoreStarts PROVE SlotInv'
  BY <1>4, <1>typ DEF CoreStops, CoreStarts, CoreGoes
<1>5. ASSUME Start PROVE SlotInv'
  <2>1. host'.pc \in {"drain", "sync"} /\ host'.synced = FALSE
    BY <1>5, <1>typ DEF Start
  <2>2. UNCHANGED <<slot, core>>
    BY <1>5 DEF Start
  <2> QED BY <2>1, <2>2
<1>6. ASSUME Sync \/ Fill \/ Stamp \/ Post PROVE SlotInv'
  BY <1>6, <1>typ DEF Sync, SlotFree, Fill, Stamp, Post, HostGoes
<1>7. ASSUME Spin \/ Look \/ Unmask \/ LookAgain \/ Wake \/ Verify PROVE SlotInv'
  BY <1>7, <1>typ DEF Spin, Look, Unmask, LookAgain, Wake, Verify, Answered, HostGoes
<1>8. ASSUME Pop \/ Ack \/ Quit \/ Isr PROVE SlotInv'
  BY <1>8, <1>typ DEF Pop, Ack, AfterDrain, Quit, Isr, HostGoes
<1>9. ASSUME UNCHANGED vars PROVE SlotInv'
  BY <1>9 DEF vars
<1> QED
  BY <1>1, <1>2, <1>3, <1>4, <1>5, <1>6, <1>7, <1>8, <1>9
  DEF Next, Firmware, Program, Waits

-----------------------------------------------------------------------------
(* The interrupt line *)

LEMMA LineStep == TypeOK /\ SlotInv /\ LineInv /\ [Next]_vars => LineInv'
<1> SUFFICES ASSUME TypeOK, SlotInv, LineInv, [Next]_vars PROVE LineInv' OBVIOUS
<1> USE DEF LineInv, slot, line, bound
<1>typ. host \in HostStates /\ core \in CoreStates /\ bells \in 0 .. 1
  BY DEF TypeOK
<1> USE DEF HostStates, CoreStates
<1>1. ASSUME Firmware PROVE LineInv'
  BY <1>1, <1>typ
  DEF Firmware, Adopt, FreeSlot, See, PongHeader, PongBody, Publish, Ring, NoBellWaiting, CoreGoes
<1>2. ASSUME CoreStops \/ CoreStarts PROVE LineInv'
  BY <1>2, <1>typ DEF CoreStops, CoreStarts, CoreGoes
<1>3. ASSUME Start PROVE LineInv'
  <2>1. PICK uio \in BOOLEAN :
          /\ host' = [host EXCEPT !.pc = IF uio THEN "drain" ELSE "sync",
                                  !.uio = uio, !.synced = FALSE]
          /\ enabled' = (enabled \/ uio)
    BY <1>3 DEF Start
  <2>2. host'.uio = uio /\ host'.pc = IF uio THEN "drain" ELSE "sync"
    BY <2>1, <1>typ
  <2>3. uio = TRUE => enabled' = TRUE
    BY <2>1
  <2> QED BY <1>3, <2>2, <2>3 DEF Start
<1>4. ASSUME Sync \/ Fill \/ Stamp \/ Post PROVE LineInv'
  BY <1>4, <1>typ DEF Sync, Fill, Stamp, Post, HostGoes
<1>5. ASSUME Spin \/ Look \/ Unmask \/ LookAgain \/ Wake \/ Verify PROVE LineInv'
  BY <1>5, <1>typ DEF Spin, Look, Unmask, LookAgain, Wake, Verify, HostGoes
<1>6. ASSUME Pop \/ Ack \/ Quit \/ Isr PROVE LineInv'
  BY <1>6, <1>typ DEF Pop, Ack, AfterDrain, Quit, Isr, HostGoes
<1>7. ASSUME UNCHANGED vars PROVE LineInv'
  BY <1>7 DEF vars
<1> QED
  BY <1>1, <1>2, <1>3, <1>4, <1>5, <1>6, <1>7 DEF Next, Program, Waits


-----------------------------------------------------------------------------
(* A run during which the E906 stays up *)

LEMMA PingStep ==
  PingPongInv /\ [Next]_vars /\ disturbed = FALSE /\ disturbed' = FALSE => PingInv'
<1> SUFFICES ASSUME PingPongInv, [Next]_vars, disturbed = FALSE, disturbed' = FALSE
             PROVE  PingInv'
  OBVIOUS
<1>inv. TypeOK /\ SlotInv /\ PingInv /\ RunInv
  BY DEF PingPongInv
<1>typ. /\ host \in HostStates /\ core \in CoreStates
        /\ ping \in Packets({"PING"}) /\ pong \in Packets({"PONG", "ERRO"})
  BY <1>inv DEF TypeOK
<1> USE DEF PingInv, slot, line, bound, HostStates, CoreStates, Packets
<1>1. ASSUME Adopt \/ FreeSlot PROVE PingInv'
  <2>1. ASSUME Adopt PROVE PingInv'
    BY <2>1, <1>inv, <1>typ DEF Adopt
  <2>2. ASSUME FreeSlot PROVE PingInv'
    <3>1. /\ core.handled = pingSeq /\ pongSeq' = core.handled
          /\ UNCHANGED <<pingSeq, ping, pong, host>>
      BY <2>2, <1>inv DEF FreeSlot, PongAdopted, SlotInv
    <3>2. core'.pc = "poll"
      BY <2>2, <1>typ DEF FreeSlot, CoreGoes
    <3> QED BY <3>1, <3>2
  <2> QED BY <1>1, <2>1, <2>2
<1>2. ASSUME See PROVE PingInv'
  BY <1>2, <1>inv, <1>typ DEF See
<1>3. ASSUME PongHeader PROVE PingInv'
  <2>1. WellFormed
    BY <1>3, <1>inv DEF PongHeader, WellFormed, SlotInv
  <2> QED BY <1>3, <1>inv, <1>typ, <2>1 DEF PongHeader
<1>4. ASSUME PongBody \/ Publish \/ Ring PROVE PingInv'
  <2>1. ASSUME PongBody PROVE PingInv'
    BY <2>1, <1>inv, <1>typ DEF PongBody, CoreGoes
  <2>2. ASSUME Publish PROVE PingInv'
    <3>1. pongSeq' = pingSeq /\ UNCHANGED <<pingSeq, ping, pong, host>>
      BY <2>2, <1>inv DEF Publish, PongComplete, SlotInv
    <3>2. core'.pc = "ring"
      BY <2>2, <1>typ DEF Publish, CoreGoes
    <3> QED BY <3>1, <3>2
  <2>3. ASSUME Ring PROVE PingInv'
    BY <2>3, <1>inv, <1>typ DEF Ring
  <2> QED BY <1>4, <2>1, <2>2, <2>3
<1>5. ASSUME CoreStops \/ CoreStarts PROVE PingInv'
  BY <1>5, <1>inv, <1>typ DEF CoreStops, CoreStarts, CoreGoes
<1>6. ASSUME Start PROVE PingInv'
  <2>1. host'.synced = FALSE
    BY <1>6, <1>typ DEF Start
  <2>2. UNCHANGED <<slot, core>>
    BY <1>6 DEF Start
  <2> QED BY <2>1, <2>2, <1>inv
<1>7. ASSUME Sync PROVE PingInv'
  BY <1>7, <1>inv, <1>typ DEF Sync, SlotFree
<1>8. ASSUME Fill \/ Stamp PROVE PingInv'
  BY <1>8, <1>inv, <1>typ DEF Fill, Stamp, SlotInv, Owns
<1>9. ASSUME Post PROVE PingInv'
  BY <1>9, <1>inv, <1>typ DEF Post, HostGoes, SlotInv, Owns, RunInv, Filled
<1>10. ASSUME Spin \/ Look \/ Unmask \/ LookAgain \/ Wake \/ Verify PROVE PingInv'
  BY <1>10, <1>inv, <1>typ DEF Spin, Look, Unmask, LookAgain, Wake, Verify, HostGoes
<1>11. ASSUME Pop \/ Ack \/ Quit \/ Isr PROVE PingInv'
  BY <1>11, <1>inv, <1>typ DEF Pop, Ack, Quit, Isr, HostGoes
<1>12. ASSUME UNCHANGED vars PROVE PingInv'
  BY <1>12, <1>inv DEF vars
<1> QED
  BY <1>1, <1>2, <1>3, <1>4, <1>5, <1>6, <1>7, <1>8, <1>9, <1>10, <1>11, <1>12
  DEF Next, Firmware, Program, Waits


LEMMA RunStep ==
  PingPongInv /\ [Next]_vars /\ disturbed = FALSE /\ disturbed' = FALSE => RunInv'
<1> SUFFICES ASSUME PingPongInv, [Next]_vars, disturbed = FALSE, disturbed' = FALSE
             PROVE  RunInv'
  OBVIOUS
<1>inv. TypeOK /\ SlotInv /\ LineInv /\ PingInv /\ RunInv
  BY DEF PingPongInv
<1>typ. /\ host \in HostStates /\ core \in CoreStates
        /\ ping \in Packets({"PING"}) /\ pong \in Packets({"PONG", "ERRO"})
        /\ pingSeq \in Seqs /\ pongSeq \in Seqs
  BY <1>inv DEF TypeOK
<1> USE DEF RunInv, Filled, Awaits, Answered, Genuine, slot, line, bound,
            HostStates, CoreStates, Packets
<1>1. ASSUME Adopt \/ FreeSlot PROVE RunInv'
  <2>1. host.synced = FALSE
    BY <1>1, <1>inv DEF Adopt, FreeSlot, PingInv
  <2>2. UNCHANGED host
    BY <1>1 DEF Adopt, FreeSlot
  <2> QED BY <1>inv, <1>typ, <2>1, <2>2 DEF SlotInv, Owns
<1>2. ASSUME See PROVE RunInv'
  BY <1>2, <1>inv, <1>typ DEF See
<1>3. ASSUME PongHeader \/ PongBody PROVE RunInv'
  <2>1. pongSeq # pingSeq /\ host.pc # "verify"
    BY <1>3, <1>inv DEF PongHeader, PongBody, SlotInv, Owns
  <2>2. UNCHANGED <<pingSeq, ping, pongSeq, host>>
    BY <1>3 DEF PongHeader, PongBody
  <2> QED BY <2>1, <2>2, <1>inv
<1>4. ASSUME Publish PROVE RunInv'
  <2>1. pongSeq' = pingSeq /\ core.posted = pingSeq /\ ~Owns
    BY <1>4, <1>inv DEF Publish, PongComplete, SlotInv
  <2>2. core'.pc = "ring" /\ UNCHANGED <<pingSeq, ping, pong, host, pending>>
    BY <1>4, <1>typ DEF Publish, CoreGoes
  <2>3. Awaits => Genuine
    BY <1>4, <1>inv, <2>1 DEF Publish, PongComplete, PingInv
  <2> QED BY <2>1, <2>2, <2>3, <1>inv DEF Owns
<1>5. ASSUME Ring PROVE RunInv'
  <2>1. pending' = TRUE
    BY <1>5, <1>inv, <1>typ DEF Ring, NoBellWaiting, LineInv, TypeOK
  <2>2. UNCHANGED <<pingSeq, ping, pongSeq, pong, host>>
    BY <1>5 DEF Ring
  <2> QED BY <2>1, <2>2, <1>inv
<1>6. ASSUME CoreStops \/ CoreStarts PROVE RunInv'
  BY <1>6, <1>inv DEF CoreStops, CoreStarts, PingInv
<1>7. ASSUME Start PROVE RunInv'
  <2>1. host'.pc \in {"drain", "sync"} /\ host'.synced = FALSE
    BY <1>7, <1>typ DEF Start
  <2> QED BY <2>1
<1>8. ASSUME Sync PROVE RunInv'
  <2>1. host'.pc = "ready" /\ host'.seq = pingSeq /\ pingSeq' = pingSeq
    BY <1>8, <1>typ DEF Sync
  <2> QED BY <2>1
<1>9. ASSUME Fill PROVE RunInv'
  BY <1>9, <1>inv, <1>typ DEF Fill
<1>10. ASSUME Stamp PROVE RunInv'
  BY <1>10, <1>inv, <1>typ DEF Stamp
<1>11. ASSUME Post PROVE RunInv'
  <2>1. pingSeq = pongSeq /\ Succ(pingSeq) # pingSeq /\ host.seq = Succ(pingSeq)
    BY <1>11, <1>inv, <1>typ, SuccFacts DEF Post, SlotInv, Owns
  <2> QED BY <1>11, <1>inv, <1>typ, <2>1 DEF Post, HostGoes
<1>12. ASSUME Spin \/ Look \/ LookAgain \/ Verify PROVE RunInv'
  <2>1. ASSUME Spin PROVE RunInv'
    BY <2>1, <1>inv, <1>typ DEF Spin, HostGoes
  <2>2. ASSUME Look PROVE RunInv'
    BY <2>2, <1>inv, <1>typ DEF Look, HostGoes
  <2>3. ASSUME LookAgain PROVE RunInv'
    BY <2>3, <1>inv, <1>typ DEF LookAgain, HostGoes
  <2>4. ASSUME Verify PROVE RunInv'
    BY <2>4, <1>inv, <1>typ DEF Verify, HostGoes, SlotInv, Owns
  <2> QED BY <1>12, <2>1, <2>2, <2>3, <2>4
<1>13. ASSUME Unmask \/ Wake \/ Pop PROVE RunInv'
  BY <1>13, <1>inv, <1>typ DEF Unmask, Wake, Pop, HostGoes, SlotInv
<1>14. ASSUME Ack PROVE RunInv'
  BY <1>14, <1>inv, <1>typ DEF Ack, AfterDrain, HostGoes
<1>15. ASSUME Quit \/ Isr PROVE RunInv'
  BY <1>15, <1>inv, <1>typ DEF Quit, Isr, HostGoes
<1>16. ASSUME UNCHANGED vars PROVE RunInv'
  BY <1>16, <1>inv DEF vars
<1> QED
  BY <1>1, <1>2, <1>3, <1>4, <1>5, <1>6, <1>7, <1>8, <1>9, <1>10, <1>11, <1>12,
     <1>13, <1>14, <1>15, <1>16
  DEF Next, Firmware, Program, Waits


(* A program that fails does so in a run the E906 did not stay up for.      *)
LEMMA FailStep ==
  PingPongInv /\ [Next]_vars => (host'.pc = "failed" => disturbed' = TRUE)
<1> SUFFICES ASSUME PingPongInv, [Next]_vars, host'.pc = "failed"
             PROVE  disturbed' = TRUE
  OBVIOUS
<1>inv. TypeOK /\ SlotInv /\ (host.pc = "failed" => disturbed = TRUE)
  BY DEF PingPongInv
<1>typ. host \in HostStates /\ disturbed \in BOOLEAN
  BY <1>inv DEF TypeOK
<1> USE DEF HostStates, line, slot, bound
<1>1. ASSUME Spin PROVE disturbed = TRUE
  <2> SUFFICES ASSUME disturbed = FALSE PROVE FALSE
    BY <1>typ
  <2>1. PingInv /\ RunInv
    BY DEF PingPongInv
  <2>2. host.pc = "look" /\ pongSeq # host.seq /\ Succ(pongSeq) # host.seq
    BY <1>1, <1>typ DEF Spin, Answered, HostGoes
  <2> QED BY <2>1, <2>2 DEF PingInv, RunInv, Awaits
<1>2. ASSUME Verify PROVE disturbed = TRUE
  <2> SUFFICES ASSUME disturbed = FALSE PROVE FALSE
    BY <1>typ
  <2>1. Genuine
    BY <1>2 DEF PingPongInv, RunInv, Verify
  <2> QED BY <1>2, <1>typ, <2>1 DEF Verify, HostGoes
<1>3. ASSUME Look \/ Unmask \/ LookAgain \/ Wake \/ Pop \/ Ack \/ Quit PROVE FALSE
  BY <1>3, <1>typ DEF Look, Unmask, LookAgain, Wake, Pop, Ack, AfterDrain, Quit, HostGoes
<1>4. ASSUME Start \/ Sync \/ Fill \/ Stamp \/ Post PROVE FALSE
  BY <1>4, <1>typ DEF Start, Sync, Fill, Stamp, Post, HostGoes
<1>5. ASSUME Firmware \/ CoreStarts \/ Isr \/ UNCHANGED vars PROVE UNCHANGED <<host, disturbed>>
  BY <1>5 DEF Firmware, Adopt, FreeSlot, See, PongHeader, PongBody, Publish, Ring,
              CoreStarts, Isr, vars
<1>6. ASSUME CoreStops PROVE disturbed' = TRUE
  BY <1>6 DEF CoreStops
<1>7. ASSUME Spin \/ Verify PROVE UNCHANGED disturbed
  BY <1>7 DEF Spin, Verify
<1> QED
  BY <1>inv, <1>1, <1>2, <1>3, <1>4, <1>5, <1>6, <1>7 DEF Next, Program, Waits

-----------------------------------------------------------------------------
(* A run begins undisturbed with both numbers equal. *)
LEMMA SyncStep ==
  PingPongInv /\ [Next]_vars /\ disturbed = TRUE /\ disturbed' = FALSE => PingInv' /\ RunInv'
<1> SUFFICES ASSUME PingPongInv, [Next]_vars, disturbed = TRUE, disturbed' = FALSE
             PROVE  PingInv' /\ RunInv'
  OBVIOUS
<1>1. TypeOK /\ SlotInv
  BY DEF PingPongInv
<1>2. host \in HostStates /\ core \in CoreStates
  BY <1>1 DEF TypeOK
<1>3. Sync
  BY DEF Next, Firmware, Adopt, FreeSlot, See, PongHeader, PongBody, Publish, Ring,
         CoreStops, CoreStarts, Program, Waits, Start, Fill, Stamp, Post, Spin, Look,
         Unmask, LookAgain, Wake, Pop, Ack, Verify, Quit, Isr, vars, bound
<1>4. core.pc \notin {"down", "boot", "adopt"} /\ pingSeq = pongSeq
  BY <1>3 DEF Sync, SlotFree
<1>5. /\ host'.pc = "ready" /\ host'.seq = pingSeq
      /\ UNCHANGED <<slot, core>>
  BY <1>2, <1>3 DEF Sync, HostStates
<1>6. core.pc \notin {"body", "publish"}
  BY <1>1, <1>4 DEF SlotInv
<1> QED BY <1>4, <1>5, <1>6 DEF PingInv, RunInv, Awaits, slot

LEMMA PingPongInit == Init => PingPongInv
<1> SUFFICES ASSUME Init PROVE PingPongInv OBVIOUS
<1>1. TypeOK
  BY TypeInit
<1>2. /\ host.pc = "off" /\ host.synced = FALSE /\ core.pc = "boot"
      /\ pingSeq = pongSeq /\ bells = 0
  BY DEF Init
<1>3. SlotInv
  BY <1>2 DEF SlotInv, Owns, Awaits
<1>4. LineInv
  BY <1>2 DEF LineInv
<1>5. PingInv /\ RunInv
  BY <1>2 DEF PingInv, RunInv, Awaits
<1> QED BY <1>1, <1>2, <1>3, <1>4, <1>5 DEF PingPongInv

LEMMA PingPongStep == PingPongInv /\ [Next]_vars => PingPongInv'
<1> SUFFICES ASSUME PingPongInv, [Next]_vars PROVE PingPongInv' OBVIOUS
<1>1. TypeOK' /\ SlotInv' /\ LineInv'
  BY TypeStep, SlotStep, LineStep DEF PingPongInv
<1>2. host'.pc = "failed" => disturbed' = TRUE
  BY FailStep
<1>3. disturbed \in BOOLEAN
  BY DEF PingPongInv, TypeOK
<1>4. disturbed' = FALSE => PingInv' /\ RunInv'
  BY <1>3, PingStep, RunStep, SyncStep
<1> QED BY <1>1, <1>2, <1>4 DEF PingPongInv

(* The inductive invariant of the slot, its interrupt line and its runs.    *)
THEOREM PingPongInvariant == Spec => []PingPongInv
BY PingPongInit, PingPongStep, PTL DEF Spec

(* Type correctness, with at most one doorbell in the host's FIFO.          *)
THEOREM TypeCorrect == Spec => []TypeOK
<1>1. PingPongInv => TypeOK
  BY DEF PingPongInv
<1> QED BY <1>1, PingPongInvariant, PTL

(* No packet is read while the other side writes it, however often either   *)
(* side is stopped and started, and however late an answer comes.           *)
THEOREM SlotsExclusive == Spec => []SlotExclusion
<1>1. PingPongInv => SlotExclusion
  BY DEF PingPongInv, SlotInv, Owns, SlotExclusion
<1> QED BY <1>1, PingPongInvariant, PTL

(* Only a restart of the E906 during the run makes a program or the E906    *)
(* report a malformed packet.                                               *)
THEOREM NeverAlarms == Spec => []NoFalseAlarm
<1>1. PingPongInv => NoFalseAlarm
  BY DEF PingPongInv, PingInv, TypeOK, NoFalseAlarm
<1> QED BY <1>1, PingPongInvariant, PTL

(* A sleeping program whose pong is there will be woken.                    *)
THEOREM SleepersWake == Spec => []SleeperWillWake
<1>1. PingPongInv => SleeperWillWake
  <2> SUFFICES ASSUME PingPongInv, host.pc = "sleep", Answered, ~disturbed,
                      unread = FALSE, core.pc # "ring"
               PROVE  pending = TRUE /\ enabled = TRUE /\ unmasked = TRUE
    BY DEF SleeperWillWake, PingPongInv, TypeOK
  <2>1. LineInv /\ RunInv
    BY DEF PingPongInv, TypeOK
  <2> QED BY <2>1 DEF LineInv, RunInv
<1> QED BY <1>1, PingPongInvariant, PTL

-----------------------------------------------------------------------------
(* A pong that is accepted was made from its ping, whatever restarts.  The  *)
(* E906 may stop after the header of a pong; the payload is then an older   *)
(* one, and tells by its number that it is not of this ping, as long as the *)
(* numbers have not gone all the way round since: each ping whose payload   *)
(* is not written costs a restart.                                          *)

(* How many numbers a is ahead of b. *)
Dist(a, b) == (a + SeqMod - b) % SeqMod

LEMMA DistFacts ==
  ASSUME NEW a \in Seqs, NEW b \in Seqs
  PROVE  /\ Dist(a, b) \in Seqs /\ (Dist(a, b) = 0 <=> a = b)
         /\ Dist(Succ(a), b) = IF Dist(a, b) + 1 = SeqMod THEN 0 ELSE Dist(a, b) + 1
<1>1. SeqMod \in Nat /\ SeqMod > 2 /\ a \in 0 .. SeqMod - 1 /\ b \in 0 .. SeqMod - 1
  BY ShmPingAssumption DEF Seqs
<1>2. ASSUME NEW x \in 0 .. SeqMod - 1
      PROVE  (x + SeqMod - b) % SeqMod = IF x >= b THEN x - b ELSE x + SeqMod - b
  BY <1>1
<1>3. Succ(a) = IF a + 1 = SeqMod THEN 0 ELSE a + 1
  BY <1>1 DEF Succ
<1>4. Dist(a, b) = IF a >= b THEN a - b ELSE a + SeqMod - b
  BY <1>1, <1>2 DEF Dist
<1>5. Dist(Succ(a), b) = IF Succ(a) >= b THEN Succ(a) - b ELSE Succ(a) + SeqMod - b
  BY <1>1, <1>2, <1>3 DEF Dist
<1> QED BY <1>1, <1>3, <1>4, <1>5 DEF Seqs

(* A program that owns the slot counts on from the number in it, unless the *)
(* slot was cleared, and then there is no payload of a pong in it.          *)
OwnerInv ==
  pong.body # NoBody =>
    /\ host.pc \in {"ready", "verify"} => host.seq = pingSeq
    /\ host.pc \in {"stamp", "post"} => host.seq = Succ(pingSeq)

(* The payload of a ping is of the number it is posted with. *)
PingBodyInv ==
  ping.body # NoBody =>
    /\ pingSeq # pongSeq => ping.body = pingSeq
    /\ host.pc \in {"stamp", "post"} => ping.body = host.seq

(* A ping the E906 will look at, and the pings without a payload since the  *)
(* last one: one for each restart, and the one that is out.                 *)
ToAnswer ==
  /\ pingSeq # pongSeq
  /\ \/ core.pc \in {"poll", "check", "ring"}
     \/ core.pc = "adopt" /\ core.handled = pongSeq
Restarting == IF core.pc \in {"down", "boot", "adopt"} THEN 1 ELSE 0
Out        == IF pingSeq # pongSeq THEN 1 ELSE 0

PongBodyInv ==
  pong.body # NoBody =>
    /\ core.pc = "publish" => pong.body = pingSeq
    /\ ToAnswer => pong.body # pingSeq
    /\ Dist(pingSeq, pong.body) + Restarting <= restarts + Out

(* A pong whose header and payload agree has been made. *)
MadeInv ==
  /\ core.pc = "body" => /\ pong.seq = core.posted
                         /\ pong.magic = "PONG" => core.ok = TRUE
  /\ pong.magic = "PONG" /\ pong.body = pong.seq => pong.time \in made

EchoInv == PingPongInv /\ OwnerInv /\ PingBodyInv /\ PongBodyInv /\ MadeInv

LEMMA EchoInit == Init => EchoInv
<1> SUFFICES ASSUME Init PROVE EchoInv OBVIOUS
<1>1. /\ ping.body = NoBody /\ pong.body = NoBody /\ pong.magic = "none" /\ core.pc = "boot"
  BY DEF Init, Blank
<1> QED BY <1>1, PingPongInit DEF EchoInv, OwnerInv, PingBodyInv, PongBodyInv, MadeInv

(* The two numbers in the slot and the two payloads. *)
LEMMA EchoTypes ==
  ASSUME TypeOK
  PROVE  /\ pingSeq \in Seqs /\ pongSeq \in Seqs /\ host \in HostStates /\ core \in CoreStates
         /\ ping \in Packets({"PING"}) /\ pong \in Packets({"PONG", "ERRO"})
         /\ restarts \in Nat /\ restarts <= MaxRestarts /\ MaxRestarts \in Nat
         /\ pong.body # NoBody => pong.body \in Seqs
BY ShmPingAssumption DEF TypeOK, Packets

LEMMA OwnerStep ==
  ASSUME EchoInv, [Next]_vars
  PROVE  OwnerInv'
<1>inv. TypeOK /\ SlotInv /\ OwnerInv
  BY DEF EchoInv, PingPongInv
<1>typ. /\ host \in HostStates /\ core \in CoreStates
        /\ ping \in Packets({"PING"}) /\ pong \in Packets({"PONG", "ERRO"})
  BY <1>inv, EchoTypes
<1> USE DEF OwnerInv, slot, line, bound, HostStates, CoreStates, Packets
<1>1. ASSUME Adopt \/ FreeSlot \/ See \/ PongHeader \/ Publish \/ Ring \/ CoreStops
      PROVE  OwnerInv'
  BY <1>1, <1>inv, <1>typ DEF Adopt, FreeSlot, See, PongHeader, Publish, Ring, CoreStops
<1>2. ASSUME PongBody PROVE OwnerInv'
  BY <1>2, <1>inv, <1>typ DEF PongBody, SlotInv, Owns
<1>3. ASSUME CoreStarts PROVE OwnerInv'
  BY <1>3, <1>inv DEF CoreStarts, Blank
<1>4. ASSUME Start PROVE OwnerInv'
  <2>1. host'.pc \in {"drain", "sync"}
    BY <1>4, <1>typ DEF Start
  <2> QED BY <2>1
<1>5. ASSUME Sync \/ Fill \/ Stamp \/ Post PROVE OwnerInv'
  <2>1. ASSUME Sync \/ Post PROVE OwnerInv'
    BY <2>1, <1>inv, <1>typ DEF Sync, Post, HostGoes
  <2>2. ASSUME Fill PROVE OwnerInv'
    <3>1. host.pc = "ready" /\ host'.pc = "stamp" /\ host'.seq = Succ(host.seq)
      BY <2>2, <1>typ DEF Fill
    <3> QED BY <2>2, <1>inv, <3>1 DEF Fill
  <2>3. ASSUME Stamp PROVE OwnerInv'
    <3>1. host.pc = "stamp" /\ host'.pc = "post" /\ host'.seq = host.seq
      BY <2>3, <1>typ DEF Stamp
    <3> QED BY <2>3, <1>inv, <3>1 DEF Stamp
  <2> QED BY <1>5, <2>1, <2>2, <2>3
<1>6. ASSUME Spin \/ Look \/ LookAgain PROVE OwnerInv'
  <2>1. host'.pc = "verify" => pongSeq = host.seq
    BY <1>6, <1>typ DEF Spin, Look, LookAgain, Answered, HostGoes
  <2>2. host.pc \in {"look", "relook"} /\ host'.pc \notin {"ready", "stamp", "post"}
    BY <1>6, <1>typ DEF Spin, Look, LookAgain, HostGoes
  <2>3. pingSeq \in {host.seq, pongSeq} /\ host'.seq = host.seq /\ UNCHANGED <<slot>>
    BY <1>6, <1>inv, <1>typ, <2>2 DEF Spin, Look, LookAgain, HostGoes, SlotInv, Awaits
  <2> QED BY <2>1, <2>2, <2>3
<1>7. ASSUME Unmask \/ Wake \/ Pop \/ Ack \/ Verify \/ Quit \/ Isr PROVE OwnerInv'
  BY <1>7, <1>inv, <1>typ DEF Unmask, Wake, Pop, Ack, AfterDrain, Verify, Quit, Isr, HostGoes
<1>8. ASSUME UNCHANGED vars PROVE OwnerInv'
  BY <1>8, <1>inv DEF vars
<1> QED
  BY <1>1, <1>2, <1>3, <1>4, <1>5, <1>6, <1>7, <1>8 DEF Next, Firmware, Program, Waits

LEMMA PingBodyStep ==
  ASSUME EchoInv, [Next]_vars
  PROVE  PingBodyInv'
<1>inv. TypeOK /\ SlotInv /\ PingBodyInv
  BY DEF EchoInv, PingPongInv
<1>typ. /\ host \in HostStates /\ core \in CoreStates
        /\ ping \in Packets({"PING"}) /\ pong \in Packets({"PONG", "ERRO"})
  BY <1>inv, EchoTypes
<1> USE DEF PingBodyInv, slot, line, bound, HostStates, CoreStates, Packets
<1>1. ASSUME Adopt \/ See \/ PongHeader \/ PongBody \/ Ring \/ CoreStops
      PROVE  PingBodyInv'
  BY <1>1, <1>inv, <1>typ DEF Adopt, See, PongHeader, PongBody, Ring, CoreStops
<1>2. ASSUME FreeSlot \/ Publish PROVE PingBodyInv'
  BY <1>2, <1>inv, <1>typ DEF FreeSlot, PongAdopted, Publish, PongComplete, SlotInv
<1>3. ASSUME CoreStarts PROVE PingBodyInv'
  BY <1>3, <1>inv DEF CoreStarts, Blank
<1>4. ASSUME Start PROVE PingBodyInv'
  <2>1. host'.pc \in {"drain", "sync"} /\ UNCHANGED slot
    BY <1>4, <1>typ DEF Start
  <2> QED BY <1>inv, <2>1
<1>5. ASSUME Fill PROVE PingBodyInv'
  BY <1>5, <1>inv, <1>typ DEF Fill, SlotInv, Owns
<1>6. ASSUME Sync \/ Stamp \/ Post PROVE PingBodyInv'
  BY <1>6, <1>inv, <1>typ DEF Sync, Stamp, Post, HostGoes
<1>7. ASSUME Spin \/ Look \/ LookAgain \/ Unmask \/ Wake PROVE PingBodyInv'
  BY <1>7, <1>inv, <1>typ DEF Spin, Look, LookAgain, Unmask, Wake, HostGoes
<1>8. ASSUME Pop \/ Ack \/ Verify \/ Quit \/ Isr PROVE PingBodyInv'
  BY <1>8, <1>inv, <1>typ DEF Pop, Ack, AfterDrain, Verify, Quit, Isr, HostGoes
<1>9. ASSUME UNCHANGED vars PROVE PingBodyInv'
  BY <1>9, <1>inv DEF vars
<1> QED
  BY <1>1, <1>2, <1>3, <1>4, <1>5, <1>6, <1>7, <1>8, <1>9 DEF Next, Firmware, Program, Waits

(* Steps that leave the numbers and the payload alone, and after which the  *)
(* E906 looks at no ping that it did not look at before.                    *)
LEMMA PongKeptStep ==
  ASSUME EchoInv, UNCHANGED <<pingSeq, pongSeq, restarts>>, pong'.body = pong.body,
         core'.pc # "publish" \/ core'.pc = core.pc,
         ToAnswer' => ToAnswer, Restarting' = Restarting
  PROVE  PongBodyInv'
BY DEF EchoInv, PongBodyInv, Out

LEMMA PongBodyStep ==
  ASSUME MaxRestarts + 1 < SeqMod, EchoInv, [Next]_vars
  PROVE  PongBodyInv'
<1>inv. TypeOK /\ SlotInv /\ OwnerInv /\ PingBodyInv /\ PongBodyInv /\ SeqMod \in Nat
  BY ShmPingAssumption DEF EchoInv, PingPongInv
<1>typ. /\ host \in HostStates /\ core \in CoreStates /\ pingSeq \in Seqs /\ pongSeq \in Seqs
        /\ ping \in Packets({"PING"}) /\ pong \in Packets({"PONG", "ERRO"})
        /\ restarts \in Nat /\ restarts <= MaxRestarts /\ MaxRestarts \in Nat
        /\ pong.body # NoBody => pong.body \in Seqs
  BY <1>inv, EchoTypes
<1> DEFINE d == Dist(pingSeq, pong.body)
<1>dst. pong.body # NoBody => d \in Nat
  <2>1. Seqs \subseteq Nat
    BY <1>inv DEF Seqs
  <2>2. pong.body # NoBody => d \in Seqs
    BY <1>typ, DistFacts
  <2> QED BY <2>1, <2>2
<1> USE DEF slot, line, bound, HostStates, CoreStates, Packets
<1>1. ASSUME Adopt PROVE PongBodyInv'
  <2>1. /\ core'.pc = "adopt" /\ core'.handled = pingSeq /\ core.pc = "boot"
        /\ UNCHANGED <<pingSeq, pongSeq, pong, restarts>>
    BY <1>1, <1>typ DEF Adopt
  <2>2. ~ToAnswer' /\ Restarting' = Restarting
    BY <2>1 DEF ToAnswer, Restarting
  <2> QED BY <2>1, <2>2, PongKeptStep
<1>2. ASSUME FreeSlot PROVE PongBodyInv'
  <2>1. /\ core'.pc = "poll" /\ core.pc = "adopt" /\ pongSeq' = core.handled
        /\ core.handled \in {pingSeq, pongSeq} /\ UNCHANGED <<pingSeq, pong, restarts>>
    BY <1>2, <1>inv, <1>typ DEF FreeSlot, PongAdopted, CoreGoes, SlotInv
  <2>2. ToAnswer' => ToAnswer
    BY <2>1 DEF ToAnswer
  <2>3. Restarting = 1 /\ Restarting' = 0 /\ Out \in {0, 1} /\ Out' \in {0, 1} /\ Out <= Out' + 1
    BY <2>1 DEF Restarting, Out
  <2>4. pong.body # NoBody => d + 1 <= restarts + Out
    BY <1>inv, <2>3 DEF PongBodyInv
  <2>5. pong.body # NoBody => d + Restarting' <= restarts + Out'
    <3> HIDE DEF d
    <3> QED BY <1>typ, <1>dst, <2>3, <2>4
  <2> QED BY <1>inv, <2>1, <2>2, <2>5 DEF PongBodyInv
<1>3. ASSUME See \/ PongHeader PROVE PongBodyInv'
  <2>1. /\ core.pc \in {"poll", "check"} /\ core'.pc \in {"check", "body"}
        /\ UNCHANGED <<pingSeq, pongSeq, restarts>> /\ pong'.body = pong.body
    BY <1>3, <1>typ DEF See, PongHeader
  <2>2. (ToAnswer' => ToAnswer) /\ Restarting' = Restarting
    BY <2>1 DEF ToAnswer, Restarting
  <2> QED BY <2>1, <2>2, PongKeptStep
<1>4. ASSUME PongBody PROVE PongBodyInv'
  <2>1. /\ core.pc = "body" /\ core'.pc = "publish" /\ pong'.body = ping.body
        /\ pingSeq # pongSeq /\ UNCHANGED <<pingSeq, pongSeq, ping, restarts>>
    BY <1>4, <1>inv, <1>typ DEF PongBody, CoreGoes, SlotInv
  <2>2. pong'.body # NoBody => pong'.body = pingSeq
    BY <1>inv, <2>1 DEF PingBodyInv
  <2>3. ~ToAnswer' /\ Restarting' = 0 /\ Out' = 1
    BY <2>1 DEF ToAnswer, Restarting, Out
  <2>4. Dist(pingSeq, pingSeq) = 0
    BY <1>typ, DistFacts
  <2> QED BY <1>typ, <2>1, <2>2, <2>3, <2>4 DEF PongBodyInv
<1>5. ASSUME Publish PROVE PongBodyInv'
  <2>1. /\ core.pc = "publish" /\ core'.pc = "ring" /\ pongSeq' = pingSeq
        /\ UNCHANGED <<pingSeq, pong, restarts>>
    BY <1>5, <1>inv, <1>typ DEF Publish, PongComplete, CoreGoes, SlotInv
  <2>2. pong.body # NoBody => pong.body = pingSeq
    BY <1>inv, <2>1 DEF PongBodyInv
  <2>3. ~ToAnswer' /\ Restarting' = 0 /\ Out' = 0
    BY <2>1 DEF ToAnswer, Restarting, Out
  <2>4. Dist(pingSeq, pingSeq) = 0
    BY <1>typ, DistFacts
  <2> QED BY <1>typ, <2>1, <2>2, <2>3, <2>4 DEF PongBodyInv
<1>6. ASSUME Ring PROVE PongBodyInv'
  <2>1. /\ core.pc = "ring" /\ core'.pc = "poll" /\ UNCHANGED <<pingSeq, pongSeq, pong, restarts>>
    BY <1>6, <1>typ DEF Ring
  <2>2. (ToAnswer' => ToAnswer) /\ Restarting' = Restarting
    BY <2>1 DEF ToAnswer, Restarting
  <2> QED BY <2>1, <2>2, PongKeptStep
<1>7. ASSUME CoreStops PROVE PongBodyInv'
  <2>1. /\ core'.pc = "down" /\ restarts' = restarts + 1 /\ UNCHANGED <<pingSeq, pongSeq, pong>>
    BY <1>7, <1>typ DEF CoreStops, CoreGoes
  <2>2. ~ToAnswer' /\ Restarting' = 1 /\ Restarting \in {0, 1} /\ Out' = Out /\ Out \in {0, 1}
    BY <2>1 DEF ToAnswer, Restarting, Out
  <2>3. pong.body # NoBody => d + Restarting <= restarts + Out
    BY <1>inv DEF PongBodyInv
  <2>4. pong.body # NoBody => d + Restarting' <= restarts' + Out'
    <3> HIDE DEF d
    <3> QED BY <1>typ, <1>dst, <2>1, <2>2, <2>3
  <2> QED BY <2>1, <2>2, <2>4 DEF PongBodyInv
<1>8. ASSUME CoreStarts PROVE PongBodyInv'
  <2>1. core.pc = "down" /\ core'.pc = "boot" /\ restarts' = restarts
    BY <1>8, <1>typ DEF CoreStarts, CoreGoes
  <2>2. ~ToAnswer' /\ Restarting' = Restarting
    BY <2>1 DEF ToAnswer, Restarting
  <2>3. CASE pong' = Blank
    BY <2>3 DEF PongBodyInv, Blank
  <2>4. CASE UNCHANGED slot
    BY <2>1, <2>2, <2>4, PongKeptStep
  <2> QED BY <1>8, <2>3, <2>4 DEF CoreStarts
<1>9. ASSUME Post PROVE PongBodyInv'
  <2> SUFFICES ASSUME pong.body # NoBody PROVE PongBodyInv'
    BY <1>9 DEF Post, PongBodyInv
  <2>1. /\ pingSeq = pongSeq /\ pingSeq' = Succ(pingSeq) /\ Succ(pingSeq) # pingSeq
        /\ UNCHANGED <<pongSeq, pong, core, restarts>>
    BY <1>9, <1>inv, <1>typ, SuccFacts DEF Post, SlotInv, Owns, OwnerInv
  <2>2. Out = 0 /\ Out' = 1 /\ Restarting' = Restarting /\ Restarting \in {0, 1}
    BY <2>1 DEF Out, Restarting
  <2>3. d + Restarting <= restarts
    BY <1>inv, <1>typ, <2>2 DEF PongBodyInv
  <2>4. d \in Nat /\ Dist(Succ(pingSeq), pong.body) = IF d + 1 = SeqMod THEN 0 ELSE d + 1
    BY <1>typ, <1>dst, DistFacts
  <2>5. Dist(Succ(pingSeq), pong.body) = d + 1
    <3> HIDE DEF d
    <3> QED BY <1>inv, <1>typ, <2>2, <2>3, <2>4
  <2>6. pong.body # Succ(pingSeq)
    <3>1. Dist(Succ(pingSeq), pong.body) # 0
      <4> HIDE DEF d
      <4> QED BY <2>4, <2>5
    <3> QED BY <1>typ, <3>1, SuccFacts, DistFacts
  <2>7. Dist(Succ(pingSeq), pong.body) + Restarting' <= restarts + Out'
    <3> HIDE DEF d
    <3> QED BY <1>typ, <2>2, <2>3, <2>4, <2>5
  <2>8. core'.pc # "publish"
    BY <1>inv, <2>1 DEF SlotInv
  <2> QED BY <2>1, <2>6, <2>7, <2>8 DEF PongBodyInv
<1>10. ASSUME UNCHANGED <<pingSeq, pongSeq, pong, core, restarts>> PROVE PongBodyInv'
  <2>1. ToAnswer' = ToAnswer /\ Restarting' = Restarting
    BY <1>10 DEF ToAnswer, Restarting
  <2> QED BY <1>10, <2>1, PongKeptStep
<1>11. ASSUME Start \/ Sync \/ Fill \/ Stamp \/ Waits \/ Quit \/ Isr \/ UNCHANGED vars
       PROVE  UNCHANGED <<pingSeq, pongSeq, pong, core, restarts>>
  BY <1>11 DEF Start, Sync, Fill, Stamp, Waits, Spin, Look, Unmask, LookAgain, Wake, Pop,
               Ack, Verify, Quit, Isr, vars
<1> QED
  BY <1>1, <1>2, <1>3, <1>4, <1>5, <1>6, <1>7, <1>8, <1>9, <1>10, <1>11
  DEF Next, Firmware, Program

LEMMA MadeStep ==
  ASSUME EchoInv, [Next]_vars
  PROVE  MadeInv'
<1>inv. TypeOK /\ SlotInv /\ PongBodyInv /\ MadeInv
  BY DEF EchoInv, PingPongInv
<1>typ. /\ host \in HostStates /\ core \in CoreStates /\ pingSeq \in Seqs
        /\ ping \in Packets({"PING"}) /\ pong \in Packets({"PONG", "ERRO"})
  BY <1>inv, EchoTypes
<1> USE DEF slot, line, bound, HostStates, CoreStates, Packets
<1>1. ASSUME PongHeader PROVE MadeInv'
  <2>1. /\ core'.pc = "body" /\ core'.posted = core.posted /\ core'.ok = WellFormed
        /\ pong'.seq = core.posted /\ pong'.body = pong.body
        /\ pong'.magic = IF WellFormed THEN "PONG" ELSE "ERRO"
    BY <1>1, <1>typ DEF PongHeader
  <2>2. core.posted = pingSeq /\ pong.body # pingSeq
    <3>1. core.posted = pingSeq /\ ToAnswer
      BY <1>1, <1>inv DEF PongHeader, SlotInv, ToAnswer
    <3>2. NoBody # pingSeq
      BY <1>typ, ShmPingAssumption DEF Seqs
    <3> QED BY <1>inv, <3>1, <3>2 DEF PongBodyInv
  <2>3. WellFormed \in BOOLEAN
    BY DEF WellFormed
  <2> QED BY <2>1, <2>2, <2>3 DEF MadeInv
<1>2. ASSUME PongBody PROVE MadeInv'
  <2>1. /\ core.pc = "body" /\ core'.pc = "publish"
        /\ pong'.magic = pong.magic /\ pong'.time = pong.time
        /\ made' = IF core.ok THEN made \cup {pong.time} ELSE made
    BY <1>2, <1>typ DEF PongBody, CoreGoes
  <2> QED BY <1>inv, <2>1 DEF MadeInv
<1>3. ASSUME CoreStarts PROVE MadeInv'
  BY <1>3, <1>inv, <1>typ DEF CoreStarts, CoreGoes, Blank, MadeInv
<1>4. ASSUME UNCHANGED <<pong, made>>, core'.pc # "body" \/ UNCHANGED core PROVE MadeInv'
  BY <1>4, <1>inv DEF MadeInv
<1>5. ASSUME Adopt \/ FreeSlot \/ See \/ Publish \/ Ring \/ CoreStops
      PROVE  UNCHANGED <<pong, made>> /\ core'.pc # "body"
  BY <1>5, <1>typ DEF Adopt, FreeSlot, See, Publish, Ring, CoreStops, CoreGoes
<1>6. ASSUME Program \/ Isr \/ UNCHANGED vars PROVE UNCHANGED <<pong, made, core>>
  BY <1>6 DEF Program, Start, Sync, Fill, Stamp, Post, Waits, Spin, Look, Unmask, LookAgain,
              Wake, Pop, Ack, Verify, Quit, Isr, vars
<1> QED BY <1>1, <1>2, <1>3, <1>4, <1>5, <1>6 DEF Next, Firmware

(* Whatever is cut short by restarts, a pong whose header and payload agree *)
(* was made: fewer restarts than there are sequence numbers (2^32) cannot   *)
(* bring an old payload's number back.                                      *)
THEOREM EchoInvariant ==
  ASSUME MaxRestarts + 1 < SeqMod
  PROVE  Spec => []EchoInv
<1>1. EchoInv /\ [Next]_vars => EchoInv'
  <2> SUFFICES ASSUME EchoInv, [Next]_vars PROVE EchoInv' OBVIOUS
  <2>1. PingPongInv'
    BY PingPongStep DEF EchoInv
  <2> QED BY <2>1, OwnerStep, PingBodyStep, PongBodyStep, MadeStep DEF EchoInv
<1> QED BY <1>1, EchoInit, PTL DEF Spec

(* A pong that a program accepts was made by the E906 from this very ping,  *)
(* across restarts of both sides at any step.                               *)
THEOREM AcceptedPongsWereMade ==
  ASSUME MaxRestarts + 1 < SeqMod
  PROVE  Spec => AcceptedWasMade
<1>1. ASSUME EchoInv, [Next]_vars
      PROVE  [host.pc = "verify" /\ host'.pc = "ready" => host.time \in made]_vars
  <2> SUFFICES ASSUME host.pc = "verify", host'.pc = "ready" PROVE host.time \in made
    OBVIOUS
  <2>1. host \in HostStates /\ MadeInv
    BY <1>1, EchoTypes DEF EchoInv, PingPongInv
  <2>2. host' = host \/ Start \/ Verify \/ Quit
    BY <1>1 DEF Next, Firmware, Adopt, FreeSlot, See, PongHeader, PongBody, Publish, Ring,
                CoreStops, CoreStarts, Program, Waits, Sync, Fill, Stamp, Post, Spin, Look,
                Unmask, LookAgain, Wake, Pop, Ack, Isr, vars
  <2>3. Verify /\ Genuine
    BY <2>1, <2>2 DEF Start, Verify, Quit, HostGoes, HostStates
  <2> QED BY <2>1, <2>3 DEF Genuine, MadeInv
<1> QED BY <1>1, EchoInvariant, PTL DEF Spec, AcceptedWasMade
=============================================================================
