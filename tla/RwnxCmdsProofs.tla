--------------------------- MODULE RwnxCmdsProofs ---------------------------
(***************************************************************************)
(* Proofs about RwnxCmds for any number of callers, slots, kinds of        *)
(* messages and sends.                                                     *)
(*                                                                         *)
(* SlotInv says who holds a slot of cmd_array at each place of its life:   *)
(* its caller before it is queued, the queue, then whoever sends it; it is *)
(* inductive and gives the types and SlotsOwned.  On top of it FlightInv   *)
(* says that the buffer and the firmware hold the message of the queue's   *)
(* head and of no other command, so that a match by id alone finds the     *)
(* right one.  It holds until a message is written over an unsent one      *)
(* (mixed), and after a crash only while a caller waits for a command it   *)
(* sent itself (Active): the work does go on to the next command then.     *)
(***************************************************************************)
EXTENDS RwnxCmds, SequenceTheorems, WellFoundedInduction, TLAPS

Early(p)   == pc[p] \in {"empty", "queue"}
Sending(p) == pc[p] \in {"write", "submit", "wait", "timedout"}
Distinct(q) == \A i, j \in DOMAIN q : q[i] = q[j] => i = j

(* What is in the queue was queued by its holder and not completed since.   *)
QueueInv ==
  /\ Distinct(cmds)
  /\ \A i \in DOMAIN cmds : /\ cmd[cmds[i]].used = TRUE
                            /\ cmd[cmds[i]].cfm = TRUE
                            /\ cmd[cmds[i]].complete = FALSE
                            /\ cmd[cmds[i]].id # "silent"
                            /\ crashed = FALSE /\ i > 1 => cmd[cmds[i]].push = TRUE

(* Who holds a slot: before it is queued, its caller; while its message is  *)
(* sent and awaited, the caller if the command was never deferred, the work *)
(* if it was.  DONE may be left over from an earlier use, but never missing.*)
HolderInv ==
  /\ \A s \in Slots : cmd[s].used = FALSE =>
       cmd[s].push = FALSE /\ cmd[s].complete = FALSE
  /\ \A p \in Procs : Uses(p) => cmd[at[p]].used = TRUE
  /\ \A p, q \in Procs : Uses(p) /\ Uses(q) /\ at[p] = at[q] => p = q
  /\ \A p \in Procs : Early(p) => /\ ~Queued(at[p]) /\ cmd[at[p]].push = FALSE
                                  /\ cmd[at[p]].id # "silent"
  /\ \A p \in Procs : Sending(p) /\ (p = Worker => pc[p] # "write")
                        => cmd[at[p]].push = FALSE
  /\ \A p \in Procs : pc[p] \in {"wait", "timedout"} => cmd[at[p]].id # "silent"
  /\ \A p \in Procs : Sending(p) /\ Queued(at[p]) => at[p] = cmds[1]
  /\ \A p \in Procs : Sending(p) /\ cmd[at[p]].id # "silent" /\ cmd[at[p]].done = FALSE
                        => Queued(at[p])

SlotInv == TypeOK /\ QueueInv /\ HolderInv

(* What is on its way to the firmware or back, as long as no message was    *)
(* written over an unsent one: nothing, or the head of the queue alone.     *)
Msg(s)     == [id |-> cmd[s].id, tkn |-> cmd[s].tkn]
Loud(m)    == m.id # "silent"
Loaded     == txstate = TRUE /\ txHeld = FALSE
Readies(p) == pc[p] \in {"write", "submit"} /\ cmd[at[p]].id # "silent"
Awaited(m) == /\ cmds # << >> /\ m = Msg(cmds[1]) /\ cmd[cmds[1]].push = FALSE
              /\ \A p \in Procs : ~Readies(p)

BufferInv ==
  /\ \A p \in Procs : pc[p] = "submit" => buf = Msg(at[p]) /\ ~Loaded
  /\ \A p, q \in Procs : pc[p] = "submit" /\ pc[q] = "submit" => p = q

(* After a crash the work may send a command before the last one is         *)
(* answered, but not while a caller waits for one it sent itself.           *)
Active  == \E c \in Callers : Sending(c) /\ cmd[at[c]].id # "silent" /\ Queued(at[c])
Orderly == crashed = FALSE \/ Active

FlightInv ==
  /\ \A p \in Procs : Readies(p) => Queued(at[p])
  /\ \A i \in DOMAIN inbox : Loud(inbox[i]) => /\ Awaited(inbox[i])
                                               /\ ~(Loaded /\ Loud(buf))
  /\ \A i, j \in DOMAIN inbox : Loud(inbox[i]) /\ Loud(inbox[j]) => i = j
  /\ Loaded /\ Loud(buf) => Awaited(buf)

(* Who waits for its command itself gets the confirm of that command.       *)
Answered ==
  \A p \in Procs :
    Sending(p) /\ cmd[at[p]].complete = TRUE /\ (crashed = TRUE => p # Worker)
      => cmd[at[p]].got = cmd[at[p]].tkn

AnswerInv == BufferInv /\ (Orderly => FlightInv) /\ Answered

CmdInv == SlotInv /\ (mixed = FALSE => AnswerInv)

-----------------------------------------------------------------------------
(* Removing the only occurrence of a member keeps all others, in order.     *)
LEMMA Removal ==
  ASSUME cmds \in Seq(Slots), Distinct(cmds), NEW s, Queued(s)
  PROVE  /\ Without(s) \in Seq(Slots) /\ Len(Without(s)) = Len(cmds) - 1
         /\ Distinct(Without(s))
         /\ \A i \in DOMAIN Without(s) : \E j \in DOMAIN cmds :
              Without(s)[i] = cmds[j] /\ cmds[j] # s /\ (i > 1 => j > 1)
         /\ \A j \in DOMAIN cmds : cmds[j] # s =>
              \E i \in DOMAIN Without(s) : Without(s)[i] = cmds[j]
<1> DEFINE k == CHOOSE i \in DOMAIN cmds : cmds[i] = s
           a == SubSeq(cmds, 1, k - 1)
           b == SubSeq(cmds, k + 1, Len(cmds))
<1>1. k \in DOMAIN cmds /\ cmds[k] = s
  BY DEF Queued
<1>2. k \in 1 .. Len(cmds) /\ Len(cmds) \in Nat
  BY <1>1
<1>3. \A i \in 1 .. Len(cmds) : cmds[i] \in Slots
  OBVIOUS
<1> HIDE DEF k
<1>4. /\ a \in Seq(Slots) /\ Len(a) = k - 1
      /\ \A i \in 1 .. k - 1 : a[i] = cmds[i]
  <2>1. 1 \in Int /\ k - 1 \in Int /\ \A i \in 1 .. k - 1 : cmds[i] \in Slots
    BY <1>2, <1>3
  <2>2. a \in Seq(Slots)
    BY <2>1, SubSeqProperties
  <2>3. Len(a) = (IF 1 <= k - 1 THEN (k - 1) - 1 + 1 ELSE 0)
    BY <2>1, SubSeqProperties
  <2>4. \A i \in 1 .. (k - 1) - 1 + 1 : a[i] = cmds[1 + i - 1]
    BY <2>1, SubSeqProperties
  <2> QED BY <2>2, <2>3, <2>4, <1>2
<1>5. /\ b \in Seq(Slots) /\ Len(b) = Len(cmds) - k
      /\ \A i \in 1 .. Len(cmds) - k : b[i] = cmds[k + i]
  <2>1. k + 1 \in Int /\ Len(cmds) \in Int /\ \A i \in k + 1 .. Len(cmds) : cmds[i] \in Slots
    BY <1>2, <1>3
  <2>2. b \in Seq(Slots)
    BY <2>1, SubSeqProperties
  <2>3. Len(b) = (IF k + 1 <= Len(cmds) THEN Len(cmds) - (k + 1) + 1 ELSE 0)
    BY <2>1, SubSeqProperties
  <2>4. \A i \in 1 .. Len(cmds) - (k + 1) + 1 : b[i] = cmds[(k + 1) + i - 1]
    BY <2>1, SubSeqProperties
  <2>5. Len(cmds) - (k + 1) + 1 = Len(cmds) - k
    BY <1>2
  <2>6. \A i \in 1 .. Len(cmds) - k : (k + 1) + i - 1 = k + i
    BY <1>2
  <2>7. \A i \in 1 .. Len(cmds) - k : b[i] = cmds[k + i]
    BY <2>4, <2>5, <2>6
  <2> QED BY <2>2, <2>3, <2>7, <1>2
<1> HIDE DEF a, b
<1> DEFINE w == a \o b
<1>6. w \in Seq(Slots) /\ Len(w) = Len(cmds) - 1
  <2>1. w \in Seq(Slots) /\ Len(w) = Len(a) + Len(b)
    BY <1>4, <1>5, ConcatProperties
  <2> QED BY <2>1, <1>2, <1>4, <1>5
<1>7. \A i \in 1 .. Len(cmds) - 1 : w[i] = IF i < k THEN cmds[i] ELSE cmds[i + 1]
  <2>1. \A i \in 1 .. Len(a) + Len(b) :
          w[i] = IF i <= Len(a) THEN a[i] ELSE b[i - Len(a)]
    BY <1>4, <1>5, ConcatProperties
  <2> HIDE DEF w
  <2> SUFFICES ASSUME NEW i \in 1 .. Len(cmds) - 1
               PROVE  w[i] = IF i < k THEN cmds[i] ELSE cmds[i + 1]
    OBVIOUS
  <2>2. i \in 1 .. Len(a) + Len(b)
    BY <1>2, <1>4, <1>5
  <2>3. w[i] = IF i <= k - 1 THEN a[i] ELSE b[i - (k - 1)]
    BY <2>1, <2>2, <1>4
  <2>4. CASE i < k
    <3>1. i \in 1 .. k - 1
      BY <2>4, <1>2
    <3> QED BY <2>3, <2>4, <3>1, <1>2, <1>4
  <2>5. CASE i >= k
    <3>1. i - (k - 1) \in 1 .. Len(cmds) - k /\ k + (i - (k - 1)) = i + 1
      BY <2>5, <1>2
    <3>2. b[i - (k - 1)] = cmds[i + 1]
      BY <3>1, <1>5
    <3> QED BY <2>3, <2>5, <3>2, <1>2
  <2> QED BY <2>4, <2>5, <1>2
<1>8. Without(s) = w
  BY DEF Without, RemoveAt, k, a, b
<1>9. DOMAIN w = 1 .. Len(cmds) - 1 /\ DOMAIN cmds = 1 .. Len(cmds)
  BY <1>6
<1> HIDE DEF w
<1>10. Distinct(w)
  <2> SUFFICES ASSUME NEW i \in 1 .. Len(cmds) - 1, NEW j \in 1 .. Len(cmds) - 1,
                      w[i] = w[j]
               PROVE  i = j
    BY <1>9 DEF Distinct
  <2>1. \A x, y \in 1 .. Len(cmds) : cmds[x] = cmds[y] => x = y
    BY <1>9 DEF Distinct
  <2> QED BY <2>1, <1>7, <1>2
<1>11. \A i \in 1 .. Len(cmds) - 1 : \E j \in 1 .. Len(cmds) :
         w[i] = cmds[j] /\ cmds[j] # s /\ (i > 1 => j > 1)
  <2>1. \A x, y \in 1 .. Len(cmds) : cmds[x] = cmds[y] => x = y
    BY <1>9 DEF Distinct
  <2> SUFFICES ASSUME NEW i \in 1 .. Len(cmds) - 1
               PROVE  \E j \in 1 .. Len(cmds) :
                        w[i] = cmds[j] /\ cmds[j] # s /\ (i > 1 => j > 1)
    OBVIOUS
  <2>2. CASE i < k
    <3>1. i \in 1 .. Len(cmds) /\ w[i] = cmds[i] /\ i # k
      BY <2>2, <1>2, <1>7
    <3> QED BY <3>1, <2>1, <1>1, <1>2
  <2>3. CASE i >= k
    <3>1. i + 1 \in 1 .. Len(cmds) /\ w[i] = cmds[i + 1] /\ i + 1 # k /\ i + 1 > 1
      BY <2>3, <1>2, <1>7
    <3> QED BY <3>1, <2>1, <1>1, <1>2
  <2> QED BY <2>2, <2>3, <1>2
<1>12. \A j \in 1 .. Len(cmds) : cmds[j] # s => \E i \in 1 .. Len(cmds) - 1 : w[i] = cmds[j]
  <2> SUFFICES ASSUME NEW j \in 1 .. Len(cmds), cmds[j] # s
               PROVE  \E i \in 1 .. Len(cmds) - 1 : w[i] = cmds[j]
    OBVIOUS
  <2>1. j # k
    BY <1>1
  <2>2. CASE j < k
    <3>1. j \in 1 .. Len(cmds) - 1 /\ w[j] = cmds[j]
      BY <2>2, <1>2, <1>7
    <3> QED BY <3>1
  <2>3. CASE j > k
    <3>1. j - 1 \in 1 .. Len(cmds) - 1 /\ ~(j - 1 < k) /\ (j - 1) + 1 = j
      BY <2>3, <1>2
    <3>2. w[j - 1] = cmds[j]
      BY <3>1, <1>7
    <3> QED BY <3>1, <3>2
  <2> QED BY <2>1, <2>2, <2>3, <1>2
<1> QED BY <1>6, <1>8, <1>9, <1>10, <1>11, <1>12

(* A set of numbers that is not empty has a least member.                   *)
LEMMA Least ==
  ASSUME NEW S \in SUBSET Nat, S # {}
  PROVE  \E x \in S : \A y \in S : x <= y
<1>1. PICK x \in S : \A y \in S : ~ (<<y, x>> \in OpToRel(<, Nat))
  BY NatLessThanWellFounded, WFMin
<1>2. \A y \in S : ~ (y < x)
  BY <1>1 DEF OpToRel
<1> QED BY <1>2

-----------------------------------------------------------------------------
(* Types *)

(* The work is none of the callers.                                         *)
LEMMA ProcsFacts == Worker \in Procs /\ Callers \subseteq Procs /\ \A t \in Callers : t # Worker
BY RwnxCmdsAssumption DEF Procs, Worker

(* What rwnx_cmd_free() leaves is a command.                                *)
LEMMA FreedType ==
  ASSUME TypeOK, NEW s \in Slots
  PROVE  Freed(s) \in Commands /\ [cmd EXCEPT ![s] = Freed(s)] \in [Slots -> Commands]
<1>1. cmd[s] \in Commands
  BY DEF TypeOK
<1>2. Freed(s) \in Commands
  BY <1>1 DEF Freed, Unused, Commands, AllKinds
<1> QED BY <1>2 DEF TypeOK

(* A caller that allocates a slot gets one that was free.                   *)
LEMMA FirstFreeIsFree ==
  ASSUME NEW s \in Slots, cmd[s].used = FALSE
  PROVE  FirstFree \in Slots /\ ~cmd[FirstFree].used
<1> DEFINE F == {r \in Slots : ~cmd[r].used}
<1>1. F \subseteq Nat /\ F # {}
  BY DEF Slots
<1>2. PICK x \in F : \A y \in F : x <= y
  BY <1>1, Least
<1>3. \A r \in 1 .. x - 1 : cmd[r].used
  BY <1>2, RwnxCmdsAssumption DEF Slots
<1> QED BY <1>3 DEF FirstFree

(* Types, in the initial state.                                             *)
LEMMA TypeInit == Init => TypeOK
<1> SUFFICES ASSUME Init PROVE TypeOK OBVIOUS
<1>1. 1 \in Slots
  BY RwnxCmdsAssumption DEF Slots
<1>2. Unused \in Commands /\ NoMessage \in Messages
  BY DEF Unused, Commands, NoMessage, Messages, AllKinds
<1>3. cmd \in [Slots -> Commands]
  BY <1>2 DEF Init
<1>4. pc \in [Procs -> Places] /\ at \in [Procs -> Slots]
  BY <1>1 DEF Init, Places
<1>5. cmds \in Seq(Slots) /\ Len(cmds) <= MaxQueued /\ inbox \in Seq(Messages)
  BY RwnxCmdsAssumption DEF Init
<1>6. sends \in 0 .. MaxSends /\ fails \in 0 .. MaxFails
  BY RwnxCmdsAssumption DEF Init
<1> QED BY <1>2, <1>3, <1>4, <1>5, <1>6 DEF Init, TypeOK

(* Places, in one step of one process.                                      *)
LEMMA PlaceType ==
  ASSUME TypeOK, NEW p \in Procs, NEW place \in Places, NEW s \in Slots
  PROVE  /\ [pc EXCEPT ![p] = place] \in [Procs -> Places]
         /\ [at EXCEPT ![p] = s] \in [Procs -> Slots]
BY DEF TypeOK

(* Places, when a process goes on or is done with its command.              *)
LEMMA GoesType ==
  ASSUME TypeOK, NEW p \in Procs, NEW place \in Places, Goes(p, place) \/ Done(p, place)
  PROVE  pc' \in [Procs -> Places] /\ at' \in [Procs -> Slots]
<1>1. 1 \in Slots
  BY RwnxCmdsAssumption DEF Slots
<1>2. [pc EXCEPT ![p] = place] \in [Procs -> Places]
      /\ [at EXCEPT ![p] = 1] \in [Procs -> Slots]
  BY <1>1, PlaceType
<1>3. at \in [Procs -> Slots]
  BY DEF TypeOK
<1> QED BY <1>2, <1>3 DEF Goes, Done

(* The confirm of a queued command takes it off the queue.                  *)
LEMMA MsgIndFacts ==
  ASSUME TypeOK, QueueInv, NEW m \in Messages, MsgInd(m)
  PROVE  \/ UNCHANGED mgr
         \/ \E k \in DOMAIN cmds :
              /\ Matches(cmds[k], m) /\ \A j \in DOMAIN cmds : Matches(cmds[j], m) => k <= j
              /\ cmd' = Completed(cmds[k], m) /\ cmds' = Without(cmds[k])
              /\ UNCHANGED <<crashed, next_tkn>>
<1> DEFINE hits == {i \in DOMAIN cmds : Matches(cmds[i], m)}
<1>1. CASE hits = {}
  BY <1>1 DEF MsgInd
<1>2. CASE hits # {}
  <2>1. hits \subseteq Nat
    BY DEF TypeOK
  <2>2. PICK k \in hits : \A j \in hits : k <= j
    BY <1>2, <2>1, Least
  <2> DEFINE first == CHOOSE i \in hits : \A j \in hits : i <= j
  <2>4. first \in hits /\ \A j \in hits : first <= j
    BY <2>2
  <2>5. /\ cmd' = Completed(cmds[first], m) /\ cmds' = Without(cmds[first])
        /\ UNCHANGED <<crashed, next_tkn>>
    BY <1>2 DEF MsgInd
  <2> QED BY <2>4, <2>5
<1> QED BY <1>1, <1>2

(* A step of the receive path, by what it does to the command queue.        *)
LEMMA AnswerFacts ==
  ASSUME TypeOK, QueueInv, Answer
  PROVE  /\ inbox # << >> /\ inbox[1] \in Messages /\ inbox' = Tail(inbox)
         /\ UNCHANGED <<queued, pc, at, bus, seen, bound>>
         /\ \/ UNCHANGED mgr
            \/ \E k \in DOMAIN cmds :
              /\ Loud(inbox[1]) /\ Matches(cmds[k], inbox[1])
              /\ cmd' = Completed(cmds[k], inbox[1]) /\ cmds' = Without(cmds[k])
              /\ UNCHANGED <<crashed, next_tkn>>
<1>1. inbox # << >> /\ inbox' = Tail(inbox) /\ Head(inbox) = inbox[1]
  BY DEF Answer, TypeOK
<1>2. inbox[1] \in Messages
  BY <1>1 DEF TypeOK
<1>3. UNCHANGED <<queued, pc, at, bus, seen, bound>>
  BY DEF Answer
<1>4. CASE inbox[1].id = "silent"
  BY <1>1, <1>2, <1>3, <1>4 DEF Answer
<1>5. CASE inbox[1].id # "silent"
  <2>1. MsgInd(inbox[1])
    BY <1>1, <1>5 DEF Answer
  <2> QED BY <2>1, <1>1, <1>2, <1>3, <1>5, MsgIndFacts DEF Loud
<1> QED BY <1>4, <1>5

(* A timeout takes its command off the queue unless its confirm did.        *)
CrashFacts(p) ==
  /\ pc[p] = "timedout" /\ crashed' = TRUE /\ Done(p, AfterWait(p))
  /\ UNCHANGED <<next_tkn, queued, bus, inbox, seen, bound>>
  /\ \/ UNCHANGED <<cmds, cmd>>
     \/ /\ Queued(at[p]) /\ cmds' = Without(at[p])
        /\ cmds' \in Seq(Slots) /\ Len(cmds') = Len(cmds) - 1
        /\ cmd' = [cmd EXCEPT ![at[p]].done = TRUE]

(* By HolderInv a command that timed out without DONE is in the queue, so   *)
(* the list is left as a list.                                              *)
LEMMA CrashLemma ==
  ASSUME TypeOK, QueueInv, HolderInv, NEW p \in Procs, Crash(p)
  PROVE  CrashFacts(p)
<1>1. cmd[at[p]] \in Commands
  BY DEF TypeOK
<1>2. CASE cmd[at[p]].done = TRUE
  BY <1>2 DEF Crash, CrashFacts
<1>3. CASE cmd[at[p]].done = FALSE
  <2>1. pc[p] = "timedout"
    BY DEF Crash
  <2>2. Queued(at[p])
    BY <1>3, <2>1 DEF HolderInv, Sending
  <2>3. cmds' = Without(at[p]) /\ cmd' = [cmd EXCEPT ![at[p]].done = TRUE]
    BY <1>3 DEF Crash
  <2>4. Without(at[p]) \in Seq(Slots) /\ Len(Without(at[p])) = Len(cmds) - 1
    BY <2>2, Removal DEF TypeOK, QueueInv
  <2> QED BY <2>1, <2>2, <2>3, <2>4 DEF Crash, CrashFacts
<1> QED BY <1>1, <1>2, <1>3 DEF Commands

(* Types, in every step; the work's next command and the timeout need the   *)
(* queue and holder parts.                                                  *)
LEMMA TypeStep == SlotInv /\ [Next]_vars => TypeOK'
<1> SUFFICES ASSUME TypeOK, QueueInv, HolderInv, [Next]_vars PROVE TypeOK'
  BY DEF SlotInv
<1> DEFINE Rest == /\ next_tkn \in Nat /\ crashed \in BOOLEAN /\ queued \in BOOLEAN
                   /\ missed \in BOOLEAN /\ mixed \in BOOLEAN /\ txstate \in BOOLEAN
                   /\ trgg \in BOOLEAN /\ txHeld \in BOOLEAN
                   /\ sends \in 0 .. MaxSends /\ fails \in 0 .. MaxFails
           Queues  == cmds \in Seq(Slots) /\ Len(cmds) <= MaxQueued
           Threads == pc \in [Procs -> Places] /\ at \in [Procs -> Slots]
           Mail    == buf \in Messages /\ inbox \in Seq(Messages)
           Array   == cmd \in [Slots -> Commands]
<1>0. Rest /\ Queues /\ Threads /\ Mail /\ Array
  BY DEF TypeOK
<1>suff. SUFFICES Rest' /\ Queues' /\ Threads' /\ Mail' /\ Array'
  BY DEF TypeOK
<1>num. MaxSends \in Nat /\ MaxFails \in Nat /\ MaxQueued \in Nat /\ MaxQueued > 0
  BY RwnxCmdsAssumption
<1>place. \A x \in {"idle", "empty", "queue", "wake", "check", "scan",
                    "write", "submit", "wait", "timedout"} : x \in Places
  BY DEF Places
<1>1. ASSUME NEW t \in Callers, NEW k \in Kinds[t], Send(t, k)
      PROVE  Rest' /\ Queues' /\ Threads' /\ Mail' /\ Array'
  <2>1. t \in Procs /\ k \in AllKinds
    BY ProcsFacts, RwnxCmdsAssumption
  <2>2. PICK s \in Slots : cmd[s].used = FALSE
    BY <1>1, <1>0 DEF Send, Commands
  <2>3. FirstFree \in Slots
    BY <2>2, FirstFreeIsFree
  <2>4. Array'
    <3>1. cmd' = [cmd EXCEPT ![FirstFree].used = TRUE, ![FirstFree].id = k]
      BY <1>1 DEF Send
    <3>2. [cmd[FirstFree] EXCEPT !.used = TRUE, !.id = k] \in Commands
      BY <1>0, <2>1, <2>3 DEF Commands
    <3> QED BY <1>0, <2>3, <3>1, <3>2
  <2>5. PICK x \in Places : pc' = [pc EXCEPT ![t] = x]
    BY <1>1, <1>place DEF Send
  <2>6. at' = [at EXCEPT ![t] = FirstFree]
    BY <1>1 DEF Send
  <2>7. [pc EXCEPT ![t] = x] \in [Procs -> Places]
        /\ [at EXCEPT ![t] = FirstFree] \in [Procs -> Slots]
    BY <2>1, <2>3, PlaceType
  <2>8. Threads'
    BY <2>5, <2>6, <2>7
  <2>9. Queues' /\ Mail'
    BY <1>0, <1>1 DEF Send, bus
  <2>10. sends' \in 0 .. MaxSends
    BY <1>0, <1>1, <1>num DEF Send
  <2>11. Rest'
    BY <1>0, <1>1, <2>10 DEF Send, bus, seen
  <2> QED BY <2>4, <2>8, <2>9, <2>11
<1>2. ASSUME NEW t \in Callers, WaitEmpty(t)
      PROVE  Rest' /\ Queues' /\ Threads' /\ Mail' /\ Array'
  <2>1. Threads'
    BY <1>2, <1>place, GoesType, ProcsFacts DEF WaitEmpty
  <2> QED BY <1>0, <1>2, <2>1 DEF WaitEmpty, mgr, bus, seen, bound
<1>3. ASSUME NEW t \in Callers, Rejected(t)
      PROVE  Rest' /\ Queues' /\ Threads' /\ Mail' /\ Array'
  <2>1. Threads'
    BY <1>3, <1>place, GoesType, ProcsFacts DEF Rejected
  <2>2. Array'
    BY <1>0, <1>3, FreedType, ProcsFacts DEF Rejected, Free
  <2> QED BY <1>0, <1>3, <2>1, <2>2 DEF Rejected, bus, seen, bound
<1>4. ASSUME NEW t \in Callers, Queue(t)
      PROVE  Rest' /\ Queues' /\ Threads' /\ Mail' /\ Array'
  <2>1. t \in Procs /\ at[t] \in Slots
    BY ProcsFacts, <1>0
  <2>2. PICK x \in Places : Goes(t, x)
    BY <1>4, <1>place DEF Queue
  <2>3. Threads'
    BY <2>1, <2>2, GoesType
  <2>4. cmds' = Append(cmds, at[t]) /\ next_tkn' = next_tkn + 1
    BY <1>4 DEF Queue
  <2>5. Len(cmds) < MaxQueued
    BY <1>0, <1>4, <1>num DEF Queue, Full
  <2>6. Queues'
    BY <1>0, <1>num, <2>1, <2>4, <2>5, AppendProperties
  <2>7. Defers(at[t]) \in BOOLEAN
    BY DEF Defers
  <2>8. Array'
    <3>1. cmd' = [cmd EXCEPT ![at[t]].push = @ \/ Defers(at[t]), ![at[t]].cfm = TRUE,
                             ![at[t]].tkn = next_tkn, ![at[t]].complete = FALSE]
      BY <1>4 DEF Queue
    <3>2. cmd[at[t]] \in Commands
      BY <1>0, <2>1
    <3>3. (cmd[at[t]].push \/ Defers(at[t])) \in BOOLEAN
      OBVIOUS
    <3> QED BY <1>0, <2>1, <3>1, <3>2, <3>3 DEF Commands
  <2> QED BY <1>0, <1>4, <2>3, <2>4, <2>6, <2>8 DEF Queue, bus, seen, bound
<1>5. ASSUME NEW t \in Callers, Wake(t)
      PROVE  Rest' /\ Queues' /\ Threads' /\ Mail' /\ Array'
  <2>1. Threads'
    BY <1>5, <1>place, GoesType, ProcsFacts DEF Wake
  <2>2. queued' \in BOOLEAN /\ missed' \in BOOLEAN
    BY <1>5 DEF Wake
  <2> QED BY <1>0, <1>5, <2>1, <2>2 DEF Wake, mgr, bus, bound
<1>6. ASSUME WorkStarts PROVE Rest' /\ Queues' /\ Threads' /\ Mail' /\ Array'
  <2>1. Threads'
    BY <1>6, <1>place, GoesType, ProcsFacts DEF WorkStarts
  <2> QED BY <1>0, <1>6, <2>1 DEF WorkStarts, mgr, bus, seen, bound
<1>7. ASSUME WorkScans PROVE Rest' /\ Queues' /\ Threads' /\ Mail' /\ Array'
  <2>1. CASE HeadToPush
    <3>1. cmds[1] \in Slots
      BY <1>0, <2>1 DEF HeadToPush
    <3>2. Threads'
      BY <1>7, <2>1, <3>1, <1>place, PlaceType, ProcsFacts DEF WorkScans
    <3> QED BY <1>0, <1>7, <3>2 DEF WorkScans, mgr, bus, seen, bound
  <2>2. CASE ~HeadToPush
    <3>1. Threads'
      BY <1>7, <2>2, <1>place, GoesType, ProcsFacts DEF WorkScans
    <3> QED BY <1>0, <1>7, <3>1 DEF WorkScans, mgr, bus, seen, bound
  <2> QED BY <2>1, <2>2
<1>8. ASSUME NEW p \in Procs, Write(p)
      PROVE  Rest' /\ Queues' /\ Threads' /\ Mail' /\ Array'
  <2>1. Threads'
    BY <1>8, <1>place, GoesType DEF Write
  <2>2. cmd[at[p]] \in Commands /\ at[p] \in Slots
    BY <1>0
  <2>3. buf' \in Messages
    BY <1>8, <2>2 DEF Write, Messages, Commands
  <2>4. Array'
    BY <1>0, <1>8, <2>2 DEF Write, Commands
  <2>5. mixed' \in BOOLEAN
    BY <1>8 DEF Write
  <2> QED BY <1>0, <1>8, <2>1, <2>3, <2>4, <2>5 DEF Write, bound
<1>9. ASSUME NEW p \in Procs, Submit(p)
      PROVE  Rest' /\ Queues' /\ Threads' /\ Mail' /\ Array'
  <2>1. Threads'
    BY <1>9, <1>place, GoesType DEF Submit
  <2>2. Array'
    BY <1>0, <1>9, FreedType DEF Submit, Free
  <2> QED BY <1>0, <1>9, <2>1, <2>2 DEF Submit, seen, bound
<1>10. ASSUME NEW p \in Procs, WaitEnds(p)
      PROVE  Rest' /\ Queues' /\ Threads' /\ Mail' /\ Array'
  <2>1. AfterWait(p) \in Places
    BY <1>place DEF AfterWait
  <2>2. Threads'
    BY <1>10, <2>1, GoesType DEF WaitEnds
  <2>3. Array'
    BY <1>0, <1>10, FreedType DEF WaitEnds, Free
  <2>4. queued' \in BOOLEAN
    BY <1>10 DEF WaitEnds, WakesNext
  <2> QED BY <1>0, <1>10, <2>2, <2>3, <2>4 DEF WaitEnds, bus, seen, bound
<1>11. ASSUME NEW p \in Procs, TimeOut(p)
      PROVE  Rest' /\ Queues' /\ Threads' /\ Mail' /\ Array'
  <2>1. Threads'
    BY <1>11, <1>place, GoesType DEF TimeOut
  <2> QED BY <1>0, <1>11, <2>1 DEF TimeOut, mgr, bus, seen, bound
<1>12. ASSUME NEW p \in Procs, Crash(p)
      PROVE  Rest' /\ Queues' /\ Threads' /\ Mail' /\ Array'
  <2>1. AfterWait(p) \in Places
    BY <1>place DEF AfterWait
  <2>2. Threads'
    BY <1>12, <2>1, GoesType DEF Crash
  <2>3. CrashFacts(p)
    BY <1>12, CrashLemma
  <2>4. CASE UNCHANGED <<cmds, cmd>>
    BY <1>0, <1>12, <2>2, <2>4 DEF Crash, bus, seen, bound
  <2>5. CASE /\ cmds' \in Seq(Slots) /\ Len(cmds') = Len(cmds) - 1
             /\ cmd' = [cmd EXCEPT ![at[p]].done = TRUE]
    <3>1. Len(cmds) \in Nat /\ Len(cmds') \in Nat
      BY <1>0, <2>5
    <3>2. Queues'
      BY <1>0, <1>num, <2>5, <3>1
    <3>3. at[p] \in Slots /\ cmd[at[p]] \in Commands
      BY <1>0
    <3>4. Array'
      BY <1>0, <2>5, <3>3 DEF Commands
    <3> QED BY <1>0, <1>12, <2>2, <3>2, <3>4 DEF Crash, bus, seen, bound
  <2> QED BY <2>3, <2>4, <2>5 DEF CrashFacts
<1>13. ASSUME TxSend PROVE Rest' /\ Queues' /\ Threads' /\ Mail' /\ Array'
  <2>1. inbox' \in {inbox, Append(inbox, buf)} /\ txHeld' \in {txHeld, TRUE}
    BY <1>13 DEF TxSend
  <2>2. Append(inbox, buf) \in Seq(Messages)
    BY <1>0
  <2>3. Mail'
    BY <1>0, <1>13, <2>1, <2>2 DEF TxSend
  <2> QED BY <1>0, <1>13, <2>1, <2>3 DEF TxSend, mgr, seen, bound
<1>14. ASSUME TxFails PROVE Rest' /\ Queues' /\ Threads' /\ Mail' /\ Array'
  <2>1. fails' \in 0 .. MaxFails
    BY <1>0, <1>14, <1>num DEF TxFails
  <2> QED BY <1>0, <1>14, <2>1 DEF TxFails, mgr, seen
<1>15. ASSUME TxDone PROVE Rest' /\ Queues' /\ Threads' /\ Mail' /\ Array'
  BY <1>0, <1>15 DEF TxDone, mgr, seen, bound
<1>16. ASSUME Answer PROVE Rest' /\ Queues' /\ Threads' /\ Mail' /\ Array'
  <2>1. /\ inbox # << >> /\ inbox[1] \in Messages /\ inbox' = Tail(inbox)
        /\ UNCHANGED <<queued, pc, at, bus, seen, bound>>
    BY <1>16, AnswerFacts
  <2>2. Mail' /\ Threads'
    BY <1>0, <2>1 DEF bus
  <2>3. CASE UNCHANGED mgr
    BY <1>0, <2>1, <2>2, <2>3 DEF mgr, bus, seen, bound
  <2>4. CASE ~UNCHANGED mgr
    <3>1. PICK k \in DOMAIN cmds :
            /\ cmd' = Completed(cmds[k], inbox[1]) /\ cmds' = Without(cmds[k])
            /\ UNCHANGED <<crashed, next_tkn>>
      BY <1>16, <2>4, AnswerFacts
    <3>2. cmds[k] \in Slots /\ Queued(cmds[k]) /\ Distinct(cmds)
      BY <1>0 DEF Queued, QueueInv
    <3>3. Queues'
      <4>1. Without(cmds[k]) \in Seq(Slots) /\ Len(Without(cmds[k])) = Len(cmds) - 1
        BY <1>0, <3>2, Removal
      <4>2. cmds' \in Seq(Slots) /\ Len(cmds') = Len(cmds) - 1 /\ Len(cmds) \in Nat
        BY <1>0, <3>1, <4>1
      <4> QED BY <1>0, <1>num, <4>2
    <3>4. Array'
      <4>1. cmd[cmds[k]] \in Commands /\ inbox[1].tkn \in Nat
        BY <1>0, <2>1, <3>2 DEF Messages
      <4>2. cmd' = [cmd EXCEPT ![cmds[k]].cfm = FALSE, ![cmds[k]].done = TRUE,
                               ![cmds[k]].complete = TRUE, ![cmds[k]].got = inbox[1].tkn]
        BY <3>1 DEF Completed
      <4> QED BY <1>0, <3>2, <4>1, <4>2 DEF Commands
    <3> QED BY <1>0, <2>1, <2>2, <3>1, <3>3, <3>4 DEF bus, seen, bound
  <2> QED BY <2>3, <2>4
<1>17. CASE UNCHANGED vars
  BY <1>0, <1>17 DEF vars, mgr, bus, seen, bound
<1> QED BY <1>1, <1>2, <1>3, <1>4, <1>5, <1>6, <1>7, <1>8, <1>9, <1>10, <1>11,
           <1>12, <1>13, <1>14, <1>15, <1>16, <1>17 DEF Next, Call, Push, Work, Tx


-----------------------------------------------------------------------------
(* Slots *)

(* The queue and holder parts, in the initial state.                        *)
LEMMA SlotInit == Init => QueueInv /\ HolderInv
<1> SUFFICES ASSUME Init PROVE QueueInv /\ HolderInv OBVIOUS
<1>1. QueueInv
  BY DEF Init, QueueInv, Distinct
<1>2. \A p \in Procs : pc[p] = "idle"
  BY DEF Init
<1>3. \A s \in Slots : cmd[s].push = FALSE /\ cmd[s].complete = FALSE
  BY DEF Init, Unused
<1>4. HolderInv
  BY <1>2, <1>3 DEF HolderInv, Uses, Early, Sending
<1> QED BY <1>1, <1>4

(* What the invariant says of the place and the command of one process.     *)
Holds(p) ==
  /\ Uses(p) => cmd[at[p]].used = TRUE
  /\ Early(p) => /\ ~Queued(at[p]) /\ cmd[at[p]].push = FALSE
                 /\ cmd[at[p]].id # "silent"
  /\ Sending(p) /\ (p = Worker => pc[p] # "write") => cmd[at[p]].push = FALSE
  /\ pc[p] \in {"wait", "timedout"} => cmd[at[p]].id # "silent"
  /\ Sending(p) /\ Queued(at[p]) => at[p] = cmds[1]
  /\ Sending(p) /\ cmd[at[p]].id # "silent" /\ cmd[at[p]].done = FALSE => Queued(at[p])

FreeSlots == \A s \in Slots : cmd[s].used = FALSE =>
               cmd[s].push = FALSE /\ cmd[s].complete = FALSE
OneHolder == \A p, q \in Procs : Uses(p) /\ Uses(q) /\ at[p] = at[q] => p = q

(* HolderInv, with its parts about one process put together.                *)
LEMMA HolderParts == HolderInv <=> FreeSlots /\ OneHolder /\ \A p \in Procs : Holds(p)
BY DEF HolderInv, FreeSlots, OneHolder, Holds

(* A process that does not move keeps what it holds as long as nobody       *)
(* changes its command, or queues it or others ahead of it.                 *)
LEMMA HoldsKept ==
  ASSUME NEW q \in Procs, Holds(q), pc'[q] = pc[q], at'[q] = at[q],
         cmd'[at[q]] = cmd[at[q]],
         (\E i \in DOMAIN cmds' : cmds'[i] = at[q]) <=> Queued(at[q]),
         Queued(at[q]) /\ at[q] = cmds[1] => at[q] = cmds'[1]
  PROVE  Holds(q)'
BY DEF Holds, Uses, Early, Sending, Queued

(* Freeing a command that is not queued and that one process lets go.       *)
LEMMA FreeKeeps ==
  ASSUME TypeOK, QueueInv, FreeSlots, OneHolder, \A p \in Procs : Holds(p),
         NEW t \in Procs, Uses(t), ~Queued(at[t]),
         cmd' = [cmd EXCEPT ![at[t]] = Freed(at[t])], UNCHANGED <<cmds, crashed>>,
         \A q \in Procs : q # t => pc'[q] = pc[q] /\ at'[q] = at[q],
         pc'[t] \in {"idle", "scan"}
  PROVE  QueueInv' /\ FreeSlots' /\ OneHolder' /\ \A p \in Procs : Holds(p)'
<1>1. at[t] \in Slots /\ cmd'[at[t]] = Freed(at[t])
      /\ \A r \in Slots : r # at[t] => cmd'[r] = cmd[r]
  BY DEF TypeOK
<1>2. cmd'[at[t]].push = FALSE /\ cmd'[at[t]].complete = FALSE
  BY <1>1 DEF Freed, Unused
<1>3. \A i \in DOMAIN cmds : cmds[i] \in Slots /\ cmds[i] # at[t]
  BY DEF Queued, TypeOK
<1>4. QueueInv'
  BY <1>1, <1>3 DEF QueueInv, Distinct
<1>5. FreeSlots'
  BY <1>1, <1>2 DEF FreeSlots
<1>6. OneHolder' /\ Holds(t)'
  BY DEF OneHolder, Uses, Holds, Early, Sending
<1>7. \A q \in Procs : q # t => Holds(q)'
  <2> SUFFICES ASSUME NEW q \in Procs, q # t PROVE Holds(q)' OBVIOUS
  <2>1. CASE Uses(q)
    <3>1. at[q] # at[t] /\ at[q] \in Slots
      BY <2>1 DEF OneHolder, TypeOK
    <3> QED BY <1>1, <3>1, HoldsKept DEF Queued
  <2>2. CASE ~Uses(q)
    BY <2>2 DEF Holds, Uses, Early, Sending
  <2> QED BY <2>1, <2>2
<1> QED BY <1>4, <1>5, <1>6, <1>7

(* Taking a command off the queue, with the flags its confirm or its        *)
(* timeout leaves; its holder, if any, is sending it.                       *)
LEMMA RemovalKeeps ==
  ASSUME TypeOK, QueueInv, FreeSlots, \A p \in Procs : Holds(p),
         NEW s \in Slots, Queued(s), cmds' = Without(s), crashed' \in {crashed, TRUE},
         \A r \in Slots : r # s => cmd'[r] = cmd[r],
         cmd'[s].used = cmd[s].used, cmd'[s].push = cmd[s].push,
         cmd'[s].id = cmd[s].id, cmd'[s].done = TRUE
  PROVE  /\ QueueInv' /\ FreeSlots'
         /\ \A q \in Procs : pc'[q] = pc[q] /\ at'[q] = at[q] => Holds(q)'
<1>0. cmds \in Seq(Slots) /\ Distinct(cmds) /\ crashed \in BOOLEAN
  BY DEF TypeOK, QueueInv
<1>1. /\ Distinct(cmds')
      /\ \A i \in DOMAIN cmds' : \E j \in DOMAIN cmds :
           cmds'[i] = cmds[j] /\ cmds[j] # s /\ (i > 1 => j > 1)
      /\ \A j \in DOMAIN cmds : cmds[j] # s => \E i \in DOMAIN cmds' : cmds'[i] = cmds[j]
      /\ DOMAIN cmds' \subseteq Nat \ {0} /\ DOMAIN cmds \subseteq Nat \ {0}
      /\ \A j \in DOMAIN cmds : cmds[j] \in Slots
  BY <1>0, Removal
<1>2. QueueInv'
  <2>1. ASSUME NEW i \in DOMAIN cmds'
        PROVE  /\ cmd'[cmds'[i]].used = TRUE /\ cmd'[cmds'[i]].cfm = TRUE
               /\ cmd'[cmds'[i]].complete = FALSE /\ cmd'[cmds'[i]].id # "silent"
               /\ crashed' = FALSE /\ i > 1 => cmd'[cmds'[i]].push = TRUE
    <3>1. PICK j \in DOMAIN cmds : cmds'[i] = cmds[j] /\ cmds[j] # s /\ (i > 1 => j > 1)
      BY <1>1, <2>1
    <3>2. cmd'[cmds'[i]] = cmd[cmds[j]]
      BY <1>1, <3>1
    <3> QED BY <1>0, <3>1, <3>2 DEF QueueInv
  <2> QED BY <1>1, <2>1 DEF QueueInv, Distinct
<1>3. FreeSlots'
  <2>1. cmd[s].used = TRUE
    BY DEF Queued, QueueInv
  <2> QED BY <2>1 DEF FreeSlots
<1>4. ASSUME NEW q \in Procs, pc'[q] = pc[q], at'[q] = at[q]
      PROVE  Holds(q)'
  <2>0. at[q] \in Slots
    BY DEF TypeOK
  <2>1. CASE at[q] = s
    <3>1. ~ \E i \in DOMAIN cmds' : cmds'[i] = s
      BY <1>1
    <3> QED BY <1>4, <2>1, <3>1 DEF Holds, Uses, Early, Sending, Queued
  <2>2. CASE at[q] # s
    <3>1. (\E i \in DOMAIN cmds' : cmds'[i] = at[q]) <=> Queued(at[q])
      BY <1>1, <2>2 DEF Queued
    <3>2. ASSUME Queued(at[q]), at[q] = cmds[1] PROVE at[q] = cmds'[1]
      <4>1. 1 \in DOMAIN cmds
        BY <1>0, <3>2 DEF Queued
      <4>2. PICK i \in DOMAIN cmds' : cmds'[i] = cmds[1]
        BY <1>1, <2>2, <3>2, <4>1
      <4>3. PICK j \in DOMAIN cmds : cmds[1] = cmds[j] /\ (i > 1 => j > 1)
        BY <1>1, <4>2
      <4>4. j = 1
        BY <1>0, <4>1, <4>3 DEF Distinct
      <4>5. i = 1
        BY <1>1, <4>3, <4>4
      <4> QED BY <3>2, <4>2, <4>5
    <3> QED BY <1>4, <2>0, <2>2, <3>1, <3>2, HoldsKept
  <2> QED BY <2>1, <2>2
<1> QED BY <1>2, <1>3, <1>4

(* A caller allocates, queues or gives up its command.                      *)
LEMMA SlotStepCaller ==
  ASSUME SlotInv, NEW t \in Callers, Call(t) \/ \E k \in Kinds[t] : Send(t, k)
  PROVE  QueueInv' /\ HolderInv'
<1>0. TypeOK /\ QueueInv /\ FreeSlots /\ OneHolder /\ \A p \in Procs : Holds(p)
  BY HolderParts DEF SlotInv
<1>t. t \in Procs /\ t # Worker /\ at[t] \in Slots /\ cmd[at[t]] \in Commands
  BY <1>0, ProcsFacts DEF TypeOK
<1>goal. SUFFICES QueueInv' /\ FreeSlots' /\ OneHolder' /\ \A p \in Procs : Holds(p)'
  BY DEF HolderInv, FreeSlots, OneHolder, Holds
<1>1. CASE \E k \in Kinds[t] : Send(t, k)
  <2>1. PICK k \in Kinds[t] : Send(t, k)
    BY <1>1
  <2> DEFINE n == FirstFree
  <2>2. n \in Slots /\ cmd[n].used = FALSE /\ k \in AllKinds
    <3>1. PICK s \in Slots : ~cmd[s].used
      BY <2>1 DEF Send
    <3>2. cmd[s].used = FALSE
      BY <1>0, <3>1 DEF TypeOK, Commands
    <3>3. n \in Slots /\ ~cmd[n].used
      BY <3>2, FirstFreeIsFree
    <3>4. cmd[n].used = FALSE
      BY <1>0, <3>3 DEF TypeOK, Commands
    <3> QED BY <3>3, <3>4, RwnxCmdsAssumption
  <2> HIDE DEF n
  <2>3. /\ cmd' = [cmd EXCEPT ![n].used = TRUE, ![n].id = k]
        /\ at' = [at EXCEPT ![t] = n]
        /\ UNCHANGED <<cmds, crashed>>
    BY <2>1 DEF Send, n
  <2>4. \A s \in Slots : s # n => cmd'[s] = cmd[s]
    BY <1>0, <2>2, <2>3 DEF TypeOK
  <2>5. /\ cmd'[n].used = TRUE /\ cmd'[n].id = k
        /\ cmd'[n].push = cmd[n].push /\ cmd'[n].complete = cmd[n].complete
        /\ cmd'[n].done = cmd[n].done
    BY <1>0, <2>2, <2>3 DEF TypeOK, Commands
  <2>6. ~Queued(n) /\ \A p \in Procs : Uses(p) => at[p] # n
    BY <1>0, <2>2 DEF Queued, QueueInv, Holds
  <2>7. QueueInv'
    <3>1. \A i \in DOMAIN cmds : cmds[i] \in Slots /\ cmds[i] # n
      BY <1>0, <2>6 DEF Queued, TypeOK
    <3>2. \A i \in DOMAIN cmds : cmd'[cmds[i]] = cmd[cmds[i]]
      BY <2>4, <3>1
    <3>3. QueueInv /\ cmds' = cmds /\ crashed' = crashed
      BY <1>0, <2>3
    <3> QED BY <3>2, <3>3 DEF QueueInv, Distinct
  <2>8. FreeSlots'
    BY <1>0, <2>2, <2>4, <2>5 DEF FreeSlots
  <2>9. \A q \in Procs : q # t => pc'[q] = pc[q] /\ at'[q] = at[q]
    BY <1>0, <2>1, <2>3 DEF Send, TypeOK
  <2>10. at'[t] = n
    BY <1>0, <1>t, <2>3 DEF TypeOK
  <2>11. OneHolder'
    BY <1>0, <2>6, <2>9, <2>10 DEF OneHolder, Uses
  <2>12. \A q \in Procs : q # t => Holds(q)'
    <3> SUFFICES ASSUME NEW q \in Procs, q # t PROVE Holds(q)' OBVIOUS
    <3>1. CASE Uses(q)
      <4>1. at[q] \in Slots /\ at[q] # n
        BY <1>0, <2>6, <3>1 DEF TypeOK
      <4> QED BY <1>0, <2>3, <2>4, <2>9, <4>1, HoldsKept DEF Queued
    <3>2. CASE ~Uses(q)
      BY <2>9, <3>2 DEF Holds, Uses, Early, Sending
    <3> QED BY <3>1, <3>2
  <2>13. pc'[t] = CASE k = "wanted" -> "empty" [] k = "silent" -> "write"
                    [] OTHER -> "queue"
    BY <1>0, <1>t, <2>1 DEF Send, TypeOK
  <2>14. Holds(t)'
    <3>1. CASE k = "silent"
      BY <1>0, <1>t, <2>2, <2>3, <2>5, <2>6, <2>10, <2>13, <3>1
         DEF Holds, Uses, Early, Sending, Queued, FreeSlots
    <3>2. CASE k # "silent"
      <4>1. pc'[t] \in {"empty", "queue"}
        BY <2>13, <3>2
      <4> QED BY <1>0, <1>t, <2>2, <2>3, <2>5, <2>6, <2>10, <3>2, <4>1
              DEF Holds, Uses, Early, Sending, Queued, FreeSlots
    <3> QED BY <3>1, <3>2
  <2> QED BY <2>7, <2>8, <2>11, <2>12, <2>14
<1>2. CASE WaitEmpty(t) \/ Wake(t)
  <2>1. UNCHANGED <<cmds, cmd, crashed>>
    BY <1>2 DEF WaitEmpty, Wake, mgr
  <2>2. \A q \in Procs : q # t => pc'[q] = pc[q] /\ at'[q] = at[q]
    BY <1>0, <1>2 DEF WaitEmpty, Wake, Goes, Done, TypeOK
  <2>3. \/ pc[t] = "empty" /\ pc'[t] = "queue" /\ at'[t] = at[t]
        \/ pc'[t] = "idle"
    BY <1>0, <1>t, <1>2 DEF WaitEmpty, Wake, Goes, Done, TypeOK
  <2>4. QueueInv' /\ FreeSlots'
    BY <1>0, <2>1 DEF QueueInv, FreeSlots, Distinct
  <2>5. OneHolder'
    BY <1>0, <1>t, <2>2, <2>3 DEF OneHolder, Uses
  <2>6. \A q \in Procs : q # t => Holds(q)'
    BY <1>0, <2>1, <2>2, HoldsKept DEF Queued
  <2>7. Holds(t)'
    BY <1>0, <1>t, <2>1, <2>3 DEF Holds, Uses, Early, Sending, Queued
  <2> QED BY <2>4, <2>5, <2>6, <2>7
<1>3. CASE Rejected(t)
  <2>1. pc[t] = "queue" /\ cmd' = [cmd EXCEPT ![at[t]] = Freed(at[t])]
        /\ UNCHANGED <<cmds, crashed>>
    BY <1>3 DEF Rejected, Free
  <2>2. (\A q \in Procs : q # t => pc'[q] = pc[q] /\ at'[q] = at[q]) /\ pc'[t] = "idle"
    BY <1>0, <1>t, <1>3 DEF Rejected, Done, TypeOK
  <2>3. ~Queued(at[t]) /\ Uses(t)
    BY <1>0, <1>t, <2>1 DEF Holds, Early, Uses
  <2> QED BY <1>0, <1>t, <2>1, <2>2, <2>3, FreeKeeps
<1>4. CASE Queue(t)
  <2> DEFINE s == at[t]
             e == cmd[s].push \/ Defers(s)
  <2>1. pc[t] = "queue" /\ cmds' = Append(cmds, s) /\ crashed = FALSE /\ crashed' = FALSE
    BY <1>0, <1>4 DEF Queue, TypeOK
  <2>2. ~Queued(s) /\ cmd[s].used = TRUE /\ cmd[s].push = FALSE /\ cmd[s].id # "silent"
    BY <1>0, <1>t, <2>1 DEF Holds, Uses, Early
  <2>3. cmds # << >> => Defers(s)
    <3> SUFFICES ASSUME cmds # << >> PROVE Defers(s) OBVIOUS
    <3>1. Len(cmds) \in DOMAIN cmds
      BY <1>0 DEF TypeOK
    <3>2. cmd[cmds[Len(cmds)]].cfm = TRUE
      BY <1>0, <3>1 DEF QueueInv
    <3> QED BY <3>2 DEF Defers, Busy
  <2>4. /\ cmd'[s].push = e /\ cmd'[s].cfm = TRUE /\ cmd'[s].complete = FALSE
        /\ cmd'[s].used = TRUE /\ cmd'[s].id = cmd[s].id /\ cmd'[s].done = cmd[s].done
        /\ \A r \in Slots : r # s => cmd'[r] = cmd[r]
    <3>1. cmd' = [cmd EXCEPT ![s].push = @ \/ Defers(s), ![s].cfm = TRUE,
                             ![s].tkn = next_tkn, ![s].complete = FALSE]
      BY <1>4 DEF Queue
    <3> QED BY <1>0, <1>t, <2>2, <3>1 DEF TypeOK, Commands
  <2>5. cmd'[s].push = TRUE \/ (cmds = << >> /\ cmd'[s].push = FALSE)
    BY <2>2, <2>3, <2>4
  <2>6. /\ \A q \in Procs : q # t => pc'[q] = pc[q]
        /\ at' = at
        /\ pc'[t] \in {"write", "wake", "check"}
        /\ pc'[t] = "write" => cmds = << >> /\ cmd'[s].push = FALSE
    <3> DEFINE x == CASE ~Defers(s) -> "write" [] cmd[s].id = "deferred" -> "wake"
                      [] OTHER -> "check"
    <3>1. Goes(t, x)
      BY <1>4 DEF Queue
    <3>2. pc' = [pc EXCEPT ![t] = x] /\ at' = at
      BY <3>1 DEF Goes
    <3>3. x \in {"write", "wake", "check"} /\ (x = "write" => ~Defers(s))
      OBVIOUS
    <3> HIDE DEF x
    <3>4. pc'[t] = x /\ \A q \in Procs : q # t => pc'[q] = pc[q]
      BY <1>0, <1>t, <3>2 DEF TypeOK
    <3> QED BY <2>2, <2>3, <2>4, <3>2, <3>3, <3>4
  <2>7. /\ Len(cmds') = Len(cmds) + 1 /\ cmds'[Len(cmds) + 1] = s
        /\ \A i \in 1 .. Len(cmds) : cmds'[i] = cmds[i]
        /\ DOMAIN cmds' = 1 .. Len(cmds) + 1 /\ DOMAIN cmds = 1 .. Len(cmds)
        /\ Len(cmds) \in Nat
    BY <1>0, <1>t, <2>1, AppendProperties DEF TypeOK
  <2>8. \A i \in 1 .. Len(cmds) : cmds[i] # s /\ cmds[i] \in Slots
    BY <1>0, <2>2, <2>7 DEF Queued, TypeOK
  <2>9. QueueInv'
    <3>1. Distinct(cmds')
      <4> SUFFICES ASSUME NEW i \in 1 .. Len(cmds) + 1, NEW j \in 1 .. Len(cmds) + 1,
                          cmds'[i] = cmds'[j]
                   PROVE  i = j
        BY <2>7 DEF Distinct
      <4>1. \A x, y \in 1 .. Len(cmds) : cmds[x] = cmds[y] => x = y
        BY <1>0, <2>7 DEF QueueInv, Distinct
      <4>2. i \in 1 .. Len(cmds) \/ i = Len(cmds) + 1
        BY <2>7
      <4>3. j \in 1 .. Len(cmds) \/ j = Len(cmds) + 1
        BY <2>7
      <4> QED BY <2>7, <2>8, <4>1, <4>2, <4>3
    <3>2. ASSUME NEW i \in DOMAIN cmds'
          PROVE  /\ cmd'[cmds'[i]].used = TRUE /\ cmd'[cmds'[i]].cfm = TRUE
                 /\ cmd'[cmds'[i]].complete = FALSE /\ cmd'[cmds'[i]].id # "silent"
                 /\ i > 1 => cmd'[cmds'[i]].push = TRUE
      <4>1. CASE i \in 1 .. Len(cmds)
        <5>1. cmds'[i] = cmds[i] /\ cmd'[cmds[i]] = cmd[cmds[i]] /\ i \in DOMAIN cmds
          BY <2>4, <2>7, <2>8, <4>1
        <5> QED BY <1>0, <2>1, <5>1 DEF QueueInv
      <4>2. CASE i = Len(cmds) + 1
        <5>1. i > 1 => cmds # << >>
          BY <1>0, <2>7, <4>2
        <5>2. cmds'[i] = s
          BY <2>7, <4>2
        <5> QED BY <2>2, <2>4, <2>5, <5>1, <5>2
      <4>3. i \in 1 .. Len(cmds) \/ i = Len(cmds) + 1
        BY <2>7, <3>2
      <4> QED BY <4>1, <4>2, <4>3
    <3> QED BY <3>1, <3>2 DEF QueueInv, Distinct
  <2>10. FreeSlots' /\ OneHolder'
    <3>1. FreeSlots'
      BY <1>0, <2>4 DEF FreeSlots
    <3>2. \A q \in Procs : Uses(q)' => Uses(q)
      BY <2>1, <2>6 DEF Uses
    <3> QED BY <1>0, <2>6, <3>1, <3>2 DEF OneHolder
  <2>11. \A q \in Procs : q # t => Holds(q)'
    <3> SUFFICES ASSUME NEW q \in Procs, q # t PROVE Holds(q)' OBVIOUS
    <3>1. CASE Uses(q)
      <4>1. Uses(t)
        BY <2>1 DEF Uses
      <4>2. at[q] # s /\ at[q] \in Slots
        BY <1>0, <1>t, <3>1, <4>1 DEF OneHolder, TypeOK
      <4>3. (\E i \in DOMAIN cmds' : cmds'[i] = at[q]) <=> Queued(at[q])
        BY <2>7, <4>2 DEF Queued
      <4>4. Queued(at[q]) => cmds'[1] = cmds[1]
        BY <2>7 DEF Queued
      <4> QED BY <1>0, <2>4, <2>6, <4>2, <4>3, <4>4, HoldsKept
    <3>2. CASE ~Uses(q)
      BY <2>6, <3>2 DEF Holds, Uses, Early, Sending
    <3> QED BY <3>1, <3>2
  <2>12. Holds(t)'
    <3>1. CASE pc'[t] = "write"
      <4>1. cmds'[1] = s /\ \E i \in DOMAIN cmds' : cmds'[i] = s
        BY <2>6, <2>7, <3>1
      <4> QED BY <1>t, <2>2, <2>4, <2>6, <3>1, <4>1 DEF Holds, Uses, Early, Sending, Queued
    <3>2. CASE pc'[t] \in {"wake", "check"}
      BY <3>2 DEF Holds, Uses, Early, Sending
    <3> QED BY <2>6, <3>1, <3>2
  <2> QED BY <2>9, <2>10, <2>11, <2>12
<1> QED BY <1>1, <1>2, <1>3, <1>4 DEF Call

(* A caller or the work sends, waits for and frees its command.             *)
LEMMA SlotStepPush ==
  ASSUME SlotInv, NEW p \in Procs, Push(p)
  PROVE  QueueInv' /\ HolderInv'
<1>0. TypeOK /\ QueueInv /\ HolderInv /\ FreeSlots /\ OneHolder /\ \A q \in Procs : Holds(q)
  BY HolderParts DEF SlotInv
<1>t. at[p] \in Slots /\ cmd[at[p]] \in Commands
  BY <1>0 DEF TypeOK
<1>goal. SUFFICES QueueInv' /\ FreeSlots' /\ OneHolder' /\ \A q \in Procs : Holds(q)'
  BY DEF HolderInv, FreeSlots, OneHolder, Holds
<1>moves. ASSUME NEW x, Goes(p, x) \/ Done(p, x)
          PROVE  pc'[p] = x /\ \A q \in Procs : q # p => pc'[q] = pc[q] /\ at'[q] = at[q]
  BY <1>0, <1>moves DEF Goes, Done, TypeOK
<1>stays. ASSUME UNCHANGED <<cmds, cmd, crashed>>, Sending(p), Sending(p)',
                 NEW x, Goes(p, x), pc[p] # "write", cmd[at[p]].id # "silent"
          PROVE  QueueInv' /\ FreeSlots' /\ OneHolder' /\ \A q \in Procs : Holds(q)'
  <2>1. QueueInv' /\ FreeSlots'
    BY <1>0, <1>stays DEF QueueInv, FreeSlots, Distinct
  <2>2. pc'[p] = x /\ at' = at /\ \A q \in Procs : q # p => pc'[q] = pc[q]
    BY <1>moves, <1>stays DEF Goes
  <2>3. OneHolder'
    BY <1>0, <1>stays, <2>2 DEF OneHolder, Uses, Sending
  <2>4. \A q \in Procs : q # p => Holds(q)'
    BY <1>0, <1>stays, <2>2, HoldsKept DEF Queued
  <2>5. Holds(p)'
    BY <1>0, <1>stays, <2>2 DEF Holds, Uses, Early, Sending, Queued
  <2> QED BY <2>1, <2>3, <2>4, <2>5
<1>1. CASE Write(p)
  <2>1. /\ pc[p] = "write" /\ pc'[p] = "submit" /\ at' = at /\ UNCHANGED <<cmds, crashed>>
        /\ \A q \in Procs : q # p => pc'[q] = pc[q]
    BY <1>1, <1>moves DEF Write, Goes
  <2>2. /\ \A r \in Slots : r # at[p] => cmd'[r] = cmd[r]
        /\ cmd'[at[p]].push = FALSE /\ cmd'[at[p]].used = cmd[at[p]].used
        /\ cmd'[at[p]].id = cmd[at[p]].id /\ cmd'[at[p]].cfm = cmd[at[p]].cfm
        /\ cmd'[at[p]].complete = cmd[at[p]].complete
        /\ cmd'[at[p]].done = cmd[at[p]].done
    <3>1. CASE p = Worker
      <4>1. cmd' = [cmd EXCEPT ![at[p]].push = FALSE]
        BY <1>1, <3>1 DEF Write
      <4> QED BY <1>0, <1>t, <4>1 DEF TypeOK, Commands
    <3>2. CASE p # Worker
      <4>1. cmd' = cmd
        BY <1>1, <3>2 DEF Write
      <4>2. cmd[at[p]].push = FALSE
        BY <1>0, <2>1, <3>2 DEF Holds, Sending
      <4> QED BY <4>1, <4>2
    <3> QED BY <3>1, <3>2
  <2>3. QueueInv'
    <3>1. ASSUME NEW i \in DOMAIN cmds, cmds[i] = at[p] PROVE i = 1
      <4>1. at[p] = cmds[1]
        BY <1>0, <2>1, <3>1 DEF Holds, Sending, Queued
      <4>2. 1 \in DOMAIN cmds
        BY <1>0, <3>1 DEF TypeOK
      <4> QED BY <1>0, <3>1, <4>1, <4>2 DEF QueueInv, Distinct
    <3>2. ASSUME NEW i \in DOMAIN cmds
          PROVE  /\ cmd'[cmds[i]].used = TRUE /\ cmd'[cmds[i]].cfm = TRUE
                 /\ cmd'[cmds[i]].complete = FALSE /\ cmd'[cmds[i]].id # "silent"
                 /\ crashed = FALSE /\ i > 1 => cmd'[cmds[i]].push = TRUE
      <4>1. CASE cmds[i] = at[p]
        BY <1>0, <2>2, <3>1, <4>1 DEF QueueInv
      <4>2. CASE cmds[i] # at[p]
        <5>1. cmds[i] \in Slots
          BY <1>0 DEF TypeOK
        <5> QED BY <1>0, <2>2, <4>2, <5>1 DEF QueueInv
      <4> QED BY <4>1, <4>2
    <3> QED BY <1>0, <2>1, <3>2 DEF QueueInv, Distinct
  <2>4. FreeSlots' /\ OneHolder'
    BY <1>0, <1>t, <2>1, <2>2 DEF FreeSlots, OneHolder, Uses
  <2>5. \A q \in Procs : q # p => Holds(q)'
    <3> SUFFICES ASSUME NEW q \in Procs, q # p PROVE Holds(q)' OBVIOUS
    <3>1. CASE Uses(q)
      <4>1. at[q] # at[p] /\ at[q] \in Slots
        BY <1>0, <2>1, <3>1 DEF OneHolder, Uses, TypeOK
      <4> QED BY <1>0, <2>1, <2>2, <4>1, HoldsKept DEF Queued
    <3>2. CASE ~Uses(q)
      BY <2>1, <3>2 DEF Holds, Uses, Early, Sending
    <3> QED BY <3>1, <3>2
  <2>6. Holds(p)'
    BY <1>0, <1>t, <2>1, <2>2 DEF Holds, Uses, Early, Sending, Queued
  <2> QED BY <2>3, <2>4, <2>5, <2>6
<1>2. CASE Submit(p)
  <2>0. pc[p] = "submit" /\ UNCHANGED <<cmds, crashed>>
    BY <1>2 DEF Submit
  <2>1. CASE cmd[at[p]].id = "silent"
    <3>1. Done(p, "idle") /\ cmd' = [cmd EXCEPT ![at[p]] = Freed(at[p])]
      BY <1>2, <2>1 DEF Submit, Free
    <3>2. Uses(p) /\ ~Queued(at[p])
      BY <1>0, <2>0, <2>1 DEF Uses, Queued, QueueInv
    <3> QED BY <1>0, <1>moves, <2>0, <3>1, <3>2, FreeKeeps
  <2>2. CASE cmd[at[p]].id # "silent"
    <3>1. Goes(p, "wait") /\ cmd' = cmd
      BY <1>2, <2>2 DEF Submit
    <3>2. Sending(p) /\ Sending(p)'
      BY <1>moves, <2>0, <3>1 DEF Sending
    <3> QED BY <1>stays, <2>0, <2>2, <3>1, <3>2
  <2> QED BY <2>1, <2>2
<1>3. CASE WaitEnds(p)
  <2>1. /\ pc[p] = "wait" /\ cmd[at[p]].complete = TRUE /\ UNCHANGED <<cmds, crashed>>
        /\ Done(p, AfterWait(p)) /\ cmd' = [cmd EXCEPT ![at[p]] = Freed(at[p])]
    BY <1>3, <1>t DEF WaitEnds, Free, Commands
  <2>2. Uses(p) /\ ~Queued(at[p]) /\ AfterWait(p) \in {"idle", "scan"}
    BY <1>0, <2>1 DEF Uses, Queued, QueueInv, AfterWait
  <2> QED BY <1>0, <1>moves, <2>1, <2>2, FreeKeeps
<1>4. CASE TimeOut(p)
  <2>1. pc[p] = "wait" /\ Goes(p, "timedout") /\ UNCHANGED <<cmds, cmd, crashed>>
    BY <1>4 DEF TimeOut, mgr
  <2>2. Sending(p) /\ Sending(p)' /\ cmd[at[p]].id # "silent"
    BY <1>0, <1>moves, <2>1 DEF Sending, Holds
  <2> QED BY <1>stays, <2>1, <2>2
<1>5. CASE Crash(p)
  <2>1. CrashFacts(p)
    BY <1>0, <1>5, CrashLemma
  <2>2. /\ pc[p] = "timedout" /\ crashed' = TRUE /\ pc'[p] \in {"idle", "scan"}
        /\ \A q \in Procs : q # p => pc'[q] = pc[q] /\ at'[q] = at[q]
    BY <1>moves, <2>1 DEF CrashFacts, AfterWait
  <2>3. OneHolder' /\ Holds(p)'
    BY <1>0, <2>2 DEF OneHolder, Uses, Holds, Early, Sending
  <2>4. CASE UNCHANGED <<cmds, cmd>>
    <3>1. QueueInv' /\ FreeSlots'
      BY <1>0, <2>2, <2>4 DEF QueueInv, FreeSlots, Distinct
    <3>2. \A q \in Procs : q # p => Holds(q)'
      BY <1>0, <2>2, <2>4, HoldsKept DEF Queued
    <3> QED BY <2>3, <3>1, <3>2
  <2>5. CASE /\ Queued(at[p]) /\ cmds' = Without(at[p])
             /\ cmd' = [cmd EXCEPT ![at[p]].done = TRUE]
    <3>1. /\ \A r \in Slots : r # at[p] => cmd'[r] = cmd[r]
          /\ cmd'[at[p]].used = cmd[at[p]].used /\ cmd'[at[p]].push = cmd[at[p]].push
          /\ cmd'[at[p]].id = cmd[at[p]].id /\ cmd'[at[p]].done = TRUE
      BY <1>0, <1>t, <2>5 DEF TypeOK, Commands
    <3>2. /\ QueueInv' /\ FreeSlots'
          /\ \A q \in Procs : pc'[q] = pc[q] /\ at'[q] = at[q] => Holds(q)'
      BY <1>0, <1>t, <2>2, <2>5, <3>1, RemovalKeeps
    <3> QED BY <2>2, <2>3, <3>2
  <2> QED BY <2>1, <2>4, <2>5 DEF CrashFacts
<1> QED BY <1>1, <1>2, <1>3, <1>4, <1>5 DEF Push

(* The work takes the head of the queue over; a confirm takes one off it.   *)
LEMMA SlotStepRest ==
  ASSUME SlotInv, Work \/ Tx \/ TxFails \/ Answer \/ UNCHANGED vars
  PROVE  QueueInv' /\ HolderInv'
<1>0. TypeOK /\ QueueInv /\ FreeSlots /\ OneHolder /\ \A q \in Procs : Holds(q)
  BY HolderParts DEF SlotInv
<1>goal. SUFFICES QueueInv' /\ FreeSlots' /\ OneHolder' /\ \A q \in Procs : Holds(q)'
  BY DEF HolderInv, FreeSlots, OneHolder, Holds
<1>same. ASSUME UNCHANGED <<cmds, cmd, crashed>>
         PROVE  /\ QueueInv' /\ FreeSlots'
                /\ \A q \in Procs : pc'[q] = pc[q] /\ at'[q] = at[q] => Holds(q)'
  <2>1. QueueInv' /\ FreeSlots'
    BY <1>0, <1>same DEF QueueInv, FreeSlots, Distinct
  <2>2. \A q \in Procs : pc'[q] = pc[q] /\ at'[q] = at[q] => Holds(q)'
    BY <1>0, <1>same, HoldsKept DEF Queued
  <2> QED BY <2>1, <2>2
<1>1. CASE Work
  <2>1. UNCHANGED <<cmds, cmd, crashed>> /\ pc[Worker] \in {"idle", "scan"}
    BY <1>1 DEF Work, WorkStarts, WorkScans, mgr
  <2>2. \A q \in Procs : q # Worker => pc'[q] = pc[q] /\ at'[q] = at[q]
    BY <1>0, <1>1 DEF Work, WorkStarts, WorkScans, Goes, TypeOK
  <2>3. \A q \in Procs : q # Worker => Holds(q)'
    BY <1>same, <2>1, <2>2
  <2>4. CASE pc'[Worker] \in {"idle", "scan"}
    <3>1. OneHolder' /\ Holds(Worker)'
      BY <1>0, <2>2, <2>4 DEF OneHolder, Uses, Holds, Early, Sending
    <3> QED BY <1>same, <2>1, <2>3, <3>1
  <2>5. CASE WorkScans /\ HeadToPush
    <3>1. pc'[Worker] = "write" /\ at'[Worker] = cmds[1]
      BY <1>0, <2>5, ProcsFacts DEF WorkScans, TypeOK
    <3>2. 1 \in DOMAIN cmds /\ cmds[1] \in Slots /\ cmd[cmds[1]].push
      BY <1>0, <2>5 DEF HeadToPush, TypeOK
    <3>3. cmd[cmds[1]].push = TRUE
      BY <1>0, <3>2 DEF TypeOK, Commands
    <3>4. ASSUME NEW q \in Procs, q # Worker, Uses(q) PROVE at[q] # cmds[1]
      <4>1. CASE Early(q)
        BY <1>0, <3>2, <4>1 DEF Holds, Queued
      <4>2. CASE Sending(q)
        BY <1>0, <3>3, <3>4, <4>2 DEF Holds
      <4> QED BY <3>4, <4>1, <4>2 DEF Uses, Early, Sending
    <3>5. OneHolder'
      BY <1>0, <2>2, <3>1, <3>4 DEF OneHolder, Uses
    <3>6. Holds(Worker)'
      <4>1. cmd[cmds[1]].used = TRUE /\ Queued(cmds[1])
        BY <1>0, <3>2 DEF QueueInv, Queued
      <4> QED BY <2>1, <3>1, <4>1 DEF Holds, Uses, Early, Sending, Queued
    <3> QED BY <1>same, <2>1, <2>3, <3>5, <3>6
  <2>6. pc'[Worker] \in {"idle", "scan"} \/ (WorkScans /\ HeadToPush)
    BY <1>0, <1>1, ProcsFacts DEF Work, WorkStarts, WorkScans, Goes, TypeOK
  <2> QED BY <2>4, <2>5, <2>6
<1>2. CASE UNCHANGED <<cmds, cmd, crashed, pc, at>>
  <2>1. OneHolder'
    BY <1>0, <1>2 DEF OneHolder, Uses
  <2> QED BY <1>2, <1>same, <2>1
<1>3. CASE Tx \/ TxFails \/ UNCHANGED vars
  <2>1. UNCHANGED <<cmds, cmd, crashed, pc, at>>
    BY <1>3 DEF Tx, TxSend, TxDone, TxFails, vars, mgr
  <2> QED BY <1>2, <2>1
<1>4. CASE Answer
  <2>0. UNCHANGED <<pc, at>> /\ inbox[1] \in Messages
    BY <1>0, <1>4, AnswerFacts
  <2>1. CASE UNCHANGED mgr
    BY <1>2, <2>0, <2>1 DEF mgr
  <2>2. CASE ~UNCHANGED mgr
    <3>1. PICK k \in DOMAIN cmds :
            /\ cmd' = Completed(cmds[k], inbox[1]) /\ cmds' = Without(cmds[k])
            /\ UNCHANGED <<crashed, next_tkn>>
      BY <1>0, <1>4, <2>2, AnswerFacts
    <3> DEFINE s == cmds[k]
    <3>2. s \in Slots /\ Queued(s) /\ cmd[s] \in Commands
      BY <1>0 DEF Queued, TypeOK
    <3>3. cmd' = [cmd EXCEPT ![s].cfm = FALSE, ![s].done = TRUE,
                             ![s].complete = TRUE, ![s].got = inbox[1].tkn]
      BY <3>1 DEF Completed
    <3> HIDE DEF s
    <3>4. /\ \A r \in Slots : r # s => cmd'[r] = cmd[r]
          /\ cmd'[s].used = cmd[s].used /\ cmd'[s].push = cmd[s].push
          /\ cmd'[s].id = cmd[s].id /\ cmd'[s].done = TRUE
      BY <1>0, <3>2, <3>3 DEF TypeOK, Commands
    <3>5. cmds' = Without(s) /\ crashed' = crashed
      BY <3>1 DEF s
    <3>6. /\ QueueInv' /\ FreeSlots'
          /\ \A q \in Procs : pc'[q] = pc[q] /\ at'[q] = at[q] => Holds(q)'
      BY <1>0, <3>2, <3>4, <3>5, RemovalKeeps
    <3>7. OneHolder'
      BY <1>0, <2>0 DEF OneHolder, Uses
    <3> QED BY <2>0, <3>6, <3>7
  <2> QED BY <2>1, <2>2
<1> QED BY <1>1, <1>3, <1>4

(* The part of the invariant that is about slots is inductive.              *)
LEMMA SlotStep == SlotInv /\ [Next]_vars => SlotInv'
<1> SUFFICES ASSUME SlotInv, [Next]_vars PROVE SlotInv' OBVIOUS
<1>1. TypeOK'
  BY TypeStep
<1>2. QueueInv' /\ HolderInv'
  BY SlotStepCaller, SlotStepPush, SlotStepRest DEF Next
<1> QED BY <1>1, <1>2 DEF SlotInv

(* Types, and the bound on the queue's length, for every number of callers, *)
(* slots and messages.                                                      *)
THEOREM TypeCorrect == Spec => []TypeOK
<1>1. Init => SlotInv
  BY TypeInit, SlotInit DEF SlotInv
<1>2. SlotInv => TypeOK
  BY DEF SlotInv
<1> QED BY <1>1, <1>2, SlotStep, PTL DEF Spec

(* No two users share a slot of cmd_array, no slot in use is free, and a    *)
(* command is taken off the queue once (cmd_complete() in rwnx_cmds.c).     *)
THEOREM SlotsAlwaysOwned == Spec => []SlotsOwned
<1>1. Init => SlotInv
  BY TypeInit, SlotInit DEF SlotInv
<1>2. ASSUME SlotInv PROVE SlotsOwned
  <2>1. \A i, j \in DOMAIN cmds : cmd[cmds[i]].used /\ (cmds[i] = cmds[j] => i = j)
    BY <1>2 DEF SlotInv, QueueInv, Distinct
  <2>2. \A p, q \in Procs : Uses(p) => /\ cmd[at[p]].used
                                       /\ Uses(q) /\ at[p] = at[q] => p = q
    BY <1>2 DEF SlotInv, HolderInv
  <2>3. ASSUME NEW p \in Procs, pc[p] = "timedout", ~cmd[at[p]].done
        PROVE  Queued(at[p])
    <3>1. cmd[at[p]].done = FALSE
      BY <1>2, <2>3 DEF SlotInv, TypeOK, Commands
    <3> QED BY <1>2, <2>3, <3>1 DEF SlotInv, HolderInv, Sending
  <2> QED BY <2>1, <2>2, <2>3 DEF SlotsOwned
<1> QED BY <1>1, <1>2, SlotStep, PTL DEF Spec

-----------------------------------------------------------------------------
(* Answers *)

(* What a step of p leaves alone of the others and of the queue.            *)
Frame(p) ==
  /\ \A q \in Procs : q # p => /\ pc'[q] = pc[q] /\ at'[q] = at[q]
                               /\ Uses(q) => cmd'[at[q]] = cmd[at[q]]
  /\ \A i \in DOMAIN cmds : cmd'[cmds[i]] = cmd[cmds[i]]

(* A step of p that writes one slot, which no other uses.                   *)
LEMMA FrameOfSlot ==
  ASSUME TypeOK, NEW p \in Procs, NEW n \in Slots, ~Queued(n),
         \A q \in Procs : q # p => pc'[q] = pc[q] /\ at'[q] = at[q],
         \A q \in Procs : q # p /\ Uses(q) => at[q] # n,
         \A r \in Slots : r # n => cmd'[r] = cmd[r]
  PROVE  Frame(p)
<1>1. \A q \in Procs : at[q] \in Slots
  BY DEF TypeOK
<1>2. \A i \in DOMAIN cmds : cmds[i] \in Slots /\ cmds[i] # n
  BY DEF TypeOK, Queued
<1> QED BY <1>1, <1>2 DEF Frame

(* A caller starts to send only a message without confirm, or alone.        *)
LEMMA CallerFrame ==
  ASSUME SlotInv, NEW t \in Callers, Call(t) \/ \E k \in Kinds[t] : Send(t, k)
  PROVE  /\ Frame(t) /\ UNCHANGED <<crashed, bus, inbox, mixed>>
         /\ \/ cmds' = cmds
            \/ crashed = FALSE /\ cmds' = Append(cmds, at'[t])
         /\ \/ ~Sending(t)'
            \/ /\ pc'[t] = "write" /\ cmd'[at'[t]].complete = FALSE
               /\ \/ cmd'[at'[t]].id = "silent"
                  \/ cmds = << >> /\ cmds' = Append(cmds, at'[t])
<1>0. TypeOK /\ QueueInv /\ FreeSlots /\ OneHolder /\ \A p \in Procs : Holds(p)
  BY HolderParts DEF SlotInv
<1>t. t \in Procs /\ t # Worker /\ at[t] \in Slots /\ cmd[at[t]] \in Commands
  BY <1>0, ProcsFacts DEF TypeOK
<1>1. CASE \E k \in Kinds[t] : Send(t, k)
  <2>1. PICK k \in Kinds[t] : Send(t, k)
    BY <1>1
  <2> DEFINE n == FirstFree
  <2>2. n \in Slots /\ cmd[n].used = FALSE
    <3>1. PICK s \in Slots : ~cmd[s].used
      BY <2>1 DEF Send
    <3>2. cmd[s].used = FALSE
      BY <1>0, <3>1 DEF TypeOK, Commands
    <3>3. n \in Slots /\ ~cmd[n].used
      BY <3>2, FirstFreeIsFree
    <3> QED BY <1>0, <3>3 DEF TypeOK, Commands
  <2> HIDE DEF n
  <2>3. /\ cmd' = [cmd EXCEPT ![n].used = TRUE, ![n].id = k]
        /\ at' = [at EXCEPT ![t] = n]
        /\ UNCHANGED <<cmds, crashed, bus, inbox, mixed>>
    BY <2>1 DEF Send, n, seen
  <2>4. /\ \A s \in Slots : s # n => cmd'[s] = cmd[s]
        /\ cmd'[n].id = k /\ cmd'[n].complete = cmd[n].complete
    BY <1>0, <2>2, <2>3 DEF TypeOK, Commands
  <2>5. ~Queued(n) /\ \A p \in Procs : Uses(p) => at[p] # n
    BY <1>0, <2>2 DEF Queued, QueueInv, Holds
  <2>6. /\ \A q \in Procs : q # t => pc'[q] = pc[q] /\ at'[q] = at[q]
        /\ at'[t] = n
    BY <1>0, <1>t, <2>1, <2>3 DEF Send, TypeOK
  <2>7. Frame(t)
    BY <1>0, <1>t, <2>2, <2>4, <2>5, <2>6, FrameOfSlot
  <2>8. pc'[t] = CASE k = "wanted" -> "empty" [] k = "silent" -> "write"
                   [] OTHER -> "queue"
    BY <1>0, <1>t, <2>1 DEF Send, TypeOK
  <2>9. k = "silent" \/ pc'[t] \in {"empty", "queue"}
    BY <2>8
  <2>10. CASE k = "silent"
    <3>1. pc'[t] = "write" /\ cmd'[at'[t]].complete = FALSE /\ cmd'[at'[t]].id = "silent"
      BY <1>0, <2>2, <2>4, <2>6, <2>8, <2>10 DEF FreeSlots
    <3> QED BY <2>3, <2>7, <3>1
  <2>11. CASE pc'[t] \in {"empty", "queue"}
    BY <2>3, <2>7, <2>11 DEF Sending
  <2> QED BY <2>9, <2>10, <2>11
<1>2. CASE WaitEmpty(t) \/ Wake(t)
  <2>1. UNCHANGED <<cmds, cmd, crashed, bus, inbox, mixed>>
    BY <1>2 DEF WaitEmpty, Wake, mgr, seen
  <2>2. \A q \in Procs : q # t => pc'[q] = pc[q] /\ at'[q] = at[q]
    BY <1>0, <1>2 DEF WaitEmpty, Wake, Goes, Done, TypeOK
  <2>3. pc'[t] \in {"queue", "idle"}
    BY <1>0, <1>t, <1>2 DEF WaitEmpty, Wake, Goes, Done, TypeOK
  <2> QED BY <2>1, <2>2, <2>3 DEF Frame, Sending
<1>3. CASE Rejected(t)
  <2>1. /\ pc[t] = "queue" /\ cmd' = [cmd EXCEPT ![at[t]] = Freed(at[t])]
        /\ UNCHANGED <<cmds, crashed, bus, inbox, mixed>>
    BY <1>3 DEF Rejected, Free, seen
  <2>2. (\A q \in Procs : q # t => pc'[q] = pc[q] /\ at'[q] = at[q]) /\ pc'[t] = "idle"
    BY <1>0, <1>t, <1>3 DEF Rejected, Done, TypeOK
  <2>3. ~Queued(at[t]) /\ Uses(t)
    BY <1>0, <1>t, <2>1 DEF Holds, Early, Uses
  <2>4. \A q \in Procs : q # t /\ Uses(q) => at[q] # at[t]
    BY <1>0, <1>t, <2>3 DEF OneHolder
  <2>5. \A r \in Slots : r # at[t] => cmd'[r] = cmd[r]
    BY <1>0, <1>t, <2>1 DEF TypeOK
  <2>6. Frame(t)
    BY <1>0, <1>t, <2>2, <2>3, <2>4, <2>5, FrameOfSlot
  <2> QED BY <2>1, <2>2, <2>6 DEF Sending
<1>4. CASE Queue(t)
  <2> DEFINE x == CASE ~Defers(at[t]) -> "write" [] cmd[at[t]].id = "deferred" -> "wake"
                    [] OTHER -> "check"
  <2>1. /\ pc[t] = "queue" /\ Goes(t, x) /\ cmds' = Append(cmds, at[t])
        /\ crashed = FALSE /\ UNCHANGED <<crashed, bus, inbox, mixed>>
    BY <1>0, <1>4 DEF Queue, TypeOK, seen
  <2>2. ~Queued(at[t]) /\ Uses(t)
    BY <1>0, <1>t, <2>1 DEF Holds, Early, Uses
  <2>3. x \in {"write", "wake", "check"} /\ (x = "write" => ~Defers(at[t]))
    OBVIOUS
  <2> HIDE DEF x
  <2>4. at' = at /\ pc'[t] = x /\ \A q \in Procs : q # t => pc'[q] = pc[q]
    BY <1>0, <1>t, <2>1 DEF Goes, TypeOK
  <2>5. /\ cmd'[at[t]].complete = FALSE
        /\ \A r \in Slots : r # at[t] => cmd'[r] = cmd[r]
    <3>1. cmd' = [cmd EXCEPT ![at[t]].push = @ \/ Defers(at[t]), ![at[t]].cfm = TRUE,
                             ![at[t]].tkn = next_tkn, ![at[t]].complete = FALSE]
      BY <1>4 DEF Queue
    <3> QED BY <1>0, <1>t, <3>1 DEF TypeOK, Commands
  <2>6. \A q \in Procs : q # t /\ Uses(q) => at[q] # at[t]
    BY <1>0, <1>t, <2>2 DEF OneHolder
  <2>7. Frame(t)
    BY <1>0, <1>t, <2>2, <2>4, <2>5, <2>6, FrameOfSlot
  <2>8. ~Defers(at[t]) => cmds = << >>
    <3> SUFFICES ASSUME cmds # << >> PROVE Defers(at[t]) OBVIOUS
    <3>1. Len(cmds) \in DOMAIN cmds
      BY <1>0 DEF TypeOK
    <3>2. cmd[cmds[Len(cmds)]].cfm = TRUE
      BY <1>0, <3>1 DEF QueueInv
    <3> QED BY <3>2 DEF Defers, Busy
  <2> QED BY <2>1, <2>3, <2>4, <2>5, <2>7, <2>8 DEF Sending
<1> QED BY <1>1, <1>2, <1>3, <1>4 DEF Call

(* Nothing is on its way after this step.                                   *)
LEMMA FlightEmpty ==
  ASSUME \A i \in DOMAIN inbox' : ~Loud(inbox'[i]),
         ~(Loaded' /\ Loud(buf')),
         \A p \in Procs : Readies(p)' => Queued(at[p])'
  PROVE  FlightInv'
BY DEF FlightInv, Loud

(* The step leaves the buses and the head of the queue as they are, and     *)
(* nobody gets ready to send.                                               *)
LEMMA FlightKept ==
  ASSUME FlightInv, inbox' = inbox,
         (Loaded' /\ Loud(buf')) => Loaded /\ Loud(buf) /\ buf' = buf,
         cmds # << >> => /\ cmds' # << >> /\ cmds'[1] = cmds[1]
                         /\ cmd'[cmds[1]].id = cmd[cmds[1]].id
                         /\ cmd'[cmds[1]].tkn = cmd[cmds[1]].tkn
                         /\ cmd'[cmds[1]].push = cmd[cmds[1]].push,
         \A p \in Procs : Readies(p)' => Readies(p) /\ Queued(at[p])'
  PROVE  FlightInv'
<1>1. ASSUME NEW m, Awaited(m)
      PROVE  cmds' # << >> /\ m = Msg(cmds[1])' /\ cmd'[cmds'[1]].push = FALSE
             /\ \A p \in Procs : ~Readies(p)'
  BY <1>1 DEF Awaited, Msg
<1>2. \A i \in DOMAIN inbox' : Loud(inbox'[i]) => Awaited(inbox[i]) /\ ~(Loaded /\ Loud(buf))
  BY DEF FlightInv
<1>3. \A i \in DOMAIN inbox' : Loud(inbox'[i]) => Awaited(inbox[i])' /\ ~(Loaded' /\ Loud(buf'))
  BY <1>1, <1>2 DEF Awaited
<1>4. Loaded' /\ Loud(buf') => Awaited(buf)'
  BY <1>1 DEF Awaited, FlightInv
<1>5. \A p \in Procs : Readies(p)' => Queued(at[p])'
  OBVIOUS
<1>6. \A i, j \in DOMAIN inbox' : Loud(inbox'[i]) /\ Loud(inbox'[j]) => i = j
  BY DEF FlightInv
<1> QED BY <1>3, <1>4, <1>5, <1>6 DEF FlightInv, Loud

(* A caller that waits for its own command did so before the step.          *)
LEMMA ActiveBack ==
  ASSUME Active',
         \A c \in Callers : Sending(c)' /\ cmd'[at'[c]].id # "silent" /\ Queued(at[c])'
           => Sending(c) /\ cmd[at[c]].id # "silent" /\ Queued(at[c])
  PROVE  Active
BY DEF Active

(* The step leaves the buffer and who is about to trigger it.               *)
LEMMA BufferKept ==
  ASSUME BufferInv, buf' = buf, Loaded' => Loaded,
         \A p \in Procs : pc'[p] = "submit" =>
           /\ pc[p] = "submit" /\ at'[p] = at[p]
           /\ cmd'[at[p]].id = cmd[at[p]].id /\ cmd'[at[p]].tkn = cmd[at[p]].tkn
  PROVE  BufferInv'
BY DEF BufferInv, Msg

(* The step completes no command.                                           *)
LEMMA AnsweredKept ==
  ASSUME Answered, crashed = TRUE => crashed' = TRUE, crashed \in BOOLEAN,
         \A p \in Procs : Sending(p)' =>
           \/ cmd'[at'[p]].complete = FALSE
           \/ /\ Sending(p) /\ at'[p] = at[p]
              /\ cmd'[at[p]].complete = cmd[at[p]].complete
              /\ cmd'[at[p]].got = cmd[at[p]].got
              /\ cmd'[at[p]].tkn = cmd[at[p]].tkn
  PROVE  Answered'
BY DEF Answered

(* A caller's command is put into an empty queue, or nothing gets ready.    *)
LEMMA AnswerStepCaller ==
  ASSUME SlotInv, SlotInv', NEW t \in Callers, Call(t) \/ \E k \in Kinds[t] : Send(t, k),
         BufferInv, Orderly => FlightInv, Answered
  PROVE  BufferInv' /\ (Orderly' => FlightInv') /\ Answered'
<1>0. TypeOK /\ QueueInv /\ QueueInv' /\ t \in Procs /\ t # Worker
  BY ProcsFacts DEF SlotInv
<1>1. /\ Frame(t) /\ UNCHANGED <<crashed, bus, inbox, mixed>>
      /\ \/ cmds' = cmds
         \/ crashed = FALSE /\ cmds' = Append(cmds, at'[t])
      /\ \/ ~Sending(t)'
         \/ /\ pc'[t] = "write" /\ cmd'[at'[t]].complete = FALSE
            /\ \/ cmd'[at'[t]].id = "silent"
               \/ cmds = << >> /\ cmds' = Append(cmds, at'[t])
  BY CallerFrame
<1>2. UNCHANGED <<buf, txstate, txHeld>>
  BY <1>1 DEF bus
<1>3. BufferInv'
  <2>1. \A p \in Procs : pc'[p] = "submit" => p # t /\ Uses(p)
    BY <1>1 DEF Frame, Sending, Uses
  <2> QED BY <1>1, <1>2, <2>1, BufferKept DEF Frame, Loaded
<1>4. Answered'
  <2>1. \A p \in Procs : Sending(p)' /\ p # t => Sending(p) /\ Uses(p)
    BY <1>1 DEF Frame, Sending, Uses
  <2>2. crashed \in BOOLEAN /\ crashed' = crashed
    BY <1>0, <1>1 DEF TypeOK
  <2> QED BY <1>1, <2>1, <2>2, AnsweredKept DEF Frame
<1>5. ASSUME Orderly' PROVE FlightInv'
  <2>1. at'[t] \in Slots
    BY <1>0 DEF SlotInv, TypeOK
  <2>2. \A q \in Procs : q # t /\ Readies(q)' =>
          Readies(q) /\ at'[q] = at[q] /\ cmd'[at[q]] = cmd[at[q]]
    BY <1>1 DEF Frame, Readies, Uses
  <2>3. \A r \in Slots : Queued(r) => \E i \in DOMAIN cmds' : cmds'[i] = r
    <3>1. cmds \in Seq(Slots)
      BY <1>0 DEF TypeOK
    <3>2. SUFFICES ASSUME NEW i \in DOMAIN cmds
                   PROVE  i \in DOMAIN cmds' /\ cmds'[i] = cmds[i]
      BY DEF Queued
    <3>3. i \in 1 .. Len(cmds)
      BY <3>1
    <3>4. CASE cmds' = cmds
      BY <3>4
    <3>5. CASE cmds' = Append(cmds, at'[t])
      BY <2>1, <3>1, <3>3, <3>5
    <3> QED BY <1>1, <3>4, <3>5
  <2>4. Orderly
    <3>1. CASE crashed = FALSE
      BY <3>1 DEF Orderly
    <3>2. CASE crashed # FALSE
      <4>1. Active' /\ cmds' = cmds
        BY <1>1, <1>5, <3>2 DEF Orderly
      <4>2. \A c \in Callers : Sending(c)' /\ cmd'[at'[c]].id # "silent" /\ Queued(at[c])'
              => Sending(c) /\ cmd[at[c]].id # "silent" /\ Queued(at[c])
        <5> SUFFICES ASSUME NEW c \in Callers, Sending(c)', cmd'[at'[c]].id # "silent",
                            Queued(at[c])'
                     PROVE  Sending(c) /\ cmd[at[c]].id # "silent" /\ Queued(at[c])
          OBVIOUS
        <5>1. c \in Procs
          BY ProcsFacts
        <5>2. CASE c = t
          <6>1. cmds' = Append(cmds, at'[t]) /\ cmds = << >>
            BY <1>1, <5>2
          <6>2. Len(cmds') = 1
            BY <6>1
          <6> QED BY <4>1, <6>1, <6>2
        <5>3. CASE c # t
          <6>1. Sending(c) /\ Uses(c) /\ at'[c] = at[c]
            BY <1>1, <5>1, <5>3 DEF Frame, Sending, Uses
          <6> QED BY <1>1, <4>1, <5>1, <5>3, <6>1 DEF Frame, Queued
        <5> QED BY <5>2, <5>3
      <4> QED BY <4>1, <4>2, ActiveBack DEF Orderly
    <3> QED BY <3>1, <3>2
  <2>5. FlightInv
    BY <2>4
  <2>6. CASE ~Readies(t)'
    <3>1. \A p \in Procs : Readies(p)' => Readies(p) /\ Queued(at[p])'
      <4> SUFFICES ASSUME NEW p \in Procs, Readies(p)' PROVE Readies(p) /\ Queued(at[p])'
        OBVIOUS
      <4>1. p # t /\ Readies(p) /\ at'[p] = at[p]
        BY <2>2, <2>6
      <4>2. Queued(at[p]) /\ at[p] \in Slots
        BY <1>0, <2>5, <4>1 DEF FlightInv, TypeOK
      <4> QED BY <2>3, <4>1, <4>2 DEF Queued
    <3>2. cmds # << >> => /\ cmds' # << >> /\ cmds'[1] = cmds[1]
                          /\ cmd'[cmds[1]] = cmd[cmds[1]]
      <4> SUFFICES ASSUME cmds # << >>
                   PROVE  cmds' # << >> /\ cmds'[1] = cmds[1] /\ cmd'[cmds[1]] = cmd[cmds[1]]
        OBVIOUS
      <4>1. 1 \in DOMAIN cmds /\ 1 \in 1 .. Len(cmds)
        BY <1>0 DEF TypeOK
      <4>2. cmds' # << >> /\ cmds'[1] = cmds[1]
        BY <1>0, <1>1, <2>1, <4>1, AppendProperties DEF TypeOK
      <4> QED BY <1>1, <4>1, <4>2 DEF Frame
    <3> QED BY <1>1, <1>2, <2>5, <3>1, <3>2, FlightKept DEF Loaded
  <2>7. CASE Readies(t)'
    <3>1. cmds = << >> /\ cmds' = Append(cmds, at'[t])
      BY <1>1, <2>7 DEF Readies, Sending
    <3>2. Queued(at[t])'
      <4>1. Len(cmds') = 1 /\ cmds'[1] = at'[t] /\ 1 \in DOMAIN cmds'
        BY <3>1
      <4> QED BY <4>1 DEF Queued
    <3>3. \A i \in DOMAIN inbox' : ~Loud(inbox'[i])
      BY <1>1, <2>5, <3>1 DEF FlightInv, Awaited
    <3>4. ~(Loaded' /\ Loud(buf'))
      BY <1>2, <2>5, <3>1 DEF FlightInv, Awaited, Loaded
    <3>5. \A p \in Procs : p # t => ~Readies(p)'
      BY <2>2, <2>5, <3>1 DEF FlightInv, Queued
    <3> QED BY <3>2, <3>3, <3>4, <3>5, FlightEmpty
  <2> QED BY <2>6, <2>7
<1> QED BY <1>3, <1>4, <1>5

(* p leaves the queue and the messages on their way alone, and goes on, if  *)
(* it is still sending, to wait for its command.                            *)
LEMMA StandsBack ==
  ASSUME SlotInv, NEW p \in Procs, Frame(p),
         cmds' = cmds, inbox' = inbox, buf' = buf, crashed = TRUE => crashed' = TRUE,
         Sending(p)' => /\ pc[p] \in {"submit", "wait"} /\ pc'[p] \in {"wait", "timedout"}
                        /\ at'[p] = at[p] /\ cmd'[at[p]] = cmd[at[p]],
         BufferInv, Orderly => FlightInv, Answered
  PROVE  /\ Answered' /\ (Orderly' => Orderly)
         /\ (Loaded' => Loaded) => BufferInv'
         /\ (Loaded' /\ Loud(buf) => Loaded) => (Orderly' => FlightInv')
<1>0. TypeOK /\ QueueInv
  BY DEF SlotInv
<1>1. \A q \in Procs : q # p => /\ pc'[q] = pc[q] /\ at'[q] = at[q]
                                /\ Uses(q) => cmd'[at[q]] = cmd[at[q]]
  BY DEF Frame
<1>2. \A i \in DOMAIN cmds : cmd'[cmds[i]] = cmd[cmds[i]]
  BY DEF Frame
<1>3. \A q \in Procs : Sending(q)' =>
        Sending(q) /\ at'[q] = at[q] /\ cmd'[at[q]] = cmd[at[q]]
  <2> SUFFICES ASSUME NEW q \in Procs, Sending(q)'
               PROVE  Sending(q) /\ at'[q] = at[q] /\ cmd'[at[q]] = cmd[at[q]]
    OBVIOUS
  <2>1. CASE q = p
    BY <2>1 DEF Sending
  <2>2. CASE q # p
    BY <1>1, <2>2 DEF Sending, Uses
  <2> QED BY <2>1, <2>2
<1>4. Answered'
  <2>1. crashed \in BOOLEAN
    BY <1>0 DEF TypeOK
  <2> QED BY <1>3, <2>1, AnsweredKept
<1>5. Orderly' => Orderly
  <2>1. \A c \in Callers : Sending(c)' /\ cmd'[at'[c]].id # "silent" /\ Queued(at[c])'
          => Sending(c) /\ cmd[at[c]].id # "silent" /\ Queued(at[c])
    BY <1>3, ProcsFacts DEF Queued
  <2>2. Active' => Active
    BY <2>1, ActiveBack
  <2> QED BY <1>0, <2>2 DEF Orderly, TypeOK
<1>6. \A q \in Procs : pc'[q] \in {"write", "submit"} =>
        pc'[q] = pc[q] /\ at'[q] = at[q] /\ cmd'[at[q]] = cmd[at[q]]
  <2> SUFFICES ASSUME NEW q \in Procs, pc'[q] \in {"write", "submit"}
               PROVE  pc'[q] = pc[q] /\ at'[q] = at[q] /\ cmd'[at[q]] = cmd[at[q]]
    OBVIOUS
  <2>1. q # p
    BY DEF Sending
  <2> QED BY <1>1, <2>1 DEF Uses
<1>7. ASSUME Loaded' => Loaded PROVE BufferInv'
  BY <1>6, <1>7, BufferKept
<1>8. ASSUME Loaded' /\ Loud(buf) => Loaded, Orderly' PROVE FlightInv'
  <2>1. FlightInv
    BY <1>5, <1>8
  <2>2. (Loaded' /\ Loud(buf')) => Loaded /\ Loud(buf) /\ buf' = buf
    BY <1>8 DEF Loud
  <2>3. \A q \in Procs : Readies(q)' => Readies(q) /\ Queued(at[q])'
    BY <1>6, <2>1 DEF Readies, Queued, FlightInv
  <2>4. cmds # << >> => cmd'[cmds[1]] = cmd[cmds[1]]
    <3>1. cmds # << >> => 1 \in DOMAIN cmds
      BY <1>0 DEF TypeOK
    <3> QED BY <1>2, <3>1
  <2> QED BY <2>1, <2>2, <2>3, <2>4, FlightKept
<1> QED BY <1>4, <1>5, <1>7, <1>8

(* The one who writes the buffer is the only one on the way to the bus.     *)
LEMMA AnswerStepPush ==
  ASSUME SlotInv, NEW p \in Procs, Push(p), mixed' = FALSE,
         BufferInv, Orderly => FlightInv, Answered
  PROVE  BufferInv' /\ (Orderly' => FlightInv') /\ Answered'
<1>0. TypeOK /\ QueueInv /\ OneHolder /\ \A q \in Procs : Holds(q)
  BY HolderParts DEF SlotInv
<1>t. at[p] \in Slots /\ cmd[at[p]] \in Commands /\ \A q \in Procs : at[q] \in Slots
  BY <1>0 DEF TypeOK
<1>moves. ASSUME NEW x, Goes(p, x) \/ Done(p, x)
          PROVE  pc'[p] = x /\ \A q \in Procs : q # p => pc'[q] = pc[q] /\ at'[q] = at[q]
  BY <1>0, <1>moves DEF Goes, Done, TypeOK
<1>frees. ASSUME NEW x, Done(p, x), Uses(p), ~Queued(at[p]),
                 cmd' = [cmd EXCEPT ![at[p]] = Freed(at[p])]
          PROVE  Frame(p)
  <2>1. \A q \in Procs : q # p /\ Uses(q) => at[q] # at[p]
    BY <1>0, <1>frees DEF OneHolder
  <2>2. \A r \in Slots : r # at[p] => cmd'[r] = cmd[r]
    BY <1>0, <1>t, <1>frees DEF TypeOK
  <2> QED BY <1>0, <1>t, <1>moves, <1>frees, <2>1, <2>2, FrameOfSlot
<1>stays. ASSUME cmd' = cmd, NEW x, Goes(p, x)
          PROVE  Frame(p) /\ at' = at
  BY <1>moves, <1>stays DEF Frame, Goes
<1>1. CASE Write(p)
  <2>1. /\ pc[p] = "write" /\ pc'[p] = "submit" /\ at' = at
        /\ UNCHANGED <<cmds, crashed, txstate, txHeld, inbox>>
        /\ \A q \in Procs : q # p => pc'[q] = pc[q]
    BY <1>1, <1>moves DEF Write, Goes
  <2>2. buf' = Msg(at[p])
    BY <1>1 DEF Write, Msg
  <2>3. /\ \A r \in Slots : r # at[p] => cmd'[r] = cmd[r]
        /\ cmd'[at[p]].id = cmd[at[p]].id /\ cmd'[at[p]].tkn = cmd[at[p]].tkn
        /\ cmd'[at[p]].complete = cmd[at[p]].complete
        /\ cmd'[at[p]].got = cmd[at[p]].got
    <3>1. CASE p = Worker
      <4>1. cmd' = [cmd EXCEPT ![at[p]].push = FALSE]
        BY <1>1, <3>1 DEF Write
      <4> QED BY <1>0, <1>t, <4>1 DEF TypeOK, Commands
    <3>2. CASE p # Worker
      BY <1>1, <3>2 DEF Write
    <3> QED BY <3>1, <3>2
  <2>4. \A q \in Procs : /\ cmd'[at[q]].id = cmd[at[q]].id
                         /\ cmd'[at[q]].tkn = cmd[at[q]].tkn
                         /\ cmd'[at[q]].complete = cmd[at[q]].complete
                         /\ cmd'[at[q]].got = cmd[at[q]].got
    BY <1>t, <2>3
  <2>5. ~Loaded /\ \A q \in Procs : pc[q] # "submit"
    BY <1>0, <1>1 DEF Write, Unsent, Loaded, TypeOK
  <2>6. ~Loaded'
    BY <2>1, <2>5 DEF Loaded
  <2>7. BufferInv'
    <3>1. \A q \in Procs : pc'[q] = "submit" => q = p
      BY <2>1, <2>5
    <3>2. buf' = Msg(at[p])'
      BY <2>1, <2>2, <2>3 DEF Msg
    <3> QED BY <2>6, <3>1, <3>2 DEF BufferInv
  <2>8. \A q \in Procs : Sending(q)' => Sending(q)
    BY <2>1 DEF Sending
  <2>9. Answered'
    <3>1. crashed' = crashed /\ crashed \in BOOLEAN
      BY <1>0, <2>1 DEF TypeOK
    <3> QED BY <2>1, <2>4, <2>8, <3>1, AnsweredKept
  <2>10. ASSUME Orderly' PROVE FlightInv'
    <3>1. Orderly
      <4>1. \A c \in Callers : Sending(c)' /\ cmd'[at'[c]].id # "silent" /\ Queued(at[c])'
              => Sending(c) /\ cmd[at[c]].id # "silent" /\ Queued(at[c])
        BY <2>1, <2>4, <2>8, ProcsFacts DEF Queued
      <4> QED BY <2>1, <2>10, <4>1, ActiveBack DEF Orderly
    <3>2. FlightInv
      BY <3>1
    <3>3. \A q \in Procs : Readies(q)' => Readies(q) /\ Queued(at[q])'
      <4>1. \A q \in Procs : Readies(q)' => Readies(q)
        BY <2>1, <2>4 DEF Readies
      <4> QED BY <2>1, <3>2, <4>1 DEF FlightInv, Queued
    <3>4. CASE Readies(p)
      <4>1. \A i \in DOMAIN inbox' : ~Loud(inbox'[i])
        BY <2>1, <3>2, <3>4 DEF FlightInv, Awaited
      <4> QED BY <2>6, <3>3, <4>1, FlightEmpty
    <3>5. CASE ~Readies(p)
      <4>1. \A i \in DOMAIN cmds : cmds[i] \in Slots /\ cmds[i] # at[p]
        BY <1>0, <2>1, <3>5 DEF Readies, QueueInv, TypeOK
      <4>2. cmds # << >> => 1 \in DOMAIN cmds
        BY <1>0 DEF TypeOK
      <4>3. cmds # << >> => cmd'[cmds[1]] = cmd[cmds[1]]
        BY <2>3, <4>1, <4>2
      <4> QED BY <2>1, <2>6, <3>2, <3>3, <4>3, FlightKept
    <3> QED BY <3>4, <3>5
  <2> QED BY <2>7, <2>9, <2>10
<1>2. CASE Submit(p)
  <2>0. /\ pc[p] = "submit" /\ txstate' = TRUE /\ txHeld = FALSE
        /\ UNCHANGED <<cmds, crashed, buf, txHeld, inbox>>
    BY <1>0, <1>2 DEF Submit, TypeOK
  <2>1. buf = Msg(at[p]) /\ ~Loaded /\ \A q \in Procs : pc[q] = "submit" => q = p
    BY <2>0 DEF BufferInv
  <2>2. pc'[p] # "submit" => BufferInv'
    <3>1. Goes(p, "wait") \/ Done(p, "idle")
      BY <1>2 DEF Submit
    <3>2. \A q \in Procs : q # p => pc'[q] = pc[q]
      BY <1>moves, <3>1
    <3>3. pc'[p] # "submit" => \A q \in Procs : pc'[q] # "submit"
      BY <2>1, <3>2
    <3> QED BY <3>3 DEF BufferInv
  <2>3. CASE cmd[at[p]].id = "silent"
    <3>1. Done(p, "idle") /\ cmd' = [cmd EXCEPT ![at[p]] = Freed(at[p])]
      BY <1>2, <2>3 DEF Submit, Free
    <3>2. Uses(p) /\ ~Queued(at[p])
      BY <1>0, <2>0, <2>3 DEF Uses, Queued, QueueInv
    <3>3. Frame(p) /\ pc'[p] = "idle"
      BY <1>frees, <1>moves, <3>1, <3>2
    <3>4. ~Loud(buf)
      BY <2>1, <2>3 DEF Loud, Msg
    <3> QED BY <2>0, <2>2, <3>3, <3>4, StandsBack DEF Sending
  <2>4. CASE cmd[at[p]].id # "silent"
    <3>1. Goes(p, "wait") /\ cmd' = cmd
      BY <1>2, <2>4 DEF Submit
    <3>2. Frame(p) /\ at' = at /\ pc'[p] = "wait"
      BY <1>moves, <1>stays, <3>1
    <3>3. Answered' /\ (Orderly' => Orderly)
      BY <2>0, <3>1, <3>2, StandsBack
    <3>4. ASSUME Orderly' PROVE FlightInv'
      <4>1. FlightInv
        BY <3>3, <3>4
      <4>2. Queued(at[p]) /\ Readies(p)
        BY <2>0, <2>4, <4>1 DEF FlightInv, Readies
      <4>3. /\ at[p] = cmds[1] /\ cmds # << >> /\ cmd[at[p]].push = FALSE
            /\ \A q \in Procs : Readies(q) => at[q] = cmds[1]
        <5>1. \A q \in Procs : Readies(q) => Sending(q) /\ Queued(at[q])
          BY <4>1 DEF FlightInv, Readies, Sending
        <5> QED BY <1>0, <2>0, <4>2, <5>1 DEF Holds, Sending, Queued
      <4>4. \A q \in Procs : ~Readies(q)'
        <5>1. \A q \in Procs : Readies(q) => q = p
          BY <1>0, <4>2, <4>3 DEF OneHolder, Readies, Uses
        <5>2. \A q \in Procs : q # p => ~Readies(q)'
          BY <1>moves, <3>1, <5>1 DEF Readies
        <5> QED BY <3>2, <5>2 DEF Readies
      <4>5. \A i \in DOMAIN inbox' : ~Loud(inbox'[i])
        BY <2>0, <4>1, <4>2 DEF FlightInv, Awaited
      <4>6. Awaited(buf)'
        BY <2>0, <2>1, <3>1, <3>2, <4>3, <4>4 DEF Awaited, Msg
      <4> QED BY <4>4, <4>5, <4>6 DEF FlightInv, Loud
    <3> QED BY <2>2, <3>2, <3>3, <3>4
  <2> QED BY <2>3, <2>4
<1>3. CASE WaitEnds(p)
  <2>1. /\ pc[p] = "wait" /\ cmd[at[p]].complete = TRUE
        /\ UNCHANGED <<cmds, crashed, buf, txstate, txHeld, inbox>>
        /\ Done(p, AfterWait(p)) /\ cmd' = [cmd EXCEPT ![at[p]] = Freed(at[p])]
    BY <1>3, <1>t DEF WaitEnds, Free, Commands, bus
  <2>2. Uses(p) /\ ~Queued(at[p]) /\ AfterWait(p) \in {"idle", "scan"}
    BY <1>0, <2>1 DEF Uses, Queued, QueueInv, AfterWait
  <2>3. Frame(p) /\ ~Sending(p)'
    BY <1>frees, <1>moves, <2>1, <2>2 DEF Sending
  <2>4. Loaded' => Loaded
    BY <2>1 DEF Loaded
  <2> QED BY <2>1, <2>3, <2>4, StandsBack
<1>4. CASE TimeOut(p)
  <2>1. pc[p] = "wait" /\ Goes(p, "timedout")
        /\ UNCHANGED <<cmds, cmd, crashed, buf, txstate, txHeld, inbox>>
    BY <1>4 DEF TimeOut, mgr, bus
  <2>2. Frame(p) /\ at' = at /\ pc'[p] = "timedout"
    BY <1>moves, <1>stays, <2>1
  <2>3. Loaded' => Loaded
    BY <2>1 DEF Loaded
  <2> QED BY <2>1, <2>2, <2>3, StandsBack
<1>5. CASE Crash(p)
  <2>1. CrashFacts(p)
    BY <1>0, <1>5, CrashLemma DEF SlotInv
  <2>2. /\ pc[p] = "timedout" /\ crashed' = TRUE /\ pc'[p] \in {"idle", "scan"}
        /\ \A q \in Procs : q # p => pc'[q] = pc[q] /\ at'[q] = at[q]
        /\ UNCHANGED <<buf, txstate, txHeld, inbox>>
    BY <1>moves, <2>1 DEF CrashFacts, AfterWait, bus
  <2>3. Loaded' => Loaded
    BY <2>2 DEF Loaded
  <2>4. CASE UNCHANGED <<cmds, cmd>>
    <3>1. Frame(p) /\ ~Sending(p)'
      BY <2>2, <2>4 DEF Frame, Sending
    <3> QED BY <2>2, <2>3, <2>4, <3>1, StandsBack
  <2>5. CASE /\ Queued(at[p]) /\ cmds' = Without(at[p])
             /\ cmd' = [cmd EXCEPT ![at[p]].done = TRUE]
    <3>1. \A q \in Procs : /\ cmd'[at[q]].id = cmd[at[q]].id
                           /\ cmd'[at[q]].tkn = cmd[at[q]].tkn
                           /\ cmd'[at[q]].complete = cmd[at[q]].complete
                           /\ cmd'[at[q]].got = cmd[at[q]].got
      <4>1. \A r \in Slots : cmd[r] \in Commands
        BY <1>0 DEF TypeOK
      <4> QED BY <1>0, <1>t, <2>5, <4>1 DEF TypeOK, Commands
    <3>2. \A q \in Procs : Sending(q)' => q # p /\ Sending(q) /\ at'[q] = at[q]
      BY <2>2 DEF Sending
    <3>3. BufferInv'
      <4>1. \A q \in Procs : pc'[q] = "submit" => pc[q] = "submit" /\ at'[q] = at[q]
        BY <2>2
      <4> QED BY <2>2, <2>3, <3>1, <4>1, BufferKept
    <3>4. Answered'
      <4>1. crashed \in BOOLEAN
        BY <1>0 DEF TypeOK
      <4> QED BY <2>2, <3>1, <3>2, <4>1, AnsweredKept
    <3>5. ~Orderly'
      <4> SUFFICES ASSUME NEW c \in Callers, Sending(c)', Queued(at[c])'
                   PROVE  FALSE
        BY <2>2 DEF Orderly, Active
      <4>1. c \in Procs /\ c # p /\ Sending(c) /\ at'[c] = at[c]
        BY <3>2, ProcsFacts
      <4>2. PICK i \in DOMAIN cmds' : cmds'[i] = at[c]
        BY <4>1 DEF Queued
      <4>3. \A j \in DOMAIN cmds' : \E k \in DOMAIN cmds : cmds'[j] = cmds[k]
        BY <1>0, <2>5, Removal DEF TypeOK, QueueInv
      <4>4. Queued(at[c])
        BY <4>2, <4>3 DEF Queued
      <4>5. at[c] = cmds[1] /\ at[p] = cmds[1]
        BY <1>0, <2>2, <2>5, <4>1, <4>4 DEF Holds, Sending
      <4> QED BY <1>0, <2>2, <4>1, <4>5 DEF OneHolder, Uses, Sending
    <3> QED BY <3>3, <3>4, <3>5
  <2> QED BY <2>1, <2>4, <2>5 DEF CrashFacts
<1> QED BY <1>1, <1>2, <1>3, <1>4, <1>5 DEF Push

(* The confirm that comes is that of the head of the queue, the only one    *)
(* on its way.                                                              *)
LEMMA AnswerStepRest ==
  ASSUME SlotInv, Work \/ Tx \/ TxFails \/ Answer \/ UNCHANGED vars,
         BufferInv, Orderly => FlightInv, Answered
  PROVE  BufferInv' /\ (Orderly' => FlightInv') /\ Answered'
<1>0. TypeOK /\ QueueInv /\ OneHolder /\ \A q \in Procs : Holds(q)
  BY HolderParts DEF SlotInv
<1>t. \A q \in Procs : at[q] \in Slots
  BY <1>0 DEF TypeOK
<1>1. CASE Work
  <2>1. /\ UNCHANGED <<cmds, cmd, crashed, buf, txstate, txHeld, inbox>>
        /\ pc[Worker] \in {"idle", "scan"}
    BY <1>1 DEF Work, WorkStarts, WorkScans, mgr, bus
  <2>2. \A q \in Procs : q # Worker => pc'[q] = pc[q] /\ at'[q] = at[q]
    BY <1>0, <1>1 DEF Work, WorkStarts, WorkScans, Goes, TypeOK
  <2>3. Frame(Worker) /\ (Loaded' => Loaded)
    BY <2>1, <2>2 DEF Frame, Loaded
  <2>4. CASE pc'[Worker] \in {"idle", "scan"}
    BY <2>1, <2>3, <2>4, StandsBack, ProcsFacts DEF Sending
  <2>5. CASE WorkScans /\ HeadToPush
    <3>1. pc'[Worker] = "write" /\ at'[Worker] = cmds[1]
      BY <1>0, <2>5, ProcsFacts DEF WorkScans, TypeOK
    <3>2. 1 \in DOMAIN cmds /\ cmds[1] \in Slots /\ cmd[cmds[1]].push = TRUE
      BY <1>0, <2>5 DEF HeadToPush, TypeOK, Commands
    <3>3. BufferInv'
      <4>1. \A q \in Procs : pc'[q] = "submit" => pc[q] = "submit" /\ at'[q] = at[q]
        BY <2>2, <3>1
      <4> QED BY <2>1, <2>3, <4>1, BufferKept
    <3>4. Answered'
      <4>1. cmd'[at'[Worker]].complete = FALSE
        BY <1>0, <2>1, <3>1, <3>2 DEF QueueInv
      <4>2. \A q \in Procs : q # Worker => (Sending(q)' => Sending(q) /\ at'[q] = at[q])
        BY <2>2 DEF Sending
      <4>3. crashed' = crashed /\ crashed \in BOOLEAN
        BY <1>0, <2>1 DEF TypeOK
      <4> QED BY <2>1, <4>1, <4>2, <4>3, AnsweredKept
    <3>5. ASSUME Orderly' PROVE FlightInv'
      <4>1. FlightInv
        <5>1. \A c \in Callers : Sending(c)' /\ cmd'[at'[c]].id # "silent" /\ Queued(at[c])'
                => Sending(c) /\ cmd[at[c]].id # "silent" /\ Queued(at[c])
          BY <2>1, <2>2, ProcsFacts DEF Sending, Queued
        <5> QED BY <2>1, <3>5, <5>1, ActiveBack DEF Orderly
      <4>2. \A i \in DOMAIN inbox' : ~Loud(inbox'[i])
        BY <2>1, <3>2, <4>1 DEF FlightInv, Awaited
      <4>3. ~(Loaded' /\ Loud(buf'))
        BY <2>1, <2>3, <3>2, <4>1 DEF FlightInv, Awaited
      <4>4. \A q \in Procs : Readies(q)' => Queued(at[q])'
        <5>1. Queued(at[Worker])'
          BY <2>1, <3>1, <3>2 DEF Queued
        <5>2. \A q \in Procs : q # Worker => (Readies(q)' => Readies(q) /\ at'[q] = at[q])
          BY <2>1, <2>2 DEF Readies
        <5> QED BY <2>1, <4>1, <5>1, <5>2 DEF FlightInv, Queued
      <4> QED BY <4>2, <4>3, <4>4, FlightEmpty
    <3> QED BY <3>3, <3>4, <3>5
  <2>6. pc'[Worker] \in {"idle", "scan"} \/ (WorkScans /\ HeadToPush)
    BY <1>0, <1>1, ProcsFacts DEF Work, WorkStarts, WorkScans, Goes, TypeOK
  <2> QED BY <2>4, <2>5, <2>6
<1>2. ASSUME UNCHANGED <<cmds, cmd, crashed, pc, at, buf>>, Loaded' => Loaded
      PROVE  /\ BufferInv' /\ Answered' /\ (Orderly' => Orderly)
             /\ (Orderly' /\ inbox' = inbox => FlightInv')
  <2>1. BufferInv'
    BY <1>2, BufferKept
  <2>2. Answered'
    <3>1. crashed \in BOOLEAN /\ \A q \in Procs : Sending(q)' => Sending(q)
      BY <1>0, <1>2 DEF TypeOK, Sending
    <3> QED BY <1>2, <3>1, AnsweredKept
  <2>3. Orderly' => Orderly
    <3>1. \A c \in Callers : Sending(c)' /\ cmd'[at'[c]].id # "silent" /\ Queued(at[c])'
            => Sending(c) /\ cmd[at[c]].id # "silent" /\ Queued(at[c])
      BY <1>2 DEF Sending, Queued
    <3> QED BY <1>2, <3>1, ActiveBack DEF Orderly
  <2>4. ASSUME Orderly', inbox' = inbox PROVE FlightInv'
    <3>1. FlightInv
      BY <2>3, <2>4
    <3>2. \A q \in Procs : Readies(q)' => Readies(q) /\ Queued(at[q])'
      BY <1>2, <3>1 DEF FlightInv, Readies, Queued
    <3> QED BY <1>2, <2>4, <3>1, <3>2, FlightKept
  <2> QED BY <2>1, <2>2, <2>3, <2>4
<1>3. CASE TxDone \/ TxFails \/ UNCHANGED vars
  <2>1. UNCHANGED <<cmds, cmd, crashed, pc, at, buf, inbox>>
    BY <1>3 DEF TxDone, TxFails, vars, mgr, bus
  <2>2. Loaded' => Loaded
    BY <1>0, <1>3 DEF TxDone, TxFails, vars, bus, Loaded, TypeOK
  <2> QED BY <1>2, <2>1, <2>2
<1>4. CASE TxSend
  <2>1. UNCHANGED <<cmds, cmd, crashed, pc, at, buf, txstate>> /\ txHeld = FALSE
    BY <1>0, <1>4 DEF TxSend, mgr, TypeOK
  <2>2. CASE txstate = FALSE
    <3>1. inbox' = inbox /\ (Loaded' => Loaded)
      BY <1>4, <2>1, <2>2 DEF TxSend, Loaded
    <3> QED BY <1>2, <2>1, <3>1
  <2>3. CASE txstate = TRUE
    <3>1. Loaded /\ ~Loaded' /\ inbox' = Append(inbox, buf)
      BY <1>4, <2>1, <2>3 DEF TxSend, Loaded
    <3>2. ASSUME Orderly' PROVE FlightInv'
      <4>1. FlightInv
        BY <1>2, <2>1, <3>1, <3>2
      <4>2. /\ DOMAIN inbox' = 1 .. Len(inbox) + 1 /\ DOMAIN inbox = 1 .. Len(inbox)
            /\ \A i \in 1 .. Len(inbox) : inbox'[i] = inbox[i]
            /\ inbox'[Len(inbox) + 1] = buf /\ Len(inbox) \in Nat
        BY <1>0, <3>1, AppendProperties DEF TypeOK
      <4>3. \A m : Awaited(m) => Awaited(m)'
        BY <2>1 DEF Awaited, Msg, Readies
      <4>4. \A q \in Procs : Readies(q)' => Queued(at[q])'
        BY <2>1, <4>1 DEF FlightInv, Readies, Queued
      <4>5. CASE Loud(buf)
        <5>1. \A i \in 1 .. Len(inbox) : ~Loud(inbox'[i])
          BY <3>1, <4>1, <4>2, <4>5 DEF FlightInv
        <5>2. Awaited(buf) /\ Awaited(buf)'
          <6>1. Awaited(buf)
            BY <3>1, <4>1, <4>5 DEF FlightInv
          <6>2. Awaited(buf)'
            BY <2>1, <6>1 DEF Awaited, Msg, Readies
          <6> QED BY <6>1, <6>2
        <5>3. \A i \in DOMAIN inbox' : Loud(inbox'[i]) => i = Len(inbox) + 1
          BY <4>2, <5>1
        <5>4. \A i \in DOMAIN inbox' : Loud(inbox'[i]) => Awaited(inbox[i])'
          BY <2>1, <4>2, <5>2, <5>3
        <5> QED BY <3>1, <4>4, <5>3, <5>4 DEF FlightInv, Loud
      <4>6. CASE ~Loud(buf)
        <5>1. \A i \in DOMAIN inbox' : Loud(inbox'[i]) =>
                i \in 1 .. Len(inbox) /\ inbox'[i] = inbox[i]
          BY <4>2, <4>6
        <5>2. \A i \in DOMAIN inbox' : Loud(inbox'[i]) => Awaited(inbox[i])'
          BY <4>1, <4>2, <4>3, <5>1 DEF FlightInv
        <5>3. \A i, j \in DOMAIN inbox' : Loud(inbox'[i]) /\ Loud(inbox'[j]) => i = j
          BY <4>1, <4>2, <5>1 DEF FlightInv
        <5> QED BY <3>1, <4>4, <5>2, <5>3 DEF FlightInv, Loud
      <4> QED BY <4>5, <4>6
    <3> QED BY <1>2, <2>1, <3>1, <3>2
  <2> QED BY <1>0, <2>2, <2>3 DEF TypeOK
<1>5. CASE Answer
  <2>0. /\ UNCHANGED <<pc, at, buf, txstate, txHeld>> /\ inbox # << >>
        /\ inbox' = Tail(inbox)
    BY <1>0, <1>5, AnswerFacts DEF bus
  <2>1. /\ DOMAIN inbox' = 1 .. Len(inbox) - 1 /\ DOMAIN inbox = 1 .. Len(inbox)
        /\ \A i \in 1 .. Len(inbox) - 1 : inbox'[i] = inbox[i + 1]
        /\ Len(inbox) \in Nat /\ 1 \in 1 .. Len(inbox)
    BY <1>0, <2>0 DEF TypeOK
  <2>2. Loaded' <=> Loaded
    BY <2>0 DEF Loaded
  <2>3. CASE UNCHANGED mgr
    <3>1. UNCHANGED <<cmds, cmd, crashed>>
      BY <2>3 DEF mgr
    <3>2. BufferInv' /\ Answered' /\ (Orderly' => Orderly)
      BY <1>2, <2>0, <2>2, <3>1
    <3>3. ASSUME Orderly' PROVE FlightInv'
      <4>1. FlightInv
        BY <3>2, <3>3
      <4>2. \A m : Awaited(m) => Awaited(m)'
        BY <2>0, <3>1 DEF Awaited, Msg, Readies
      <4>3. \A q \in Procs : Readies(q)' => Queued(at[q])'
        BY <2>0, <3>1, <4>1 DEF FlightInv, Readies, Queued
      <4>4. \A i \in DOMAIN inbox' : i + 1 \in DOMAIN inbox /\ inbox'[i] = inbox[i + 1]
        BY <2>1
      <4>5. \A i \in DOMAIN inbox' : Loud(inbox'[i]) =>
              Awaited(inbox[i])' /\ ~(Loaded' /\ Loud(buf'))
        BY <2>0, <2>2, <4>1, <4>2, <4>4 DEF FlightInv
      <4>6. \A i, j \in DOMAIN inbox' : Loud(inbox'[i]) /\ Loud(inbox'[j]) => i = j
        <5> SUFFICES ASSUME NEW i \in DOMAIN inbox', NEW j \in DOMAIN inbox',
                            Loud(inbox'[i]), Loud(inbox'[j])
                     PROVE  i = j
          OBVIOUS
        <5>1. i + 1 = j + 1
          BY <4>1, <4>4 DEF FlightInv
        <5>2. i \in Nat /\ j \in Nat
          BY <2>1
        <5> QED BY <5>1, <5>2
      <4>7. Loaded' /\ Loud(buf') => Awaited(buf)'
        BY <2>0, <2>2, <4>1, <4>2 DEF FlightInv
      <4> QED BY <4>3, <4>5, <4>6, <4>7 DEF FlightInv, Loud
    <3> QED BY <3>2, <3>3
  <2>4. CASE ~UNCHANGED mgr
    <3>1. PICK k \in DOMAIN cmds :
            /\ Loud(inbox[1]) /\ Matches(cmds[k], inbox[1])
            /\ cmd' = Completed(cmds[k], inbox[1]) /\ cmds' = Without(cmds[k])
            /\ UNCHANGED <<crashed, next_tkn>>
      BY <1>0, <1>5, <2>4, AnswerFacts
    <3> DEFINE s == cmds[k]
    <3>2. s \in Slots /\ Queued(s) /\ cmd[s] \in Commands /\ cmd[s].id # "silent"
      BY <1>0 DEF Queued, TypeOK, QueueInv
    <3>3. cmd' = [cmd EXCEPT ![s].cfm = FALSE, ![s].done = TRUE,
                             ![s].complete = TRUE, ![s].got = inbox[1].tkn]
      BY <3>1 DEF Completed
    <3>4. cmds' = Without(s)
      BY <3>1
    <3> HIDE DEF s
    <3>5. /\ \A r \in Slots : r # s => cmd'[r] = cmd[r]
          /\ cmd'[s].id = cmd[s].id /\ cmd'[s].tkn = cmd[s].tkn
          /\ cmd'[s].got = inbox[1].tkn
      BY <1>0, <3>2, <3>3 DEF TypeOK, Commands
    <3>6. \A q \in Procs : cmd'[at[q]].id = cmd[at[q]].id
                           /\ cmd'[at[q]].tkn = cmd[at[q]].tkn
      BY <1>t, <3>5
    <3>7. \A q \in Procs : Sending(q)' => Sending(q)
      BY <2>0 DEF Sending
    <3>8. BufferInv'
      BY <2>0, <2>2, <3>6, BufferKept
    <3>9. Orderly' => Orderly
      <4>1. \A i \in DOMAIN cmds' : \E j \in DOMAIN cmds : cmds'[i] = cmds[j]
        BY <1>0, <3>2, <3>4, Removal DEF TypeOK, QueueInv
      <4>2. \A c \in Callers : Sending(c)' /\ cmd'[at'[c]].id # "silent" /\ Queued(at[c])'
              => Sending(c) /\ cmd[at[c]].id # "silent" /\ Queued(at[c])
        BY <2>0, <3>6, <3>7, <4>1, ProcsFacts DEF Queued
      <4> QED BY <3>1, <4>2, ActiveBack DEF Orderly
    <3>10. Answered'
      <4> SUFFICES ASSUME NEW q \in Procs, Sending(q)', cmd'[at'[q]].complete = TRUE,
                          crashed' = TRUE => q # Worker
                   PROVE  cmd'[at'[q]].got = cmd'[at'[q]].tkn
        BY DEF Answered
      <4>1. Sending(q) /\ at'[q] = at[q] /\ crashed' = crashed
        BY <2>0, <3>1, <3>7
      <4>2. CASE at[q] # s
        <5>1. cmd'[at[q]] = cmd[at[q]]
          BY <1>t, <3>5, <4>2
        <5> QED BY <4>1, <5>1 DEF Answered
      <4>3. CASE at[q] = s
        <5>1. Orderly
          <6>1. crashed = TRUE => q \in Callers
            BY <4>1 DEF Procs
          <6>2. crashed = TRUE => Active
            BY <3>2, <4>1, <4>3, <6>1 DEF Active
          <6> QED BY <1>0, <6>2 DEF Orderly, TypeOK
        <5>2. Awaited(inbox[1])
          BY <2>1, <3>1, <5>1 DEF FlightInv
        <5>3. at[q] = cmds[1]
          BY <1>0, <3>2, <4>1, <4>3 DEF Holds
        <5>4. inbox[1].tkn = cmd[s].tkn
          BY <4>3, <5>2, <5>3 DEF Awaited, Msg
        <5> QED BY <3>5, <4>1, <4>3, <5>4
      <4> QED BY <4>2, <4>3
    <3>11. ASSUME Orderly' PROVE FlightInv'
      <4>1. FlightInv
        BY <3>9, <3>11
      <4>2. Awaited(inbox[1]) /\ ~(Loaded /\ Loud(buf))
        BY <2>1, <3>1, <4>1 DEF FlightInv
      <4>3. \A i \in DOMAIN inbox' : ~Loud(inbox'[i])
        <5> SUFFICES ASSUME NEW i \in DOMAIN inbox', Loud(inbox'[i]) PROVE FALSE
          OBVIOUS
        <5>1. i \in 1 .. Len(inbox) - 1 /\ i + 1 \in DOMAIN inbox /\ inbox'[i] = inbox[i + 1]
          BY <2>1
        <5>2. i + 1 = 1
          BY <2>1, <3>1, <4>1, <5>1 DEF FlightInv
        <5> QED BY <5>1, <5>2
      <4>4. \A q \in Procs : ~Readies(q)'
        BY <2>0, <3>6, <4>2 DEF Readies, Awaited
      <4> QED BY <2>0, <2>2, <4>2, <4>3, <4>4, FlightEmpty
    <3> QED BY <3>8, <3>10, <3>11
  <2> QED BY <2>3, <2>4
<1> QED BY <1>1, <1>3, <1>4, <1>5 DEF Tx

(* The whole invariant, in the initial state.                               *)
LEMMA CmdInit == Init => CmdInv
<1> SUFFICES ASSUME Init PROVE CmdInv OBVIOUS
<1>1. SlotInv
  BY TypeInit, SlotInit DEF SlotInv
<1>2. /\ \A p \in Procs : pc[p] = "idle"
      /\ inbox = << >> /\ ~Loaded
  BY DEF Init, Loaded
<1>3. BufferInv /\ FlightInv /\ Answered
  BY <1>2 DEF BufferInv, FlightInv, Answered, Readies, Sending
<1> QED BY <1>1, <1>3 DEF CmdInv, AnswerInv

(* A message was written over an unsent one once and for all.               *)
LEMMA CmdStep == CmdInv /\ [Next]_vars => CmdInv'
<1> SUFFICES ASSUME CmdInv, [Next]_vars PROVE CmdInv' OBVIOUS
<1>1. SlotInv /\ SlotInv'
  BY SlotStep DEF CmdInv
<1>2. ASSUME mixed' = FALSE PROVE AnswerInv'
  <2>1. mixed = FALSE
    <3>1. mixed \in BOOLEAN
      BY <1>1 DEF SlotInv, TypeOK
    <3>2. mixed = TRUE => mixed' = TRUE
      BY DEF Next, Call, Push, Work, Tx, WaitEmpty, Rejected, Queue, Wake, Send, Write,
             Submit, WaitEnds, TimeOut, Crash, WorkStarts, WorkScans, TxSend, TxDone,
             TxFails, Answer, vars, seen
    <3> QED BY <1>2, <3>1, <3>2
  <2>2. BufferInv /\ (Orderly => FlightInv) /\ Answered
    BY <2>1 DEF CmdInv, AnswerInv
  <2>3. BufferInv' /\ (Orderly' => FlightInv') /\ Answered'
    BY <1>1, <1>2, <2>2, AnswerStepCaller, AnswerStepPush, AnswerStepRest DEF Next
  <2> QED BY <2>3 DEF AnswerInv
<1> QED BY <1>1, <1>2 DEF CmdInv

(* Whoever waits for a command itself gets the confirm of that command      *)
(* (cmd_mgr_msgind() in rwnx_cmds.c, which matches by id only), for every   *)
(* number of callers, slots and messages.                                   *)
THEOREM AnswersAreOwn == Spec => []AnsweredByOwn
<1>1. ASSUME CmdInv PROVE AnsweredByOwn
  <2>1. TypeOK /\ QueueInv
    BY <1>1 DEF CmdInv, SlotInv
  <2>2. \A i \in DOMAIN cmds : ~crashed /\ i > 1 => cmd[cmds[i]].push
    BY <2>1 DEF TypeOK, QueueInv
  <2>3. ASSUME NEW p \in Procs, pc[p] = "wait", cmd[at[p]].complete, ~mixed,
               crashed => p # Worker
        PROVE  cmd[at[p]].got = cmd[at[p]].tkn
    <3>1. cmd[at[p]].complete = TRUE /\ mixed = FALSE /\ (crashed = TRUE => p # Worker)
      BY <2>1, <2>3 DEF TypeOK, Commands
    <3>2. Answered
      BY <1>1, <3>1 DEF CmdInv, AnswerInv
    <3> QED BY <2>3, <3>1, <3>2 DEF Answered, Sending
  <2> QED BY <2>2, <2>3 DEF AnsweredByOwn
<1> QED BY <1>1, CmdInit, CmdStep, PTL DEF Spec

=============================================================================
