--------------------------- MODULE RxReorderProofs --------------------------
(***************************************************************************)
(* What is proved of RxReorder for every width of the sequence numbers,    *)
(* window, pool and number of frames: types, and that nothing the driver   *)
(* does (a window that moves on, a timeout, work left over from it, a      *)
(* flush, a wrap of the numbers) lets a frame overtake one that came       *)
(* before it was given up.                                                 *)
(***************************************************************************)
EXTENDS RxReorder, WellFoundedInduction, SequenceTheorems, TLAPS

(* The least element of a set of numbers, which replaces induction below:   *)
(* a claim about all numbers fails, if it fails, for a least one.           *)
LEMMA LeastElement ==
  ASSUME NEW T \in SUBSET Nat, T # {}
  PROVE  \E m \in T : \A k \in T : m <= k
<1> DEFINE R == OpToRel(<, Nat)
<1>1. IsWellFoundedOn(R, Nat)
  BY NatLessThanWellFounded, Zenon
<1>2. \A k, m \in Nat : <<k, m>> \in R <=> k < m
  BY DEF OpToRel
<1> HIDE DEF R
<1>3. PICK m \in T : \A k \in T : ~ (<<k, m>> \in R)
  BY <1>1, WFMin
<1>4. \A k \in T : m <= k
  <2> TAKE k \in T
  <2>1. k \in Nat /\ m \in Nat /\ ~ (k < m)
    BY <1>2, <1>3
  <2> QED BY <2>1
<1> QED BY <1>4

(* Induction over the numbers, for a set instead of a predicate. *)
LEMMA SetInduction ==
  ASSUME NEW S, 0 \in S, \A n \in Nat : n \in S => n + 1 \in S
  PROVE  Nat \subseteq S
<1> SUFFICES ASSUME NEW n \in Nat, n \notin S PROVE FALSE
  OBVIOUS
<1> DEFINE T == {k \in Nat : k \notin S}
<1>1. PICK m \in T : \A k \in T : m <= k
  <2>1. T \in SUBSET Nat /\ T # {} OBVIOUS
  <2> QED BY <2>1, LeastElement
<1>2. m # 0 /\ m - 1 \in Nat
  OBVIOUS
<1>3. m - 1 \in S
  BY <1>1, <1>2
<1> QED BY <1>2, <1>3

(* Min picks that least element. *)
LEMMA MinIsLeast ==
  ASSUME NEW T \in SUBSET Nat, T # {}
  PROVE  Min(T) \in T /\ \A k \in T : Min(T) <= k
<1>1. \E m \in T : \A k \in T : m <= k
  BY LeastElement
<1> QED BY <1>1 DEF Min

-----------------------------------------------------------------------------
(* Sequence numbers and places *)

(* A frame's place, and where ind_sn may stand: one place after the last.   *)
Places == 1 .. MaxFrames + 1

(* What the assumptions say in numbers. *)
LEMMA Numbers ==
  /\ SnMod \in Nat /\ Half \in Nat /\ 2 * Half <= SnMod /\ SnMod <= 2 * Half + 1
  /\ WSize \in Nat /\ 1 <= WSize /\ WSize <= Half
  /\ First \in Nat /\ First < SnMod
  /\ MaxFrames \in Nat /\ 1 <= MaxFrames /\ MaxFrames + 1 <= Half
  /\ Pool \in Nat /\ 1 <= Pool
BY RxReorderAssumption DEF Half

(* A remainder when the modulus fits in at most once. *)
LEMMA ModOnce ==
  ASSUME NEW n \in Nat \ {0}, NEW a \in Nat, a < 2 * n
  PROVE  a % n = IF a < n THEN a ELSE a - n
<1>1. a \div n \in Nat /\ a = n * (a \div n) + (a % n) /\ a % n \in 0 .. n - 1
  OBVIOUS
<1> DEFINE d == a \div n   r == a % n
<1>2. d \in Nat /\ a = n * d + r /\ r \in Nat /\ r < n
  BY <1>1
<1> HIDE DEF d, r
<1>3. d = 0 \/ d = 1 \/ d >= 2
  BY <1>2
<1>4. ASSUME d >= 2 PROVE FALSE
  <2>1. n * d >= n * 2
    BY <1>2, <1>4
  <2>2. n * d \in Nat
    BY <1>2
  <2> QED BY <1>2, <2>1, <2>2
<1>5. CASE d = 0
  BY <1>2, <1>5 DEF r
<1>6. CASE d = 1
  BY <1>2, <1>6 DEF r
<1> QED BY <1>3, <1>4, <1>5, <1>6

(* The number of a place. *)
LEMMA SnValue ==
  ASSUME NEW p \in 1 .. SnMod
  PROVE  /\ Sn(p) \in 0 .. SnMod - 1
         /\ Sn(p) = IF First + p - 1 < SnMod THEN First + p - 1
                                             ELSE First + p - 1 - SnMod
<1> DEFINE a == First + p - 1
<1>1. a \in Nat /\ a < 2 * SnMod /\ SnMod \in Nat \ {0}
  BY Numbers
<1>2. Sn(p) = a % SnMod
  BY DEF Sn
<1>3. Sn(p) \in 0 .. SnMod - 1 /\ Sn(p) = IF a < SnMod THEN a ELSE a - SnMod
  <2> HIDE DEF a
  <2>1. a % SnMod = IF a < SnMod THEN a ELSE a - SnMod
    BY <1>1, ModOnce
  <2> QED BY <1>1, <1>2, <2>1
<1> QED BY <1>3, Numbers

(* The distance of two numbers, counted round, is that of the places.       *)
LEMMA SnDistance ==
  ASSUME NEW p \in 1 .. SnMod, NEW q \in 1 .. SnMod
  PROVE  ((Sn(p) + SnMod) - Sn(q)) % SnMod = IF p >= q THEN p - q ELSE p - q + SnMod
<1> DEFINE a == (Sn(p) + SnMod) - Sn(q)
<1>0. /\ Sn(p) \in 0 .. SnMod - 1 /\ Sn(q) \in 0 .. SnMod - 1
      /\ Sn(p) = First + p - 1 \/ Sn(p) = First + p - 1 - SnMod
      /\ Sn(q) = First + q - 1 \/ Sn(q) = First + q - 1 - SnMod
  BY SnValue
<1>1. a \in Nat /\ a < 2 * SnMod /\ SnMod \in Nat \ {0}
  BY <1>0, Numbers
<1>2. a % SnMod = IF a < SnMod THEN a ELSE a - SnMod
  BY <1>1, ModOnce
<1>3. (IF a < SnMod THEN a ELSE a - SnMod) = IF p >= q THEN p - q ELSE p - q + SnMod
  BY <1>0, Numbers
<1> QED BY <1>2, <1>3

(* SN_LESS() and SN_EQUAL() compare places. *)
LEMMA SnOrder ==
  ASSUME NEW p \in 1 .. SnMod, NEW q \in 1 .. SnMod, p - q < Half, q - p < Half
  PROVE  /\ Less(Sn(p), Sn(q)) <=> p < q
         /\ Sn(p) = Sn(q) <=> p = q
<1>1. ((Sn(p) + SnMod) - Sn(q)) % SnMod = IF p >= q THEN p - q ELSE p - q + SnMod
  BY SnDistance
<1>2. Less(Sn(p), Sn(q)) <=> p < q
  BY <1>1, Numbers DEF Less
<1>3. Sn(p) = Sn(q) => p = q
  <2>1. /\ Sn(p) = First + p - 1 \/ Sn(p) = First + p - 1 - SnMod
        /\ Sn(q) = First + q - 1 \/ Sn(q) = First + q - 1 - SnMod
    BY SnValue
  <2> QED BY <2>1, Numbers
<1> QED BY <1>2, <1>3

LEMMA PlacesAreNear ==
  ASSUME NEW p \in Places, NEW q \in Places
  PROVE  p \in 1 .. SnMod /\ q \in 1 .. SnMod /\ p - q < Half /\ q - p < Half
BY Numbers DEF Places

(* Moving a number on moves the place on. *)
LEMMA SnShift ==
  ASSUME NEW p \in 1 .. SnMod, NEW d \in Nat, p + d <= SnMod
  PROVE  (Sn(p) + d) % SnMod = Sn(p + d)
<1> DEFINE x == Sn(p)   y == Sn(p + d)   a == First + p - 1
<1>1. p + d \in 1 .. SnMod
  BY Numbers
<1>2. y \in 0 .. SnMod - 1 /\ (y = First + (p + d) - 1 \/ y = First + (p + d) - 1 - SnMod)
  BY <1>1, SnValue
<1>3. x \in 0 .. SnMod - 1 /\ (x = a \/ x = a - SnMod)
  <2>1. x = First + p - 1 \/ x = First + p - 1 - SnMod
    BY SnValue
  <2> QED BY <2>1, SnValue, Numbers
<1>4. a \in Nat /\ First + (p + d) - 1 = a + d
  BY Numbers
<1>5. y = a + d \/ y = a + d - SnMod
  BY <1>2, <1>4, Numbers
<1>6. (x + d) % SnMod = y
  <2> HIDE DEF x, y, a
  <2> DEFINE b == x + d
  <2>1. b \in Nat /\ b < 2 * SnMod /\ SnMod \in Nat \ {0}
    BY <1>3, Numbers
  <2>2. y = IF b < SnMod THEN b ELSE b - SnMod
    BY <1>2, <1>3, <1>4, <1>5, Numbers
  <2> HIDE DEF b
  <2>3. b % SnMod = y
    BY <2>1, <2>2, ModOnce
  <2> QED BY <2>3 DEF b
<1> QED BY <1>6

LEMMA AfterPlace ==
  ASSUME NEW f \in Frames
  PROVE  After(Sn(f)) = Sn(f + 1) /\ f + 1 \in Places
<1>1. f \in 1 .. SnMod /\ 1 \in Nat /\ f + 1 <= SnMod
  BY Numbers DEF Frames
<1>2. (Sn(f) + 1) % SnMod = Sn(f + 1)
  BY <1>1, SnShift
<1> QED BY <1>2, Numbers DEF After, Frames, Places

LEMMA PrecedesPlace ==
  ASSUME NEW f \in Frames, NEW p \in Places
  PROVE  Precedes(f, Sn(p)) <=> f < p
<1>1. f \in Places /\ p \in 1 .. SnMod /\ f \in 1 .. SnMod
  BY Numbers DEF Frames, Places
<1>2. ((Sn(p) + SnMod) - Sn(f)) % SnMod = IF p >= f THEN p - f ELSE p - f + SnMod
  BY <1>1, SnDistance
<1> QED BY <1>1, <1>2, Numbers, PlacesAreNear DEF Precedes

LEMMA SnBack ==
  ASSUME NEW f \in 1 .. SnMod, NEW d \in Nat, d < f, d < SnMod
  PROVE  (Sn(f) + SnMod - d) % SnMod = Sn(f - d)
<1> DEFINE x == Sn(f)   y == Sn(f - d)   a == First + f - 1
<1>1. f - d \in 1 .. SnMod
  BY Numbers
<1>2. y \in 0 .. SnMod - 1 /\ (y = First + (f - d) - 1 \/ y = First + (f - d) - 1 - SnMod)
  BY <1>1, SnValue
<1>3. x \in 0 .. SnMod - 1 /\ (x = a \/ x = a - SnMod)
  <2>1. x = First + f - 1 \/ x = First + f - 1 - SnMod
    BY SnValue
  <2> QED BY <2>1, SnValue, Numbers
<1>4. a \in Nat /\ First + (f - d) - 1 = a - d
  BY Numbers
<1>5. y = a - d \/ y = a - d - SnMod
  BY <1>2, <1>4, Numbers
<1>6. (x + SnMod - d) % SnMod = y
  <2> HIDE DEF x, y, a
  <2> DEFINE b == x + SnMod - d
  <2>1. b \in Nat /\ b < 2 * SnMod /\ SnMod \in Nat \ {0}
    BY <1>3, Numbers
  <2>2. y = IF b < SnMod THEN b ELSE b - SnMod
    BY <1>2, <1>3, <1>4, <1>5, Numbers
  <2> HIDE DEF b
  <2>3. b % SnMod = y
    BY <2>1, <2>2, ModOnce
  <2> QED BY <2>3 DEF b
<1> QED BY <1>6

(* reord_need_check(): what it leaves in ind_sn for a frame that is not late. *)
LEMMA CheckedFirst ==
  ASSUME NEW f \in Frames, ind_sn = Unset
  PROVE  Checked(f) = Sn(f + 1)
BY AfterPlace DEF Checked

LEMMA CheckedPlace ==
  ASSUME NEW f \in Frames, NEW p \in Places, ind_sn = Sn(p), p <= f
  PROVE  Checked(f) = Sn(IF f = p THEN p + 1
                         ELSE IF f > p + WSize - 1 THEN f - (WSize - 1) ELSE p)
<1> DEFINE e == p + (WSize - 1)
<1>1. /\ f \in Places /\ f \in 1 .. SnMod /\ p \in 1 .. SnMod /\ p - f < Half /\ f - p < Half
      /\ e \in 1 .. SnMod /\ e - f < Half /\ f - e < Half /\ WSize - 1 \in Nat /\ e <= SnMod
      /\ WSize - 1 < SnMod
  BY Numbers DEF Frames, Places
<1>2. ind_sn = Sn(f) <=> p = f
  BY <1>1, SnOrder
<1>3. ind_sn # Unset
  BY <1>1, SnValue, Numbers DEF Unset
<1>4. WindowEnd = Sn(e)
  <2>1. (Sn(p) + (WSize - 1)) % SnMod = Sn(e)
    BY <1>1, SnShift
  <2>2. ind_sn + WSize - 1 = Sn(p) + (WSize - 1)
    BY <1>1, SnValue, Numbers
  <2> QED BY <2>1, <2>2 DEF WindowEnd
<1>5. Less(WindowEnd, Sn(f)) <=> e < f
  BY <1>1, <1>4, SnOrder
<1>6. e < f => (Sn(f) + SnMod - (WSize - 1)) % SnMod = Sn(f - (WSize - 1))
  <2> SUFFICES ASSUME e < f PROVE (Sn(f) + SnMod - (WSize - 1)) % SnMod = Sn(f - (WSize - 1))
    OBVIOUS
  <2>1. WSize - 1 < f
    BY <1>1, Numbers
  <2> QED BY <1>1, <2>1, SnBack
<1>7. CASE f = p
  BY <1>2, <1>7, AfterPlace DEF Checked
<1>8. CASE f # p /\ e < f
  <2>1. Checked(f) = Sn(f - (WSize - 1))
    BY <1>2, <1>3, <1>5, <1>6, <1>8 DEF Checked, WindowStart
  <2>2. f > p + WSize - 1
    BY <1>1, <1>8, Numbers
  <2> QED BY <1>8, <2>1, <2>2
<1>9. CASE f # p /\ ~(e < f)
  <2>1. Checked(f) = Sn(p)
    BY <1>2, <1>3, <1>5, <1>9 DEF Checked
  <2>2. ~(f > p + WSize - 1)
    BY <1>1, <1>9, Numbers
  <2> QED BY <1>9, <2>1, <2>2
<1> QED BY <1>7, <1>8, <1>9

-----------------------------------------------------------------------------
(* The list of held frames *)

Ordered(l) == \A i, j \in DOMAIN l : i < j => l[i] < l[j]

LEMMA FrameIsPlace ==
  ASSUME NEW f \in Frames
  PROVE  f \in Places /\ f \in Nat /\ f >= 1
BY Numbers DEF Frames, Places

(* Comparing the number of a frame with the number of a place. *)
LEMMA LessPlaces ==
  ASSUME NEW p \in Places, NEW q \in Places
  PROVE  /\ Less(Sn(p), Sn(q)) <=> p < q
         /\ Sn(p) = Sn(q) <=> p = q
BY PlacesAreNear, SnOrder

(* reord_rxframes_ind() gives up the frames up to the first one beyond ind_sn. *)
LEMMA ReadyCount ==
  ASSUME NEW l \in Seq(Frames), NEW q \in Places
  PROVE  /\ Ready(l, Sn(q)) \in 0 .. Len(l)
         /\ \A i \in 1 .. Ready(l, Sn(q)) : l[i] <= q
         /\ Ready(l, Sn(q)) < Len(l) => l[Ready(l, Sn(q)) + 1] > q
<1> DEFINE I == {i \in 1 .. Len(l) : Less(Sn(q), Sn(l[i]))}
           k == IF I # {} THEN Min(I) ELSE 0
<1>1. Len(l) \in Nat /\ q \in Nat /\ \A i \in 1 .. Len(l) : l[i] \in Places /\ l[i] \in Nat
  BY FrameIsPlace DEF Places
<1>2. \A i \in 1 .. Len(l) : i \in I <=> q < l[i]
  BY <1>1, LessPlaces
<1>3. Ready(l, Sn(q)) = Before(l, k)
  BY DEF Ready, SelectInSeq
<1>4. I \subseteq 1 .. Len(l) /\ I \in SUBSET Nat
  BY <1>1
<1> HIDE DEF I
<1>5. CASE I = {}
  <2>1. Ready(l, Sn(q)) = Len(l)
    BY <1>3, <1>5 DEF Before
  <2> QED BY <1>1, <1>2, <1>5, <2>1
<1>6. CASE I # {}
  <2>1. k \in I /\ \A i \in I : k <= i
    BY <1>4, <1>6, MinIsLeast
  <2> HIDE DEF k
  <2>2. k \in 1 .. Len(l) /\ Ready(l, Sn(q)) = k - 1
    BY <1>1, <1>3, <1>4, <2>1 DEF Before
  <2>3. \A i \in 1 .. k - 1 : i \in 1 .. Len(l) /\ i \notin I
    BY <1>1, <2>1, <2>2
  <2>4. \A i \in 1 .. k - 1 : l[i] <= q
    BY <1>1, <1>2, <2>3
  <2>5. l[k] > q
    BY <1>1, <1>2, <2>1, <2>2
  <2> QED BY <1>1, <2>2, <2>4, <2>5
<1> QED BY <1>5, <1>6

(* reord_rxframe_enqueue() passes the frames before this one. *)
LEMMA AheadCount ==
  ASSUME NEW l \in Seq(Frames), NEW q \in Frames
  PROVE  /\ Ahead(l, Sn(q)) \in 0 .. Len(l)
         /\ \A i \in 1 .. Ahead(l, Sn(q)) : l[i] < q
         /\ Ahead(l, Sn(q)) < Len(l) => l[Ahead(l, Sn(q)) + 1] >= q
<1> DEFINE I == {i \in 1 .. Len(l) : ~Less(Sn(l[i]), Sn(q))}
           k == IF I # {} THEN Min(I) ELSE 0
<1>1. /\ Len(l) \in Nat /\ q \in Nat /\ q \in Places
      /\ \A i \in 1 .. Len(l) : l[i] \in Places /\ l[i] \in Nat
  BY FrameIsPlace
<1>2. \A i \in 1 .. Len(l) : i \in I <=> ~(l[i] < q)
  BY <1>1, LessPlaces
<1>3. Ahead(l, Sn(q)) = Before(l, k)
  BY DEF Ahead, SelectInSeq
<1>4. I \subseteq 1 .. Len(l) /\ I \in SUBSET Nat
  BY <1>1
<1> HIDE DEF I
<1>5. CASE I = {}
  <2>1. Ahead(l, Sn(q)) = Len(l)
    BY <1>3, <1>5 DEF Before
  <2> QED BY <1>1, <1>2, <1>5, <2>1
<1>6. CASE I # {}
  <2>1. k \in I /\ \A i \in I : k <= i
    BY <1>4, <1>6, MinIsLeast
  <2> HIDE DEF k
  <2>2. k \in 1 .. Len(l) /\ Ahead(l, Sn(q)) = k - 1
    BY <1>1, <1>3, <1>4, <2>1 DEF Before
  <2>3. \A i \in 1 .. k - 1 : i \in 1 .. Len(l) /\ i \notin I
    BY <1>1, <2>1, <2>2
  <2>4. \A i \in 1 .. k - 1 : l[i] < q
    BY <1>1, <1>2, <2>3
  <2>5. l[k] >= q
    BY <1>1, <1>2, <2>1, <2>2
  <2> QED BY <1>1, <2>2, <2>4, <2>5
<1> QED BY <1>5, <1>6

(* The second of two sequences put together. *)
LEMMA SecondPart ==
  ASSUME NEW S, NEW c \in Seq(S), NEW b \in Seq(S), NEW i \in Nat,
         i > Len(c), i <= Len(c) + Len(b)
  PROVE  (c \o b)[i] = b[i - Len(c)]
OBVIOUS

(* A frame that is not held is put in its place. *)
LEMMA Insertion ==
  ASSUME NEW f \in Frames, list \in Seq(Frames), Ordered(list), ~Held(f)
  PROVE  /\ Enqueued(f) \in Seq(Frames) /\ Len(Enqueued(f)) = Len(list) + 1
         /\ Ordered(Enqueued(f)) /\ Range(Enqueued(f)) = Range(list) \cup {f}
<1> DEFINE n == Len(list)   k == Ahead(list, Sn(f))   m == Enqueued(f)
<1>1. /\ n \in Nat /\ k \in 0 .. n /\ f \in Nat /\ DOMAIN list = 1 .. n
      /\ \A i \in 1 .. n : list[i] \in Frames /\ list[i] \in Nat
  BY AheadCount, FrameIsPlace
<1>2. \A i \in 1 .. n : list[i] # f
  BY <1>1 DEF Held
<1>3. \A i \in 1 .. n : IF i <= k THEN list[i] < f ELSE f < list[i]
  <2> TAKE i \in 1 .. n
  <2>1. CASE i <= k
    BY <1>1, <2>1, AheadCount
  <2>2. CASE k < i
    <3>0. k < n => list[k + 1] >= f
      BY AheadCount
    <3>1. k + 1 \in 1 .. n /\ list[k + 1] >= f
      BY <1>1, <2>2, <3>0
    <3>2. list[k + 1] <= list[i]
      BY <1>1, <2>2, <3>1 DEF Ordered
    <3> QED BY <1>1, <1>2, <2>2, <3>1, <3>2
  <2> QED BY <1>1, <2>1, <2>2
<1>4. m = SubSeq(list, 1, k) \o <<f>> \o SubSeq(list, k + 1, n)
  <2>1. (k + 1) - 1 = k
    BY <1>1
  <2> QED BY <2>1 DEF Enqueued, InsertAt
<1> HIDE DEF n, k, m
<1>5. /\ SubSeq(list, 1, k) \in Seq(Frames) /\ Len(SubSeq(list, 1, k)) = k
      /\ \A i \in 1 .. k : SubSeq(list, 1, k)[i] = list[i]
  BY <1>1 DEF n
<1>6. /\ SubSeq(list, k + 1, n) \in Seq(Frames) /\ Len(SubSeq(list, k + 1, n)) = n - k
      /\ \A i \in 1 .. n - k : SubSeq(list, k + 1, n)[i] = list[k + i]
  <2>1. k + 1 \in 1 .. n + 1 /\ n = Len(list)
    BY <1>1 DEF n
  <2>2. /\ SubSeq(list, k + 1, n) = [i \in 1 .. n - (k + 1) + 1 |-> list[(k + 1) + i - 1]]
        /\ n - (k + 1) + 1 = n - k /\ \A i \in 1 .. n - k : (k + 1) + i - 1 = k + i
    BY <1>1
  <2>3. \A i \in 1 .. n - k : list[k + i] \in Frames
    BY <1>1
  <2> QED BY <1>1, <2>2, <2>3
<1>7. m \in Seq(Frames) /\ Len(m) = n + 1
  BY <1>1, <1>4, <1>5, <1>6
<1>8. \A i \in 1 .. n + 1 : m[i] = IF i <= k THEN list[i] ELSE IF i = k + 1 THEN f ELSE list[i - 1]
  <2> DEFINE a == SubSeq(list, 1, k)   b == SubSeq(list, k + 1, n)
  <2>1. a \o <<f>> \in Seq(Frames) /\ Len(a \o <<f>>) = k + 1
    BY <1>1, <1>5
  <2>2. \A i \in 1 .. k + 1 : (a \o <<f>>)[i] = IF i <= k THEN a[i] ELSE f
    BY <1>1, <1>5
  <2>3. ASSUME NEW i \in 1 .. n + 1, i <= k + 1 PROVE m[i] = (a \o <<f>>)[i]
    <3> HIDE DEF a, b
    <3> QED BY <1>1, <1>4, <1>6, <2>1, <2>3 DEF a, b
  <2>4. ASSUME NEW i \in 1 .. n + 1, i > k + 1 PROVE m[i] = b[i - (k + 1)]
    <3>1. b \in Seq(Frames) /\ Len(b) = n - k
      BY <1>6
    <3> DEFINE c == a \o <<f>>
    <3>2. c \in Seq(Frames) /\ Len(c) = k + 1 /\ m = c \o b
      BY <1>4, <2>1
    <3> HIDE DEF a, b, c
    <3>3. i \in Nat /\ i > Len(c) /\ i <= Len(c) + Len(b)
      BY <1>1, <2>4, <3>1, <3>2
    <3>4. (c \o b)[i] = b[i - Len(c)]
      BY <3>1, <3>2, <3>3, SecondPart
    <3> QED BY <3>2, <3>4
  <2>5. ASSUME NEW i \in 1 .. n + 1, i > k + 1 PROVE b[i - (k + 1)] = list[i - 1]
    <3>1. i - (k + 1) \in 1 .. n - k /\ k + (i - (k + 1)) = i - 1
      BY <1>1, <2>5
    <3> QED BY <1>6, <3>1
  <2> QED BY <1>1, <1>5, <2>2, <2>3, <2>4, <2>5
<1>9. Ordered(m)
  <2> SUFFICES ASSUME NEW i \in 1 .. n + 1, NEW j \in 1 .. n + 1, i < j PROVE m[i] < m[j]
    BY <1>1, <1>7 DEF Ordered
  <2>1. \A x, y \in 1 .. n : x < y => list[x] < list[y]
    BY <1>1 DEF Ordered
  <2>2. CASE j <= k
    <3>1. i \in 1 .. n /\ j \in 1 .. n /\ m[i] = list[i] /\ m[j] = list[j]
      BY <1>1, <1>8, <2>2
    <3> QED BY <2>1, <3>1
  <2>3. CASE j = k + 1
    <3>1. i \in 1 .. n /\ m[i] = list[i] /\ m[j] = f /\ i <= k
      BY <1>1, <1>8, <2>3
    <3> QED BY <1>3, <3>1
  <2>4. CASE j > k + 1
    <3>1. j - 1 \in 1 .. n /\ ~(j - 1 <= k) /\ m[j] = list[j - 1]
      BY <1>1, <1>8, <2>4
    <3>2. CASE i <= k
      <4>1. i \in 1 .. n /\ m[i] = list[i] /\ i < j - 1
        BY <1>1, <1>8, <2>4, <3>2
      <4> QED BY <2>1, <3>1, <4>1
    <3>3. CASE i = k + 1
      <4>1. m[i] = f
        BY <1>1, <1>8, <3>3
      <4> QED BY <1>3, <3>1, <4>1
    <3>4. CASE i > k + 1
      <4>1. i - 1 \in 1 .. n /\ m[i] = list[i - 1] /\ i - 1 < j - 1
        BY <1>1, <1>8, <2>4, <3>4
      <4> QED BY <2>1, <3>1, <4>1
    <3> QED BY <1>1, <3>2, <3>3, <3>4
  <2> QED BY <1>1, <2>2, <2>3, <2>4
<1>10. Range(m) = Range(list) \cup {f}
  <2>1. DOMAIN m = 1 .. n + 1
    BY <1>1, <1>7
  <2>2. ASSUME NEW x \in Range(m) PROVE x \in Range(list) \cup {f}
    <3>1. PICK i \in 1 .. n + 1 : x = m[i]
      BY <2>1, <2>2 DEF Range
    <3>2. i <= k => i \in 1 .. n
      BY <1>1
    <3>3. i > k + 1 => i - 1 \in 1 .. n
      BY <1>1
    <3>4. i <= k \/ i = k + 1 \/ i > k + 1
      BY <1>1
    <3> QED BY <1>1, <1>8, <3>1, <3>2, <3>3, <3>4 DEF Range
  <2>3. ASSUME NEW x \in Range(list) PROVE x \in Range(m)
    <3>1. PICK i \in 1 .. n : x = list[i]
      BY <1>1, <2>3 DEF Range
    <3>2. CASE i <= k
      <4>1. i \in 1 .. n + 1 /\ m[i] = list[i]
        BY <1>1, <1>8, <3>2
      <4> QED BY <2>1, <3>1, <4>1 DEF Range
    <3>3. CASE i > k
      <4>1. i + 1 \in 1 .. n + 1 /\ m[i + 1] = list[i]
        BY <1>1, <1>8, <3>3
      <4> QED BY <2>1, <3>1, <4>1 DEF Range
    <3> QED BY <1>1, <3>2, <3>3
  <2>4. f \in Range(m)
    <3>1. k + 1 \in 1 .. n + 1 /\ m[k + 1] = f
      BY <1>1, <1>8
    <3> QED BY <2>1, <3>1 DEF Range
  <2> QED BY <2>2, <2>3, <2>4
<1> QED BY <1>7, <1>9, <1>10 DEF m, n

-----------------------------------------------------------------------------
(* The loop over the list *)

(* What the recursive function in Scan has to be. *)
IsScan(g, s, l, n) ==
  g = [i \in 0 .. n |-> IF i = 0 THEN [ind |-> s, gap |-> FALSE] ELSE Advance(g[i - 1], l[i])]

(* There is such a function, one place of the list after the other. *)
LEMMA ScanExists ==
  ASSUME NEW s, NEW l, NEW n \in Nat
  PROVE  \E g : IsScan(g, s, l, n)
<1> DEFINE S == {k \in Nat : \E g : IsScan(g, s, l, k)}
           start == [ind |-> s, gap |-> FALSE]
<1>1. 0 \in S
  <2> DEFINE g == [i \in 0 .. 0 |-> start]
  <2>1. IsScan(g, s, l, 0)
    BY DEF IsScan
  <2> QED BY <2>1
<1>2. ASSUME NEW k \in Nat, k \in S PROVE k + 1 \in S
  <2>1. PICK g : IsScan(g, s, l, k)
    BY <1>2
  <2> DEFINE h == [i \in 0 .. k + 1 |-> IF i = k + 1 THEN Advance(g[k], l[k + 1]) ELSE g[i]]
  <2>2. ASSUME NEW i \in 0 .. k + 1
        PROVE  h[i] = IF i = 0 THEN start ELSE Advance(h[i - 1], l[i])
    <3>1. CASE i = k + 1
      <4>1. k \in 0 .. k + 1 /\ k # k + 1 /\ i # 0 /\ i - 1 = k
        BY <3>1
      <4>2. h[k] = g[k]
        BY <4>1
      <4> QED BY <3>1, <4>1, <4>2
    <3>2. CASE i = 0
      <4>1. 0 \in 0 .. k /\ i # k + 1
        BY <3>2
      <4>2. g[0] = start
        BY <2>1, <4>1 DEF IsScan
      <4> QED BY <3>2, <4>1, <4>2
    <3>3. CASE i \in 1 .. k
      <4>1. i - 1 \in 0 .. k + 1 /\ i - 1 # k + 1 /\ i \in 0 .. k /\ i # 0 /\ i # k + 1
        BY <3>3
      <4>2. g[i] = Advance(g[i - 1], l[i])
        BY <2>1, <4>1 DEF IsScan
      <4>3. h[i] = g[i] /\ h[i - 1] = g[i - 1]
        BY <4>1
      <4> QED BY <4>1, <4>2, <4>3
    <3> QED BY <3>1, <3>2, <3>3
  <2>3. IsScan(h, s, l, k + 1)
    <3> HIDE DEF h
    <3>1. h = [i \in 0 .. k + 1 |-> h[i]]
      BY DEF h
    <3> QED BY <2>2, <3>1 DEF IsScan
  <2> HIDE DEF h
  <2> QED BY <2>3
<1>3. Nat \subseteq S
  BY <1>1, <1>2, SetInduction
<1> QED BY <1>3

LEMMA ScanIsLoop ==
  ASSUME NEW s, NEW l \in Seq(Frames)
  PROVE  \E g : IsScan(g, s, l, Len(l)) /\ Scan(s, l) = g[Len(l)]
<1> DEFINE n == Len(l)   c == CHOOSE at : IsScan(at, s, l, n)
<1>0. n \in Nat
  OBVIOUS
<1>1. \E g : IsScan(g, s, l, n)
  BY <1>0, ScanExists
<1>2. IsScan(c, s, l, n)
  BY <1>1
<1>3. Scan(s, l) = c[n]
  BY DEF Scan, IsScan
<1> QED BY <1>2, <1>3

(* Changing one of the two fields. *)
LEMMA GapUpdate ==
  ASSUME NEW x, NEW y, NEW z, NEW at, at = [ind |-> x, gap |-> y],
         NEW r, r = [at EXCEPT !.gap = z]
  PROVE  r = [ind |-> x, gap |-> z]
OBVIOUS

LEMMA IndUpdate ==
  ASSUME NEW x, NEW y, NEW z, NEW at, at = [ind |-> x, gap |-> y],
         NEW r, r = [at EXCEPT !.ind = z]
  PROVE  r = [ind |-> z, gap |-> y]
OBVIOUS

(* One turn of the loop. *)
LEMMA AdvancePlace ==
  ASSUME NEW q \in Places, NEW f \in Frames, NEW b \in BOOLEAN
  PROVE  LET at == [ind |-> Sn(q), gap |-> b]
         IN  /\ b \/ q < f  => Advance(at, f) = [ind |-> Sn(q), gap |-> TRUE]
             /\ ~b /\ q = f => Advance(at, f) = [ind |-> Sn(f + 1), gap |-> FALSE]
             /\ ~b /\ f < q => Advance(at, f) = [ind |-> Sn(q), gap |-> FALSE]
<1> DEFINE x == Sn(q)   y == After(x)   at == [ind |-> x, gap |-> b]
<1>1. (Less(x, Sn(f)) <=> q < f) /\ (x = Sn(f) <=> q = f)
  BY FrameIsPlace, LessPlaces
<1>2. q \in Nat /\ f \in Nat /\ (q = f => y = Sn(f + 1))
  BY FrameIsPlace, AfterPlace DEF Places
<1>3. at = [ind |-> x, gap |-> b] /\ at.ind = x /\ at.gap = b
  OBVIOUS
<1> HIDE DEF x, y, at
<1>4. CASE b \/ q < f
  <2>1. Advance(at, f) = [at EXCEPT !.gap = TRUE]
    BY <1>1, <1>3, <1>4 DEF Advance
  <2>2. Advance(at, f) = [ind |-> x, gap |-> TRUE]
    BY <1>3, <2>1, GapUpdate, Zenon
  <2>3. ~(~b /\ q = f) /\ ~(~b /\ f < q)
    BY <1>2, <1>4
  <2> QED BY <2>2, <2>3 DEF x, at
<1>5. CASE ~b /\ q = f
  <2>1. Advance(at, f) = [at EXCEPT !.ind = After(x)]
    BY <1>1, <1>2, <1>3, <1>5 DEF Advance
  <2>2. Advance(at, f) = [at EXCEPT !.ind = y]
    BY <2>1 DEF y
  <2>3. Advance(at, f) = [ind |-> y, gap |-> b]
    BY <1>3, <2>2, IndUpdate, Zenon
  <2>4. b = FALSE /\ y = Sn(f + 1) /\ ~(b \/ q < f) /\ ~(~b /\ f < q)
    BY <1>2, <1>5
  <2> QED BY <2>3, <2>4 DEF x, at
<1>6. CASE ~b /\ f < q
  <2>1. Advance(at, f) = at
    BY <1>1, <1>2, <1>3, <1>6 DEF Advance
  <2>2. b = FALSE /\ ~(b \/ q < f) /\ ~(~b /\ q = f)
    BY <1>2, <1>6
  <2> QED BY <2>1, <2>2 DEF x, at
<1> QED BY <1>2, <1>4, <1>5, <1>6

(* The loop moves ind_sn over the frames held, to the first place from there *)
(* on that no frame held has, and sees a gap if there is a frame beyond it.  *)
LEMMA ScanPlace ==
  ASSUME NEW l \in Seq(Frames), Ordered(l), NEW p \in Places
  PROVE  \E q \in Places :
           /\ Scan(Sn(p), l).ind = Sn(q) /\ p <= q
           /\ q = p \/ q - 1 \in Range(l)
           /\ \A i \in 1 .. Len(l) : l[i] # q
           /\ Scan(Sn(p), l).gap \in BOOLEAN
           /\ Scan(Sn(p), l).gap <=> \E i \in 1 .. Len(l) : l[i] > q
<1>1. PICK g : IsScan(g, Sn(p), l, Len(l)) /\ Scan(Sn(p), l) = g[Len(l)]
  BY ScanIsLoop
<1> DEFINE At(n, q, b) ==
             /\ g[n] = [ind |-> Sn(q), gap |-> b] /\ p <= q
             /\ q = p \/ \E i \in 1 .. n : l[i] = q - 1
             /\ \A i \in 1 .. n : l[i] # q
             /\ b <=> \E i \in 1 .. n : l[i] > q
           Good(n) == n <= Len(l) => \E q \in Places, b \in BOOLEAN : At(n, q, b)
           S == {n \in Nat : Good(n)}
<1>2. /\ Len(l) \in Nat /\ p \in Nat
      /\ \A i \in 1 .. Len(l) : l[i] \in Frames /\ l[i] \in Places /\ l[i] \in Nat
      /\ \A i, j \in 1 .. Len(l) : i < j => l[i] < l[j]
  BY FrameIsPlace DEF Places, Ordered
<1>3. Good(0)
  <2>1. g[0] = [ind |-> Sn(p), gap |-> FALSE]
    BY <1>1, <1>2 DEF IsScan
  <2>2. At(0, p, FALSE)
    BY <1>2, <2>1
  <2> HIDE DEF At
  <2> QED BY <2>2
<1>4. ASSUME NEW n \in Nat, Good(n) PROVE Good(n + 1)
  <2> SUFFICES ASSUME n + 1 <= Len(l)
               PROVE  \E q \in Places, b \in BOOLEAN : At(n + 1, q, b)
    OBVIOUS
  <2> HIDE DEF At
  <2>1. PICK q \in Places, b \in BOOLEAN : At(n, q, b)
    BY <1>2, <1>4
  <2> DEFINE f == l[n + 1]
  <2>2. f \in Frames /\ f \in Nat /\ q \in Nat /\ n + 1 \in 1 .. Len(l)
    BY <1>2 DEF Places
  <2>3. g[n + 1] = Advance(g[n], f)
    <3>1. n + 1 \in 0 .. Len(l) /\ n + 1 # 0 /\ (n + 1) - 1 = n
      BY <1>2
    <3> QED BY <1>1, <3>1 DEF IsScan
  <2>4. \A i \in 1 .. n : i \in 1 .. Len(l) /\ i < n + 1 /\ l[i] < f /\ l[i] \in Nat
    BY <1>2, <2>2
  <2>5. /\ g[n] = [ind |-> Sn(q), gap |-> b] /\ p <= q
        /\ q = p \/ \E i \in 1 .. n : l[i] = q - 1
        /\ \A i \in 1 .. n : l[i] # q
        /\ b <=> \E i \in 1 .. n : l[i] > q
        /\ \A i \in 1 .. n + 1 : i \in 1 .. n \/ i = n + 1
        /\ \A i \in 1 .. n : i \in 1 .. n + 1
        /\ n + 1 \in 1 .. n + 1 /\ l[n + 1] = f
    BY <2>1 DEF At
  <2>6. /\ b \/ q < f  => g[n + 1] = [ind |-> Sn(q), gap |-> TRUE]
        /\ ~b /\ q = f => g[n + 1] = [ind |-> Sn(f + 1), gap |-> FALSE]
        /\ ~b /\ f < q => g[n + 1] = [ind |-> Sn(q), gap |-> FALSE]
    <3> HIDE DEF f
    <3> QED BY <2>2, <2>3, <2>5, AdvancePlace
  <2> HIDE DEF f
  <2>7. CASE b \/ q < f
    <3>1. q < f
      BY <2>2, <2>4, <2>5, <2>7
    <3>2. g[n + 1] = [ind |-> Sn(q), gap |-> TRUE]
      BY <2>6, <3>1
    <3>3. q = p \/ \E i \in 1 .. n + 1 : l[i] = q - 1
      BY <2>5
    <3>4. \A i \in 1 .. n + 1 : l[i] # q
      BY <2>2, <2>5, <3>1
    <3>5. \E i \in 1 .. n + 1 : l[i] > q
      BY <2>2, <2>5, <3>1
    <3>6. At(n + 1, q, TRUE)
      BY <2>5, <3>2, <3>3, <3>4, <3>5 DEF At
    <3> QED BY <3>6
  <2>8. CASE ~b /\ q = f
    <3>1. g[n + 1] = [ind |-> Sn(f + 1), gap |-> FALSE]
      BY <2>6, <2>8
    <3>2. f + 1 \in Places
      BY <2>2, AfterPlace
    <3>3. \A i \in 1 .. n + 1 : l[i] < f + 1 /\ l[i] \in Nat
      BY <2>2, <2>4, <2>5
    <3>4. (f + 1) - 1 = f /\ p <= f + 1 /\ f + 1 \in Nat
      BY <1>2, <2>2, <2>5, <2>8
    <3>5. \E i \in 1 .. n + 1 : l[i] = (f + 1) - 1
      BY <2>5, <3>4
    <3>6. \A i \in 1 .. n + 1 : l[i] # f + 1 /\ ~(l[i] > f + 1)
      BY <3>3, <3>4
    <3>7. At(n + 1, f + 1, FALSE)
      BY <3>1, <3>4, <3>5, <3>6 DEF At
    <3> QED BY <3>2, <3>7
  <2>9. CASE ~b /\ f < q
    <3>1. g[n + 1] = [ind |-> Sn(q), gap |-> FALSE]
      BY <2>6, <2>9
    <3>2. q = p \/ \E i \in 1 .. n + 1 : l[i] = q - 1
      BY <2>5
    <3>3. \A i \in 1 .. n + 1 : l[i] # q /\ ~(l[i] > q)
      BY <2>2, <2>4, <2>5, <2>9
    <3>4. At(n + 1, q, FALSE)
      BY <2>5, <3>1, <3>2, <3>3 DEF At
    <3> QED BY <3>4
  <2> QED BY <2>2, <2>7, <2>8, <2>9
<1> HIDE DEF At, Good
<1>5. 0 \in S /\ \A n \in Nat : n \in S => n + 1 \in S
  BY <1>3, <1>4
<1> HIDE DEF S
<1>6. Nat \subseteq S
  BY <1>5, SetInduction
<1>7. Good(Len(l))
  <2>1. Len(l) \in S
    BY <1>2, <1>6
  <2> QED BY <2>1 DEF S
<1>8. PICK q \in Places, b \in BOOLEAN : At(Len(l), q, b)
  BY <1>2, <1>7 DEF Good
<1>9. Scan(Sn(p), l) = [ind |-> Sn(q), gap |-> b]
  BY <1>1, <1>8 DEF At
<1>10. q = p \/ q - 1 \in Range(l)
  BY <1>2, <1>8 DEF At, Range
<1> QED BY <1>8, <1>9, <1>10 DEF At

-----------------------------------------------------------------------------
(* The inductive invariant *)

Flagged    == passed \cup again
BeforeLock == IF rx.pc \in {"find", "check"} THEN {rx.f} ELSE {}
InHand     == IF rx.pc = "idle" THEN {} ELSE {rx.f}
Pending    == air \cup Range(list) \cup InHand      (* may still go up         *)

TypeInv ==
  /\ list \in Seq(Frames) /\ pool \in Nat /\ up \in Seq(Frames)
  /\ rx \in [pc : {"idle", "find", "check", "timer", "work"}, f : Frames]
  /\ {enable, tmr, firing, work, running} \subseteq BOOLEAN
  /\ sent \in 0 .. MaxFrames /\ air \subseteq 1 .. sent
  /\ pool + Len(list) + (IF rx.pc \in {"find", "check"} THEN 1 ELSE 0) = Pool

(* ind_sn stands at a place p.  The frames held lie in the window after it; *)
(* a frame before it that has not come yet was seen to be passed.           *)
WindowAt(p) ==
  /\ ind_sn = Sn(p)
  /\ \A i \in DOMAIN list : p < list[i] /\ list[i] < p + WSize
  /\ \A g \in air \cup BeforeLock : g < p => g \in Flagged
WindowInv ==
  /\ Ordered(list)
  /\ \/ ind_sn = Unset /\ list = << >>
     \/ \E p \in 1 .. sent + 1 : WindowAt(p)

(* Where frames can be, and what holds while the receive thread has one.    *)
PlaceInv ==
  /\ Range(list) \subseteq 1 .. sent /\ Range(up) \subseteq 1 .. sent
  /\ InHand \subseteq 1 .. sent /\ (Range(list) \cup InHand) \cap air = {}
  /\ ~enable => list = << >>
  /\ rx.pc = "check" => enable
  /\ rx.pc \in {"timer", "work"} => ~enable /\ \A g \in air : rx.f < g

(* What is still to go up comes after all that went up, or is flagged.      *)
PendingInv == \A u \in Range(up), g \in Pending : u < g \/ g \in Flagged

RxInv == TypeInv /\ WindowInv /\ PlaceInv /\ PendingInv /\ InOrder

(* Nothing was sent, held or given up at the start. *)
LEMMA InitRxInv ==
  Init => RxInv
<1> SUFFICES ASSUME Init PROVE RxInv
  OBVIOUS
<1> USE DEF Init, Idle
<1>0. Range(<< >>) = {} /\ Len(<< >>) = 0 /\ DOMAIN << >> = {}
  BY DEF Range
<1>1. TypeInv
  <2>1. 1 \in Frames /\ Pool \in Nat /\ 0 \in 0 .. MaxFrames
    BY Numbers DEF Frames
  <2>2. rx \in [pc : {"idle", "find", "check", "timer", "work"}, f : Frames] /\ rx.pc = "idle"
    BY <2>1
  <2>3. pool + Len(list) + (IF rx.pc \in {"find", "check"} THEN 1 ELSE 0) = Pool
    BY <1>0, <2>1, <2>2
  <2>4. << >> \in Seq(Frames)
    OBVIOUS
  <2> QED BY <2>1, <2>2, <2>3, <2>4 DEF TypeInv
<1>2. WindowInv
  BY <1>0 DEF WindowInv, Ordered
<1>3. PlaceInv
  BY <1>0 DEF PlaceInv, InHand
<1>4. PendingInv /\ InOrder
  BY <1>0 DEF PendingInv, InOrder
<1> QED BY <1>1, <1>2, <1>3, <1>4 DEF RxInv

(* Another frame is sent: it comes after all that are there. *)
LEMMA TransmitStep ==
  ASSUME RxInv, Transmit
  PROVE  RxInv'
<1> USE DEF Transmit, session, timer, works, seen
<1>0. TypeInv /\ WindowInv /\ PlaceInv /\ PendingInv /\ InOrder /\ sent \in Nat
  BY DEF RxInv, TypeInv
<1>1. TypeInv'
  BY <1>0, Numbers DEF TypeInv
<1>2. WindowInv'
  <2>1. CASE ind_sn = Unset /\ list = << >>
    BY <1>0, <2>1 DEF WindowInv
  <2>2. ASSUME NEW p \in 1 .. sent + 1, WindowAt(p) PROVE WindowAt(p)' /\ p \in 1 .. sent' + 1
    BY <1>0, <2>2 DEF WindowAt, BeforeLock, Flagged
  <2> QED BY <1>0, <2>1, <2>2 DEF WindowInv
<1>3. PlaceInv'
  BY <1>0 DEF PlaceInv, InHand
<1>4. PendingInv'
  <2>1. Flagged' = Flagged /\ Pending' = Pending \cup {sent + 1} /\ up' = up
    BY DEF Flagged, Pending, InHand
  <2>2. \A u \in Range(up) : u < sent + 1
    BY <1>0 DEF PlaceInv
  <2> QED BY <1>0, <2>1, <2>2 DEF PendingInv
<1>5. InOrder'
  BY <1>0 DEF InOrder
<1> QED BY <1>1, <1>2, <1>3, <1>4, <1>5 DEF RxInv

(* Steps that leave the session's list and what went up alone, and after    *)
(* which no frame waits that did not before, but those that came again.     *)
LEMMA QuietStep ==
  ASSUME RxInv, TypeInv', UNCHANGED <<ind_sn, list, sent, up, passed>>,
         again \subseteq again', air' \subseteq air,
         InHand' \subseteq InHand \cup (air \ air') \cup ((1 .. sent \ air') \cap again'),
         BeforeLock' \subseteq BeforeLock \cup air \cup again',
         enable => enable', rx'.pc = "check" => enable',
         rx'.pc \in {"timer", "work"} => rx.pc \in {"timer", "work"} /\ rx'.f = rx.f /\ ~enable'
  PROVE  RxInv'
<1>0. TypeInv /\ WindowInv /\ PlaceInv /\ PendingInv /\ InOrder
  BY DEF RxInv
<1>1. Flagged \subseteq Flagged' /\ Pending' \subseteq Pending \cup Flagged'
  BY DEF Flagged, Pending
<1>2. WindowInv'
  <2>1. CASE ind_sn = Unset /\ list = << >>
    BY <1>0, <2>1 DEF WindowInv
  <2>2. ASSUME NEW p \in 1 .. sent + 1, WindowAt(p) PROVE WindowAt(p)'
    <3>1. again' \subseteq Flagged'
      BY DEF Flagged
    <3> QED BY <1>1, <2>2, <3>1 DEF WindowAt
  <2> QED BY <1>0, <2>1, <2>2 DEF WindowInv
<1>3. PlaceInv'
  BY <1>0 DEF PlaceInv, TypeInv
<1>4. PendingInv'
  BY <1>0, <1>1 DEF PendingInv
<1>5. InOrder'
  BY <1>0 DEF InOrder
<1> QED BY <1>2, <1>3, <1>4, <1>5 DEF RxInv

LEMMA LoseStep ==
  ASSUME RxInv, NEW f \in Frames, Lose(f)
  PROVE  RxInv'
<1> USE DEF Lose, session, timer, works, seen
<1>1. TypeInv'
  BY DEF RxInv, TypeInv
<1>2. InHand' = InHand /\ BeforeLock' = BeforeLock
  BY DEF InHand, BeforeLock
<1>3. rx.pc = "check" => enable
  BY DEF RxInv, PlaceInv
<1>4. rx.pc \in {"timer", "work"} => ~enable
  BY DEF RxInv, PlaceInv
<1> QED BY <1>1, <1>2, <1>3, <1>4, QuietStep

LEMMA ReceiveStep ==
  ASSUME RxInv, NEW f \in Frames, Receive(f)
  PROVE  RxInv'
<1> USE DEF Receive, session, timer, works
<1>0. TypeInv /\ PlaceInv /\ rx.pc = "idle" /\ f \in 1 .. sent
  BY DEF RxInv, TypeInv
<1>1. rx' = rx \/ rx' = [pc |-> "find", f |-> f]
  OBVIOUS
<1>2. rx'.pc \in {"idle", "find"} /\ (rx'.pc = "find" => rx'.f = f /\ pool' = pool - 1 /\ pool > 0)
  BY <1>0, <1>1
<1>3. TypeInv'
  <2>1. rx' \in [pc : {"idle", "find", "check", "timer", "work"}, f : Frames]
    BY <1>0, <1>1 DEF TypeInv
  <2>2. rx' = rx => pool' = pool
    BY <1>0, <1>2
  <2> QED BY <1>0, <1>1, <1>2, <2>1, <2>2 DEF TypeInv
<1>4. InHand' \subseteq {f} /\ BeforeLock' \subseteq {f} /\ f \notin air'
  BY <1>0, <1>2 DEF InHand, BeforeLock
<1>5. again \subseteq again' /\ (f \in air \/ f \in again')
  OBVIOUS
<1>6. /\ InHand' \subseteq InHand \cup (air \ air') \cup ((1 .. sent \ air') \cap again')
      /\ BeforeLock' \subseteq BeforeLock \cup air \cup again'
  BY <1>0, <1>4, <1>5
<1> QED BY <1>2, <1>3, <1>5, <1>6, QuietStep

(* A session that was flushed has an empty list and begins anew. *)
LEMMA FindStep ==
  ASSUME RxInv, Find
  PROVE  RxInv'
<1> USE DEF Find, Goes, timer, works, radio, seen
<1>0. TypeInv /\ WindowInv /\ PlaceInv /\ PendingInv /\ InOrder
  BY DEF RxInv
<1>1. rx'.pc = "check" /\ rx'.f = rx.f /\ rx' \in [pc : {"idle", "find", "check", "timer", "work"}, f : Frames]
  BY <1>0 DEF TypeInv
<1>2. TypeInv'
  BY <1>0, <1>1 DEF TypeInv
<1>3. InHand' = InHand /\ BeforeLock' = BeforeLock /\ Flagged' = Flagged /\ Pending' = Pending
  BY <1>1 DEF InHand, BeforeLock, Flagged, Pending
<1>4. WindowInv'
  <2>1. CASE enable
    <3>1. ASSUME NEW p \in 1 .. sent + 1, WindowAt(p) PROVE WindowAt(p)'
      BY <1>3, <2>1, <3>1 DEF WindowAt
    <3> QED BY <1>0, <2>1, <3>1 DEF WindowInv
  <2>2. CASE ~enable
    BY <1>0, <2>2 DEF WindowInv, PlaceInv
  <2> QED BY <2>1, <2>2
<1>5. PlaceInv'
  BY <1>0, <1>1, <1>3 DEF PlaceInv
<1>6. PendingInv' /\ InOrder'
  BY <1>0, <1>3 DEF PendingInv, InOrder
<1> QED BY <1>2, <1>4, <1>5, <1>6 DEF RxInv

(* The timer, its handler and the start of the work touch no frame.         *)
LEMMA TimerStep ==
  ASSUME RxInv, TimerFires \/ HandlerQueues \/ WorkStarts
  PROVE  RxInv'
<1> USE DEF TimerFires, HandlerQueues, WorkStarts, session, timer, works, radio, seen
<1>1. TypeInv'
  BY DEF RxInv, TypeInv
<1>2. InHand' = InHand /\ BeforeLock' = BeforeLock
  BY DEF InHand, BeforeLock
<1>3. (rx.pc = "check" => enable) /\ (rx.pc \in {"timer", "work"} => ~enable)
  BY DEF RxInv, PlaceInv
<1> QED BY <1>1, <1>2, <1>3, QuietStep

LEMMA FlushTimerStep ==
  ASSUME RxInv, FlushTimer
  PROVE  RxInv'
<1> USE DEF FlushTimer, Goes, session, works, radio, seen
<1>0. TypeInv /\ PlaceInv
  BY DEF RxInv
<1>1. rx'.pc = "work" /\ rx'.f = rx.f /\ rx' \in [pc : {"idle", "find", "check", "timer", "work"}, f : Frames]
  BY <1>0 DEF TypeInv
<1>2. TypeInv'
  BY <1>0, <1>1 DEF TypeInv
<1>3. InHand' = InHand /\ BeforeLock' = BeforeLock
  BY <1>1 DEF InHand, BeforeLock
<1>4. ~enable
  BY <1>0 DEF PlaceInv
<1> QED BY <1>1, <1>2, <1>3, <1>4, QuietStep

-----------------------------------------------------------------------------
(* Steps that give frames up *)

(* Frames in order that may all come after what went up leave it in order.  *)
LEMMA KeepsOrder ==
  ASSUME up \in Seq(Frames), InOrder, NEW s \in Seq(Frames), Ordered(s), up' = up \o s,
         Flagged \subseteq Flagged',
         \A u \in Range(up), x \in Range(s) : u < x \/ x \in Flagged'
  PROVE  /\ up' \in Seq(Frames) /\ Range(up') = Range(up) \cup Range(s)
         /\ InOrder'
<1> DEFINE n == Len(up)   k == Len(s)
<1>1. /\ n \in Nat /\ k \in Nat /\ up' \in Seq(Frames) /\ Len(up') = n + k
      /\ DOMAIN up = 1 .. n /\ DOMAIN s = 1 .. k /\ DOMAIN up' = 1 .. n + k
  OBVIOUS
<1>2. \A i \in 1 .. n + k : IF i <= n THEN i \in 1 .. n /\ up'[i] = up[i]
                                       ELSE i - n \in 1 .. k /\ up'[i] = s[i - n]
  BY <1>1
<1>3. \A i \in 1 .. n : i \in 1 .. n + k /\ up'[i] = up[i]
  BY <1>1, <1>2
<1>4. \A i \in 1 .. k : n + i \in 1 .. n + k /\ ~(n + i <= n) /\ (n + i) - n = i
  BY <1>1
<1>5. Range(up') = Range(up) \cup Range(s)
  <2>1. Range(up') \subseteq Range(up) \cup Range(s)
    BY <1>1, <1>2 DEF Range
  <2>2. Range(up) \subseteq Range(up')
    BY <1>1, <1>3 DEF Range
  <2>3. ASSUME NEW x \in Range(s) PROVE x \in Range(up')
    <3>1. PICK i \in 1 .. k : x = s[i]
      BY <1>1, <2>3 DEF Range
    <3>2. n + i \in 1 .. n + k /\ up'[n + i] = s[i]
      BY <1>2, <1>4
    <3> QED BY <1>1, <3>1, <3>2 DEF Range
  <2> QED BY <2>1, <2>2, <2>3
<1>6. InOrder'
  <2> SUFFICES ASSUME NEW j \in 1 .. n + k, NEW i \in 1 .. j - 1
               PROVE  up'[i] < up'[j] \/ up'[j] \in Flagged'
    BY <1>1 DEF InOrder, Flagged
  <2>1. i \in 1 .. n + k /\ i < j
    BY <1>1
  <2>2. CASE j <= n
    <3>1. j \in 1 .. n /\ i \in 1 .. n /\ up'[j] = up[j] /\ up'[i] = up[i]
      BY <1>1, <1>3, <2>1, <2>2
    <3>2. up[i] < up[j] \/ up[j] \in Flagged
      BY <1>1, <3>1 DEF InOrder, Flagged
    <3> QED BY <3>1, <3>2
  <2>3. CASE i <= n /\ n < j
    <3>1. i \in 1 .. n /\ up'[i] = up[i] /\ j - n \in 1 .. k /\ up'[j] = s[j - n]
      BY <1>1, <1>2, <1>3, <2>1, <2>3
    <3>2. up[i] \in Range(up) /\ s[j - n] \in Range(s)
      BY <1>1, <3>1 DEF Range
    <3> QED BY <3>1, <3>2
  <2>4. CASE n < i
    <3>1. /\ i - n \in 1 .. k /\ j - n \in 1 .. k /\ i - n < j - n
          /\ up'[i] = s[i - n] /\ up'[j] = s[j - n]
      BY <1>1, <1>2, <2>1, <2>4
    <3> QED BY <1>1, <3>1 DEF Ordered
  <2> QED BY <1>1, <2>1, <2>2, <2>3, <2>4
<1> QED BY <1>1, <1>5, <1>6

(* One frame that may come after what went up. *)
LEMMA KeepsOrderOne ==
  ASSUME up \in Seq(Frames), InOrder, NEW f \in Frames, up' = Append(up, f),
         Flagged \subseteq Flagged', \A u \in Range(up) : u < f \/ f \in Flagged'
  PROVE  up' \in Seq(Frames) /\ Range(up') = Range(up) \cup {f} /\ InOrder'
<1> DEFINE s == <<f>>
<1>1. s \in Seq(Frames) /\ Ordered(s) /\ Range(s) = {f} /\ up' = up \o s
  BY DEF Ordered, Range
<1> HIDE DEF s
<1> QED BY <1>1, KeepsOrder

(* The first k of a list go up, the others stay. *)
Splits(l, k, s, t) ==
  /\ s \in Seq(Frames) /\ Ordered(s) /\ t \in Seq(Frames) /\ Ordered(t)
  /\ Len(t) = Len(l) - k /\ Range(s) \cup Range(t) = Range(l)
  /\ \A x \in Range(s) : \E i \in 1 .. k : x = l[i]
  /\ \A i \in 1 .. Len(t) : t[i] = l[k + i] /\ k + i \in 1 .. Len(l)
  /\ \A x \in Range(s), y \in Range(t) : x < y
LEMMA GiveUpSplits ==
  ASSUME NEW l \in Seq(Frames), Ordered(l), NEW k \in 0 .. Len(l)
  PROVE  Splits(l, k, SubSeq(l, 1, k), SubSeq(l, k + 1, Len(l)))
<1> SUFFICES ASSUME NEW s, s = SubSeq(l, 1, k), NEW t, t = SubSeq(l, k + 1, Len(l))
             PROVE  Splits(l, k, s, t)
  OBVIOUS
<1> DEFINE n == Len(l)
<1>1. n \in Nat /\ DOMAIN l = 1 .. n /\ \A i \in 1 .. n : l[i] \in Frames
  OBVIOUS
<1>2. s \in Seq(Frames) /\ Len(s) = k /\ DOMAIN s = 1 .. k /\ \A i \in 1 .. k : s[i] = l[i] /\ i \in 1 .. n
  BY <1>1
<1>3. t \in Seq(Frames) /\ Len(t) = n - k /\ DOMAIN t = 1 .. n - k
      /\ \A i \in 1 .. n - k : t[i] = l[k + i] /\ k + i \in 1 .. n
  <2>1. t = [i \in 1 .. n - (k + 1) + 1 |-> l[(k + 1) + i - 1]]
    BY <1>1
  <2>2. n - (k + 1) + 1 = n - k /\ \A i \in 1 .. n - k : (k + 1) + i - 1 = k + i /\ k + i \in 1 .. n
    BY <1>1
  <2>3. t = [i \in 1 .. n - k |-> l[k + i]]
    BY <2>1, <2>2
  <2>4. n - k \in Nat /\ \A i \in 1 .. n - k : l[k + i] \in Frames
    BY <1>1, <2>2
  <2>5. t \in Seq(Frames) /\ Len(t) = n - k
    BY <2>3, <2>4
  <2> QED BY <2>2, <2>3, <2>5
<1> HIDE DEF n
<1>4. \A i, j \in 1 .. n : i < j => l[i] < l[j]
  BY <1>1 DEF Ordered
<1>5. Ordered(s)
  BY <1>2, <1>4 DEF Ordered
<1>6. Ordered(t)
  <2> SUFFICES ASSUME NEW i \in 1 .. n - k, NEW j \in 1 .. n - k, i < j PROVE t[i] < t[j]
    BY <1>3 DEF Ordered
  <2>1. k + i < k + j /\ k + i \in 1 .. n /\ k + j \in 1 .. n
    BY <1>1, <1>3
  <2> QED BY <1>3, <1>4, <2>1
<1>7. Range(s) \cup Range(t) = Range(l)
  <2>1. ASSUME NEW x \in Range(l) PROVE x \in Range(s) \cup Range(t)
    <3>1. PICK i \in 1 .. n : x = l[i]
      BY <1>1, <2>1 DEF Range
    <3>2. CASE i <= k
      <4>1. i \in 1 .. k
        BY <1>1, <3>2
      <4> QED BY <1>2, <3>1, <4>1 DEF Range
    <3>3. CASE k < i
      <4>1. i - k \in 1 .. n - k /\ k + (i - k) = i
        BY <1>1, <3>3
      <4> QED BY <1>3, <3>1, <4>1 DEF Range
    <3> QED BY <1>1, <3>2, <3>3
  <2>2. ASSUME NEW x \in Range(s) PROVE x \in Range(l)
    <3>1. PICK i \in 1 .. k : x = s[i]
      BY <1>2, <2>2 DEF Range
    <3> QED BY <1>1, <1>2, <3>1 DEF Range
  <2>3. ASSUME NEW x \in Range(t) PROVE x \in Range(l)
    <3>1. PICK i \in 1 .. n - k : x = t[i]
      BY <1>3, <2>3 DEF Range
    <3> QED BY <1>1, <1>3, <3>1 DEF Range
  <2> QED BY <2>1, <2>2, <2>3
<1>8. \A x \in Range(s), y \in Range(t) : x < y
  <2> SUFFICES ASSUME NEW i \in 1 .. k, NEW j \in 1 .. n - k PROVE s[i] < t[j]
    BY <1>2, <1>3 DEF Range
  <2>1. i \in 1 .. n /\ k + j \in 1 .. n /\ i < k + j
    BY <1>1, <1>2, <1>3
  <2>2. l[i] < l[k + j]
    BY <1>4, <2>1
  <2>3. s[i] = l[i] /\ t[j] = l[k + j]
    BY <1>2, <1>3
  <2> QED BY <2>2, <2>3
<1> QED BY <1>2, <1>3, <1>5, <1>6, <1>7, <1>8 DEF Splits, Range, n

(* reord_rxframes_process() and reord_rxframes_ind() of a list: ind_sn comes *)
(* to the first gap; what is before it goes up, what is beyond it stays.     *)
LEMMA GiveResult ==
  ASSUME NEW l \in Seq(Frames), Ordered(l), NEW p \in Places, ScanAndGive(Sn(p), l)
  PROVE  \E q \in Places, s \in Seq(Frames) :
           /\ ind_sn' = Sn(q) /\ p <= q /\ (q = p \/ q - 1 \in Range(l))
           /\ up' = up \o s /\ Ordered(s) /\ list' \in Seq(Frames) /\ Ordered(list')
           /\ Range(s) \cup Range(list') = Range(l)
           /\ Len(list') \in 0 .. Len(l) /\ pool' = pool + (Len(l) - Len(list'))
           /\ \A x \in Range(s), y \in Range(list') : x < y
           /\ \A x \in Range(s) : x < q
           /\ \A i \in DOMAIN list' : q < list'[i]
<1>1. PICK q \in Places :
        /\ Scan(Sn(p), l).ind = Sn(q) /\ p <= q /\ (q = p \/ q - 1 \in Range(l))
        /\ \A i \in 1 .. Len(l) : l[i] # q
  BY ScanPlace
<1> DEFINE k == Ready(l, Sn(q))   s == SubSeq(l, 1, k)   t == SubSeq(l, k + 1, Len(l))
<1>2. ind_sn' = Sn(q)
  BY <1>1 DEF ScanAndGive
<1>3. up' = up \o s /\ list' = t /\ pool' = pool + k
  BY <1>2 DEF ScanAndGive, GiveUp
<1>4. /\ k \in 0 .. Len(l) /\ \A i \in 1 .. k : l[i] <= q
      /\ k < Len(l) => l[k + 1] > q
  BY ReadyCount
<1>5. Len(l) \in Nat /\ q \in Nat /\ \A i \in 1 .. Len(l) : l[i] \in Nat
  BY FrameIsPlace DEF Places
<1> HIDE DEF k, s, t
<1>6. Splits(l, k, s, t)
  BY <1>4, GiveUpSplits DEF s, t
<1>7. ASSUME NEW x \in Range(s) PROVE x < q
  <2>1. PICK i \in 1 .. k : x = l[i]
    BY <1>6 DEF Splits
  <2>2. i \in 1 .. Len(l) /\ l[i] # q /\ l[i] <= q /\ l[i] \in Nat
    BY <1>1, <1>4, <1>5
  <2> QED BY <1>5, <2>1, <2>2
<1>8. ASSUME NEW i \in DOMAIN t PROVE q < t[i]
  <2>1. i \in 1 .. Len(t)
    BY <1>6, <1>8 DEF Splits
  <2>2. k < Len(l) /\ k + 1 \in 1 .. Len(l) /\ k + i \in 1 .. Len(l) /\ t[i] = l[k + i]
    BY <1>4, <1>5, <1>6, <2>1 DEF Splits
  <2>3. l[k + 1] <= l[k + i]
    <3>1. CASE i = 1
      BY <1>5, <2>2, <3>1
    <3>2. CASE i > 1
      <4>1. k + 1 < k + i
        BY <1>4, <1>5, <3>2
      <4>2. l[k + 1] < l[k + i]
        BY <2>2, <4>1 DEF Ordered
      <4> QED BY <1>5, <2>2, <4>2
    <3> QED BY <2>1, <3>1, <3>2
  <2> QED BY <1>4, <1>5, <2>2, <2>3
<1>9. Len(list') \in 0 .. Len(l) /\ pool' = pool + (Len(l) - Len(list'))
  BY <1>3, <1>4, <1>5, <1>6 DEF Splits
<1> QED BY <1>1, <1>2, <1>3, <1>6, <1>7, <1>8, <1>9 DEF Splits

(* Which frames ind_sn has just passed. *)
LEMMA MissedFrames ==
  ASSUME Missed, NEW q \in Places, ind_sn' = Sn(q), air' \subseteq Frames, again' = again
  PROVE  /\ Flagged \subseteq Flagged'
         /\ \A g \in air' \cup BeforeLock' : g \in Frames /\ g < q => g \in Flagged'
<1>1. \A g \in Frames : Precedes(g, ind_sn') <=> g < q
  BY PrecedesPlace
<1>2. \A g \in air' \cup BeforeLock' : g \in Frames => g \in Coming
  BY DEF Coming, BeforeLock
<1>3. passed' = passed \cup {f \in Coming : Precedes(f, ind_sn')}
  BY DEF Missed
<1> HIDE DEF Coming
<1> QED BY <1>1, <1>2, <1>3 DEF Flagged

(* What NewFrame and WorkRuns share: a list of waiting frames, scanned from *)
(* a place p in whose window they all lie.                                  *)
LEMMA GiveStep ==
  ASSUME RxInv, NEW l \in Seq(Frames), Ordered(l), NEW p \in Places, p <= sent + 1,
         ScanAndGive(Sn(p), l), UNCHANGED <<enable, sent, air, again>>, enable,
         Range(l) \subseteq Pending, Range(l) \subseteq 1 .. sent, Range(l) \cap air = {},
         \A i \in DOMAIN l : l[i] < p + WSize,
         rx'.pc \notin {"timer", "work"}, InHand' \subseteq InHand, BeforeLock' = InHand'
  PROVE  /\ WindowInv' /\ PlaceInv' /\ PendingInv' /\ InOrder'
         /\ up' \in Seq(Frames) /\ list' \in Seq(Frames)
         /\ Len(list') \in 0 .. Len(l) /\ pool' = pool + (Len(l) - Len(list'))
<1>0. TypeInv /\ PlaceInv /\ PendingInv /\ InOrder
  BY DEF RxInv
<1>1. PICK q \in Places, s \in Seq(Frames) :
        /\ ind_sn' = Sn(q) /\ p <= q /\ (q = p \/ q - 1 \in Range(l))
        /\ up' = up \o s /\ Ordered(s) /\ list' \in Seq(Frames) /\ Ordered(list')
        /\ Range(s) \cup Range(list') = Range(l)
        /\ Len(list') \in 0 .. Len(l) /\ pool' = pool + (Len(l) - Len(list'))
        /\ \A x \in Range(s), y \in Range(list') : x < y
        /\ \A x \in Range(s) : x < q
        /\ \A i \in DOMAIN list' : q < list'[i]
  BY GiveResult
<1>2. /\ air \subseteq 1 .. sent /\ sent \in Nat /\ air' \subseteq Frames /\ InHand' \subseteq 1 .. sent
      /\ InHand' \cap air = {} /\ p \in Nat /\ q \in Nat /\ 1 .. sent \subseteq Nat
      /\ 1 .. sent \subseteq Frames
  BY <1>0, Numbers DEF TypeInv, PlaceInv, Frames, Places
<1>3. q \in 1 .. sent' + 1
  BY <1>1, <1>2 DEF Places
<1>4. /\ Flagged \subseteq Flagged'
      /\ \A g \in air \cup InHand' : g < q => g \in Flagged'
  <2>1. Missed
    BY DEF ScanAndGive
  <2>2. /\ Flagged \subseteq Flagged'
        /\ \A g \in air' \cup BeforeLock' : g \in Frames /\ g < q => g \in Flagged'
    BY <1>1, <1>2, <2>1, MissedFrames
  <2> QED BY <1>2, <2>2
<1>5. up' \in Seq(Frames) /\ Range(up') = Range(up) \cup Range(s) /\ InOrder'
  <2>1. \A u \in Range(up), x \in Range(s) : u < x \/ x \in Flagged'
    BY <1>0, <1>1, <1>4 DEF PendingInv
  <2>2. up \in Seq(Frames)
    BY <1>0 DEF TypeInv
  <2> QED BY <1>0, <1>1, <1>4, <2>1, <2>2, KeepsOrder
<1>6. WindowInv'
  <2>1. ASSUME NEW i \in DOMAIN list' PROVE list'[i] < q + WSize
    <3>1. list'[i] \in Range(l)
      BY <1>1, <2>1 DEF Range
    <3>2. PICK j \in DOMAIN l : list'[i] = l[j]
      BY <3>1 DEF Range
    <3>3. l[j] < p + WSize /\ l[j] \in Nat
      BY <1>2, <3>1, <3>2
    <3> QED BY <1>1, <1>2, <3>2, <3>3, Numbers
  <2>2. WindowAt(q)'
    BY <1>1, <1>4, <2>1 DEF WindowAt
  <2> QED BY <1>1, <1>3, <2>2 DEF WindowInv
<1>7. PlaceInv'
  BY <1>0, <1>1, <1>2, <1>5 DEF PlaceInv
<1>8. PendingInv'
  <2> SUFFICES ASSUME NEW u \in Range(up'), NEW g \in Pending' PROVE u < g \/ g \in Flagged'
    BY DEF PendingInv
  <2>1. g \in air \/ g \in Range(list') \/ g \in InHand'
    BY DEF Pending
  <2>2. g \in Pending /\ g \in Nat
    BY <1>1, <1>2, <2>1 DEF Pending
  <2>3. CASE u \in Range(up)
    BY <1>0, <1>4, <2>2, <2>3 DEF PendingInv
  <2>4. CASE u \in Range(s)
    <3>1. u < q /\ u \in Nat
      BY <1>1, <1>2, <2>4
    <3> QED BY <1>1, <1>2, <1>4, <2>1, <2>2, <2>4, <3>1
  <2> QED BY <1>5, <2>3, <2>4
<1> QED BY <1>1, <1>5, <1>6, <1>7, <1>8

(* A frame in its place or beyond it, not held yet. *)
LEMMA NewFrameStep ==
  ASSUME RxInv, NewFrame
  PROVE  RxInv'
<1> USE DEF works, radio
<1> DEFINE f == rx.f   l == Enqueued(f)
<1>0. TypeInv /\ WindowInv /\ PlaceInv /\ rx.pc = "check"
  BY DEF RxInv, NewFrame
<1>1. /\ f \in Frames /\ f \in 1 .. sent /\ f \in Nat /\ sent \in Nat /\ sent <= MaxFrames /\ enable
      /\ InHand = {f} /\ list \in Seq(Frames) /\ Ordered(list)
  BY <1>0 DEF TypeInv, PlaceInv, WindowInv, InHand, Frames
<1>2. /\ ~Late(f) /\ ~Held(f) /\ rx' = Idle /\ ScanAndGive(Checked(f), l)
      /\ UNCHANGED <<enable, firing, works, radio, again>>
      /\ tmr' = Scan(Checked(f), l).gap
  BY DEF NewFrame
<1>3. /\ l \in Seq(Frames) /\ Len(l) = Len(list) + 1
      /\ Ordered(l) /\ Range(l) = Range(list) \cup {f}
  BY <1>1, <1>2, Insertion
<1>4. \E p \in Places : /\ Checked(f) = Sn(p) /\ p <= sent + 1
                        /\ \A x \in Range(list) \cup {f} : x < p + WSize
  <2>1. CASE ind_sn = Unset /\ list = << >>
    <3>1. Checked(f) = Sn(f + 1) /\ f + 1 \in Places /\ f + 1 <= sent + 1
      BY <1>1, <2>1, CheckedFirst, AfterPlace
    <3>2. Range(list) = {} /\ f < (f + 1) + WSize
      BY <1>1, <2>1, Numbers DEF Range
    <3> QED BY <3>1, <3>2
  <2>2. ASSUME NEW p \in 1 .. sent + 1, WindowAt(p)
        PROVE  \E r \in Places : /\ Checked(f) = Sn(r) /\ r <= sent + 1
                                 /\ \A x \in Range(list) \cup {f} : x < r + WSize
    <3> DEFINE r == IF f = p THEN p + 1
                    ELSE IF f > p + WSize - 1 THEN f - (WSize - 1) ELSE p
    <3>1. p \in Places /\ ind_sn = Sn(p) /\ f \in Places /\ p \in Nat
      BY <1>1, <2>2, Numbers DEF WindowAt, Places, Frames
    <3>2. ind_sn # Unset
      BY <3>1, PlacesAreNear, SnValue, Numbers DEF Unset
    <3>3. p <= f
      BY <1>1, <1>2, <3>1, <3>2, LessPlaces DEF Late
    <3>4. Checked(f) = Sn(r)
      BY <1>1, <3>1, <3>3, CheckedPlace
    <3>5. r \in Nat /\ p <= r /\ r <= sent + 1 /\ f < r + WSize /\ r >= 1
      BY <1>1, <2>2, <3>1, <3>3, Numbers
    <3>6. ASSUME NEW x \in Range(list) PROVE x < p + WSize /\ x \in Nat
      <4>1. PICK i \in DOMAIN list : x = list[i]
        BY <3>6 DEF Range
      <4>2. list[i] \in Frames
        BY <1>1
      <4> QED BY <2>2, <4>1, <4>2 DEF WindowAt, Frames
    <3> HIDE DEF r
    <3>7. r \in Places
      BY <1>1, <3>5, Numbers DEF Places
    <3>8. \A x \in Range(list) \cup {f} : x < r + WSize
      BY <3>1, <3>5, <3>6, Numbers
    <3> QED BY <3>4, <3>5, <3>7, <3>8
  <2> QED BY <1>0, <2>1, <2>2 DEF WindowInv
<1>5. PICK p \in Places : /\ Checked(f) = Sn(p) /\ p <= sent + 1
                          /\ \A x \in Range(l) : x < p + WSize
  BY <1>3, <1>4
<1>6. rx'.pc = "idle" /\ rx'.f = 1 /\ InHand' = {} /\ BeforeLock' = {}
  BY <1>2 DEF Idle, InHand, BeforeLock
<1>7. /\ Range(l) \subseteq Pending /\ Range(l) \subseteq 1 .. sent /\ Range(l) \cap air = {}
      /\ \A i \in DOMAIN l : l[i] < p + WSize
  BY <1>0, <1>1, <1>3, <1>5 DEF Pending, PlaceInv, Range
<1> HIDE DEF l, f
<1>8. ScanAndGive(Sn(p), l)
  BY <1>2, <1>5
<1>9. /\ WindowInv' /\ PlaceInv' /\ PendingInv' /\ InOrder'
      /\ up' \in Seq(Frames) /\ list' \in Seq(Frames)
      /\ Len(list') \in 0 .. Len(l) /\ pool' = pool + (Len(l) - Len(list'))
  BY <1>1, <1>2, <1>3, <1>5, <1>6, <1>7, <1>8, GiveStep
<1>10. TypeInv'
  <2>1. tmr' \in BOOLEAN
    BY <1>2, <1>3, <1>5, ScanPlace
  <2>2. pool + Len(list) + 1 = Pool /\ pool \in Nat /\ Len(list) \in Nat /\ Len(list') \in Nat
    BY <1>0, <1>9 DEF TypeInv
  <2>3. pool' \in Nat /\ pool' + Len(list') + 0 = Pool
    BY <1>3, <1>9, <2>2
  <2>4. rx' \in [pc : {"idle", "find", "check", "timer", "work"}, f : Frames]
    BY <1>2, Numbers DEF Idle, Frames
  <2> QED BY <1>0, <1>2, <1>6, <1>9, <2>1, <2>3, <2>4 DEF TypeInv
<1> QED BY <1>9, <1>10 DEF RxInv

(* The work begins at the oldest frame held. *)
LEMMA WorkRunsStep ==
  ASSUME RxInv, WorkRuns
  PROVE  RxInv'
<1> USE DEF works, radio
<1>0. TypeInv /\ WindowInv /\ PlaceInv
  BY DEF RxInv
<1>1. /\ running' = FALSE /\ UNCHANGED <<enable, rx, firing, work, radio, again>>
  BY DEF WorkRuns
<1>2. CASE list = << >> /\ UNCHANGED <<ind_sn, list, pool, tmr, up, passed>>
  <2>1. TypeInv'
    BY <1>0, <1>1, <1>2 DEF TypeInv
  <2>2. InHand' = InHand /\ BeforeLock' = BeforeLock
    BY <1>1 DEF InHand, BeforeLock
  <2>3. (rx.pc = "check" => enable) /\ (rx.pc \in {"timer", "work"} => ~enable)
    BY <1>0 DEF PlaceInv
  <2> QED BY <1>1, <1>2, <2>1, <2>2, <2>3, QuietStep
<1>3. CASE list # << >> /\ tmr' = Rearmed /\ ScanAndGive(Sn(list[1]), list)
  <2> DEFINE p == list[1]
  <2>1. list \in Seq(Frames) /\ Ordered(list) /\ enable
    BY <1>0, <1>3 DEF TypeInv, WindowInv, PlaceInv
  <2>2. 1 \in DOMAIN list /\ p \in Frames /\ p \in Places /\ p \in 1 .. sent /\ sent \in Nat
    BY <1>0, <1>3, <2>1, FrameIsPlace DEF PlaceInv, Range, TypeInv
  <2>3. PICK r \in 1 .. sent + 1 : WindowAt(r)
    BY <1>0, <1>3 DEF WindowInv
  <2>4. \A i \in DOMAIN list : list[i] < p + WSize
    <3> TAKE i \in DOMAIN list
    <3>0. r \in Nat /\ list[i] \in Nat
      <4>1. list[i] \in Frames
        BY <2>1
      <4> QED BY <2>2, <4>1, FrameIsPlace
    <3>1. r < list[1] /\ list[i] < r + WSize
      BY <2>2, <2>3 DEF WindowAt
    <3> QED BY <2>2, <3>0, <3>1, Numbers
  <2>5. rx.pc \notin {"timer", "work"} /\ rx' = rx
    BY <1>0, <1>1, <2>1 DEF PlaceInv
  <2>6. InHand' = InHand /\ BeforeLock' = InHand'
    BY <1>0, <2>5 DEF InHand, BeforeLock, TypeInv
  <2>7. Range(list) \subseteq Pending /\ Range(list) \subseteq 1 .. sent /\ Range(list) \cap air = {}
    BY <1>0 DEF Pending, PlaceInv
  <2>8. ScanAndGive(Sn(p), list) /\ p <= sent + 1
    BY <1>3, <2>2
  <2>9. tmr' \in BOOLEAN
    <3>1. Scan(Sn(p), list).gap \in BOOLEAN
      BY <2>1, <2>2, ScanPlace
    <3>2. tmr \in BOOLEAN
      BY <1>0 DEF TypeInv
    <3> QED BY <1>3, <3>1, <3>2 DEF Rearmed
  <2> HIDE DEF p
  <2>10. /\ WindowInv' /\ PlaceInv' /\ PendingInv' /\ InOrder'
         /\ up' \in Seq(Frames) /\ list' \in Seq(Frames)
         /\ Len(list') \in 0 .. Len(list) /\ pool' = pool + (Len(list) - Len(list'))
    BY <1>1, <2>1, <2>2, <2>4, <2>5, <2>6, <2>7, <2>8, GiveStep
  <2>11. TypeInv'
    <3>1. DEFINE h == IF rx.pc \in {"find", "check"} THEN 1 ELSE 0
    <3>2. h \in Nat /\ pool + Len(list) + h = Pool /\ pool \in Nat /\ Len(list) \in Nat /\ Len(list') \in Nat
      BY <1>0, <2>10 DEF TypeInv
    <3> HIDE DEF h
    <3>3. pool' \in Nat /\ pool' + Len(list') + h = Pool
      BY <2>10, <3>2
    <3> QED BY <1>0, <1>1, <2>5, <2>9, <2>10, <3>3 DEF TypeInv, h
  <2> QED BY <2>10, <2>11 DEF RxInv
<1> QED BY <1>2, <1>3 DEF WorkRuns

(* A frame that is held already changes nothing but the flags. *)
LEMMA HeldFrameStep ==
  ASSUME RxInv, HeldFrame
  PROVE  RxInv'
<1> USE DEF timer, works, radio
<1> DEFINE f == rx.f
<1>0. TypeInv /\ WindowInv /\ PlaceInv /\ PendingInv /\ InOrder /\ rx.pc = "check"
  BY DEF RxInv, HeldFrame
<1>1. /\ rx' = Idle /\ pool' = pool + 1 /\ ind_sn' = Checked(f) /\ Missed /\ Held(f)
      /\ UNCHANGED <<list, enable, timer, works, radio, up, again>>
  BY DEF HeldFrame
<1>2. f \in Frames /\ list \in Seq(Frames) /\ sent \in Nat /\ sent <= MaxFrames /\ f \in Nat
  BY <1>0 DEF TypeInv, Frames
<1>3. PICK i \in DOMAIN list : list[i] = f
  <2>1. PICK i \in DOMAIN list : Sn(list[i]) = Sn(f)
    BY <1>1 DEF Held
  <2>2. list[i] \in Places /\ f \in Places
    BY <1>2, FrameIsPlace
  <2> QED BY <2>1, <2>2, LessPlaces
<1>4. PICK p \in 1 .. sent + 1 : WindowAt(p)
  BY <1>0, <1>2, <1>3 DEF WindowInv
<1>5. p \in Places /\ p \in Nat /\ ind_sn = Sn(p) /\ p < f /\ f < p + WSize
  BY <1>2, <1>3, <1>4, Numbers DEF WindowAt, Places
<1>6. ind_sn' = Sn(p)
  <2>1. f # p /\ ~(f > p + WSize - 1) /\ p <= f
    BY <1>2, <1>5, Numbers
  <2>2. Checked(f) = Sn(p)
    BY <1>2, <1>5, <2>1, CheckedPlace
  <2> QED BY <1>1, <2>2
<1>7. rx'.pc = "idle" /\ rx'.f = 1 /\ InHand' = {} /\ BeforeLock' = {} /\ rx' \in [pc : {"idle"}, f : Frames]
  BY <1>1, Numbers DEF Idle, InHand, BeforeLock, Frames
<1>8. /\ Flagged \subseteq Flagged'
      /\ Pending' \subseteq Pending
  <2>1. air' \subseteq Frames
    BY <1>0, <1>1, <1>2, Numbers DEF TypeInv, Frames
  <2>2. Flagged \subseteq Flagged'
    BY <1>1, <1>5, <1>6, <2>1, MissedFrames
  <2> QED BY <1>1, <1>7, <2>2 DEF Pending
<1> HIDE DEF f
<1>9. TypeInv'
  <2>1. pool + Len(list) + 1 = Pool /\ pool \in Nat /\ Len(list) \in Nat
    BY <1>0 DEF TypeInv
  <2>2. pool' \in Nat /\ pool' + Len(list') + 0 = Pool
    BY <1>1, <2>1
  <2>3. rx' \in [pc : {"idle", "find", "check", "timer", "work"}, f : Frames]
    BY <1>7
  <2> QED BY <1>0, <1>1, <1>7, <2>2, <2>3 DEF TypeInv
<1>10. WindowInv'
  <2>1. WindowAt(p)'
    BY <1>1, <1>4, <1>6, <1>7, <1>8 DEF WindowAt
  <2> QED BY <1>0, <1>1, <2>1 DEF WindowInv
<1>11. PlaceInv'
  BY <1>0, <1>1, <1>7 DEF PlaceInv
<1>12. PendingInv'
  BY <1>0, <1>1, <1>8 DEF PendingInv
<1>13. InOrder'
  BY <1>0, <1>1, <1>8 DEF InOrder, Flagged
<1> QED BY <1>9, <1>10, <1>11, <1>12, <1>13 DEF RxInv

(* A late frame goes up at once; the window passed it, so it is flagged.    *)
LEMMA LateFrameStep ==
  ASSUME RxInv, LateFrame
  PROVE  RxInv'
<1> USE DEF timer, works, radio, session, seen
<1> DEFINE f == rx.f
<1>0. TypeInv /\ WindowInv /\ PlaceInv /\ PendingInv /\ InOrder /\ rx.pc = "check"
  BY DEF RxInv, LateFrame
<1>1. /\ Late(f) /\ rx' = Idle /\ pool' = pool + 1 /\ up' \in {up, Append(up, f)}
      /\ UNCHANGED <<session, timer, works, radio, seen>>
  BY DEF LateFrame
<1>2. /\ f \in Frames /\ f \in Nat /\ f \in 1 .. sent /\ sent \in Nat /\ sent <= MaxFrames
      /\ list \in Seq(Frames) /\ up \in Seq(Frames) /\ f \in BeforeLock /\ f \in InHand
  BY <1>0 DEF TypeInv, PlaceInv, Frames, InHand, BeforeLock
<1>3. PICK p \in 1 .. sent + 1 : WindowAt(p)
  BY <1>0, <1>1 DEF WindowInv, Late
<1>4. f < p /\ p \in Nat
  <2>1. p \in Places /\ f \in Places /\ ind_sn = Sn(p)
    BY <1>2, <1>3, FrameIsPlace, Numbers DEF WindowAt, Places
  <2> QED BY <1>1, <2>1, LessPlaces DEF Late, Places
<1>5. f \in Flagged
  BY <1>2, <1>3, <1>4 DEF WindowAt
<1>6. rx'.pc = "idle" /\ InHand' = {} /\ BeforeLock' = {} /\ rx' \in [pc : {"idle"}, f : Frames]
  BY <1>1, Numbers DEF Idle, InHand, BeforeLock, Frames
<1>7. Flagged' = Flagged /\ Pending' = air \cup Range(list)
  BY <1>1, <1>6 DEF Flagged, Pending
<1> HIDE DEF f
<1>8. up' \in Seq(Frames) /\ Range(up') \subseteq Range(up) \cup {f} /\ InOrder'
  <2>1. CASE up' = up
    BY <1>0, <1>1, <1>2, <2>1 DEF InOrder
  <2>2. CASE up' = Append(up, f)
    BY <1>0, <1>2, <1>5, <1>7, <2>2, KeepsOrderOne
  <2> QED BY <1>1, <2>1, <2>2
<1>9. TypeInv'
  <2>1. pool + Len(list) + 1 = Pool /\ pool \in Nat /\ Len(list) \in Nat
    BY <1>0 DEF TypeInv
  <2>2. pool' \in Nat /\ pool' + Len(list') + 0 = Pool
    BY <1>1, <2>1
  <2>3. rx' \in [pc : {"idle", "find", "check", "timer", "work"}, f : Frames]
    BY <1>6
  <2> QED BY <1>0, <1>1, <1>6, <1>8, <2>2, <2>3 DEF TypeInv
<1>10. WindowInv'
  <2>1. WindowAt(p)'
    BY <1>1, <1>3, <1>6, <1>7 DEF WindowAt
  <2> QED BY <1>0, <1>1, <1>3, <2>1 DEF WindowInv
<1>11. PlaceInv'
  BY <1>0, <1>1, <1>2, <1>6, <1>8 DEF PlaceInv
<1>12. PendingInv'
  <2> SUFFICES ASSUME NEW u \in Range(up'), NEW g \in air \cup Range(list)
               PROVE  u < g \/ g \in Flagged
    BY <1>7 DEF PendingInv
  <2>1. CASE u \in Range(up)
    BY <1>0, <2>1 DEF PendingInv, Pending
  <2>2. CASE u = f /\ g \in air
    <3>1. g # f /\ g \in Nat
      BY <1>0, <1>2, <2>2 DEF PlaceInv, TypeInv
    <3>2. g < p => g \in Flagged
      BY <1>3, <2>2 DEF WindowAt
    <3> QED BY <1>2, <1>4, <2>2, <3>1, <3>2
  <2>3. CASE u = f /\ g \in Range(list)
    <3>1. PICK i \in DOMAIN list : g = list[i]
      BY <2>3 DEF Range
    <3>2. list[i] \in Frames /\ p < list[i]
      BY <1>2, <1>3 DEF WindowAt
    <3> QED BY <1>2, <1>4, <2>3, <3>1, <3>2 DEF Frames
  <2> QED BY <1>8, <2>1, <2>2, <2>3
<1> QED BY <1>8, <1>9, <1>10, <1>11, <1>12 DEF RxInv

(* A frame outside a session: what is held goes up before it. *)
LEMMA FlushListStep ==
  ASSUME RxInv, FlushList
  PROVE  RxInv'
<1> USE DEF timer, works, seen
<1>0. TypeInv /\ WindowInv /\ PlaceInv /\ PendingInv /\ InOrder
  BY DEF RxInv
<1>1. /\ rx.pc = "idle" /\ air = {sent} /\ air' = {}
      /\ UNCHANGED <<timer, works, sent, seen>>
  BY DEF FlushList
<1>2. /\ sent \in Frames /\ sent \in Nat /\ sent \in 1 .. sent /\ sent \in Pending
      /\ list \in Seq(Frames) /\ up \in Seq(Frames) /\ Flagged' = Flagged
      /\ InHand = {} /\ BeforeLock = {}
  BY <1>0, <1>1 DEF TypeInv, Frames, Pending, Flagged, InHand, BeforeLock
<1>3. ASSUME ~enable, up' = Append(up, sent), UNCHANGED <<session, pool, rx>>
      PROVE  RxInv'
  <2> USE DEF session
  <2>1. up' \in Seq(Frames) /\ Range(up') = Range(up) \cup {sent} /\ InOrder'
    BY <1>0, <1>2, <1>3, KeepsOrderOne DEF PendingInv
  <2>2. InHand' = {} /\ BeforeLock' = {} /\ Pending' = {}
    BY <1>0, <1>1, <1>2, <1>3 DEF InHand, BeforeLock, Pending, PlaceInv, Range
  <2>3. TypeInv'
    BY <1>0, <1>1, <1>3, <2>1 DEF TypeInv
  <2>4. WindowInv'
    <3>1. ASSUME NEW p \in 1 .. sent + 1, WindowAt(p) PROVE WindowAt(p)'
      BY <1>1, <1>3, <2>2, <3>1 DEF WindowAt
    <3> QED BY <1>0, <1>1, <1>3, <3>1 DEF WindowInv
  <2>5. PlaceInv'
    BY <1>0, <1>1, <1>2, <1>3, <2>1, <2>2 DEF PlaceInv
  <2>6. PendingInv'
    BY <2>2 DEF PendingInv
  <2> QED BY <2>1, <2>3, <2>4, <2>5, <2>6 DEF RxInv
<1>4. ASSUME enable, GiveUp(list, Len(list)), enable' = FALSE,
             rx' = [pc |-> "timer", f |-> sent], UNCHANGED ind_sn
      PROVE  RxInv'
  <2> DEFINE n == Len(list)   s == SubSeq(list, 1, n)   t == SubSeq(list, n + 1, n)
  <2>1. n \in Nat /\ n \in 0 .. n /\ up' = up \o s /\ pool' = pool + n /\ list' = t
    BY <1>2, <1>4 DEF GiveUp
  <2>2. Splits(list, n, s, t)
    <3>1. Ordered(list)
      BY <1>0 DEF WindowInv
    <3> QED BY <1>2, <2>1, <3>1, GiveUpSplits
  <2> HIDE DEF s, t
  <2>3. list' = << >> /\ Range(list') = {} /\ Len(list') = 0
    <3>1. t \in Seq(Frames) /\ Len(t) = n - n
      BY <2>2 DEF Splits
    <3>2. t = << >> /\ DOMAIN t = {}
      BY <2>1, <3>1
    <3> QED BY <2>1, <3>2 DEF Range
  <2>4. s \in Seq(Frames) /\ Ordered(s) /\ Range(s) = Range(list)
    BY <2>1, <2>2, <2>3 DEF Splits
  <2>5. up' \in Seq(Frames) /\ Range(up') = Range(up) \cup Range(s) /\ InOrder'
    <3>1. \A u \in Range(up), x \in Range(s) : u < x \/ x \in Flagged'
      BY <1>0, <1>2, <2>4 DEF PendingInv, Pending
    <3> QED BY <1>0, <1>2, <2>1, <2>4, <3>1, KeepsOrder
  <2>6. /\ rx'.pc = "timer" /\ rx'.f = sent /\ InHand' = {sent} /\ BeforeLock' = {}
        /\ Pending' = {sent}
        /\ rx' \in [pc : {"idle", "find", "check", "timer", "work"}, f : Frames]
    BY <1>1, <1>2, <1>4, <2>3 DEF InHand, BeforeLock, Pending
  <2>7. TypeInv'
    <3>1. pool + n + 0 = Pool /\ pool \in Nat
      BY <1>0, <1>1 DEF TypeInv
    <3>2. pool' \in Nat /\ pool' + Len(list') + 0 = Pool
      BY <2>1, <2>3, <3>1
    <3>3. list' \in Seq(Frames)
      BY <2>3
    <3> QED BY <1>0, <1>1, <1>4, <2>5, <2>6, <3>2, <3>3 DEF TypeInv
  <2>8. WindowInv'
    <3>1. ASSUME NEW p \in 1 .. sent + 1, WindowAt(p) PROVE WindowAt(p)'
      BY <1>1, <1>4, <2>3, <2>6, <3>1 DEF WindowAt
    <3>2. Ordered(list')
      BY <2>3 DEF Ordered
    <3> QED BY <1>0, <1>1, <1>4, <2>3, <3>1, <3>2 DEF WindowInv
  <2>9. PlaceInv'
    BY <1>0, <1>1, <1>2, <1>4, <2>3, <2>4, <2>5, <2>6 DEF PlaceInv
  <2>10. PendingInv'
    <3>1. ASSUME NEW u \in Range(up) PROVE u < sent \/ sent \in Flagged'
      BY <1>0, <1>2, <3>1 DEF PendingInv
    <3>2. ASSUME NEW u \in Range(list) PROVE u < sent
      <4>1. u \in 1 .. sent /\ u # sent
        BY <1>0, <1>1, <3>2 DEF PlaceInv
      <4> QED BY <1>2, <4>1
    <3> QED BY <2>4, <2>5, <2>6, <3>1, <3>2 DEF PendingInv
  <2> QED BY <2>5, <2>7, <2>8, <2>9, <2>10 DEF RxInv
<1> QED BY <1>3, <1>4 DEF FlushList

(* The frame outside the session follows; what was sent after it comes      *)
(* after it.                                                                *)
LEMMA FlushWorkStep ==
  ASSUME RxInv, FlushWork
  PROVE  RxInv'
<1> USE DEF timer, radio, seen, session
<1> DEFINE f == rx.f
<1>0. TypeInv /\ WindowInv /\ PlaceInv /\ PendingInv /\ InOrder
  BY DEF RxInv
<1>1. /\ rx.pc = "work" /\ work' = FALSE /\ up' = Append(up, f) /\ rx' = Idle
      /\ UNCHANGED <<session, pool, timer, running, radio, seen>>
  BY DEF FlushWork
<1>2. /\ f \in Frames /\ f \in 1 .. sent /\ f \in Pending /\ list = << >> /\ Range(list) = {}
      /\ up \in Seq(Frames) /\ Flagged' = Flagged /\ \A g \in air : f < g
  <2>1. f \in InHand
    BY <1>1 DEF InHand
  <2>2. f \in 1 .. sent /\ f \in Pending /\ list = << >> /\ \A g \in air : f < g
    BY <1>0, <1>1, <2>1 DEF PlaceInv, Pending
  <2>3. f \in Frames /\ up \in Seq(Frames)
    BY <1>0 DEF TypeInv
  <2> QED BY <1>1, <2>2, <2>3 DEF Flagged, Range
<1>3. rx'.pc = "idle" /\ InHand' = {} /\ BeforeLock' = {} /\ rx' \in [pc : {"idle"}, f : Frames]
  BY <1>1, Numbers DEF Idle, InHand, BeforeLock, Frames
<1>4. Pending' = air /\ air \subseteq Pending
  BY <1>1, <1>2, <1>3 DEF Pending
<1> HIDE DEF f
<1>5. up' \in Seq(Frames) /\ Range(up') = Range(up) \cup {f} /\ InOrder'
  BY <1>0, <1>1, <1>2, KeepsOrderOne DEF PendingInv
<1>6. TypeInv'
  <2>1. rx' \in [pc : {"idle", "find", "check", "timer", "work"}, f : Frames]
    BY <1>3
  <2> QED BY <1>0, <1>1, <1>3, <1>5, <2>1 DEF TypeInv
<1>7. WindowInv'
  <2>1. ASSUME NEW p \in 1 .. sent + 1, WindowAt(p) PROVE WindowAt(p)'
    BY <1>1, <1>2, <1>3, <2>1 DEF WindowAt
  <2> QED BY <1>0, <1>1, <2>1 DEF WindowInv
<1>8. PlaceInv'
  BY <1>0, <1>1, <1>2, <1>3, <1>5 DEF PlaceInv
<1>9. PendingInv'
  BY <1>0, <1>2, <1>4, <1>5 DEF PendingInv
<1> QED BY <1>5, <1>6, <1>7, <1>8, <1>9 DEF RxInv

-----------------------------------------------------------------------------
(* The theorems *)

LEMMA RxInvStep ==
  ASSUME RxInv, [Next]_vars
  PROVE  RxInv'
<1>1. CASE Transmit
  BY <1>1, TransmitStep
<1>2. CASE Find
  BY <1>2, FindStep
<1>3. CASE LateFrame
  BY <1>3, LateFrameStep
<1>4. CASE HeldFrame
  BY <1>4, HeldFrameStep
<1>5. CASE NewFrame
  BY <1>5, NewFrameStep
<1>6. CASE FlushList
  BY <1>6, FlushListStep
<1>7. CASE FlushTimer
  BY <1>7, FlushTimerStep
<1>8. CASE FlushWork
  BY <1>8, FlushWorkStep
<1>9. CASE TimerFires \/ HandlerQueues \/ WorkStarts
  BY <1>9, TimerStep
<1>10. CASE WorkRuns
  BY <1>10, WorkRunsStep
<1>11. ASSUME NEW f \in Frames, Lose(f) PROVE RxInv'
  BY <1>11, LoseStep
<1>12. ASSUME NEW f \in Frames, Receive(f) PROVE RxInv'
  BY <1>12, ReceiveStep
<1>13. CASE UNCHANGED vars
  <2>1. UNCHANGED <<ind_sn, list, enable, pool, rx, tmr, firing, work, running,
                    sent, air, up, passed, again>>
    BY <1>13 DEF vars, session, timer, works, radio, seen
  <2>2. InHand' = InHand /\ BeforeLock' = BeforeLock /\ TypeInv'
    BY <2>1 DEF InHand, BeforeLock, RxInv, TypeInv
  <2>3. (rx.pc = "check" => enable) /\ (rx.pc \in {"timer", "work"} => ~enable)
    BY DEF RxInv, PlaceInv
  <2> QED BY <2>1, <2>2, <2>3, QuietStep
<1> QED
  BY <1>1, <1>2, <1>3, <1>4, <1>5, <1>6, <1>7, <1>8, <1>9, <1>10, <1>11, <1>12, <1>13
  DEF Next, Process, Timeout

(* The invariant: the list lies in one window after ind_sn's place, what    *)
(* the window passed before it came is flagged, and what is still to go up  *)
(* comes after all that went up or is flagged.                              *)
THEOREM RxInvariant ==
  Spec => []RxInv
<1>1. RxInv /\ [Next]_vars => RxInv'
  BY RxInvStep
<1> QED BY <1>1, InitRxInv, PTL DEF Spec

(* The types: the list is in order and inside the window by its sequence    *)
(* numbers, however they wrap, and no entry of the pool is lost.            *)
THEOREM TypeCorrect ==
  Spec => []TypeOK
<1>1. ASSUME RxInv PROVE TypeOK
  <2>0. TypeInv /\ WindowInv
    BY <1>1 DEF RxInv
  <2>1. ind_sn \in 0 .. SnMod
    <3>1. ASSUME NEW p \in 1 .. sent + 1, WindowAt(p) PROVE ind_sn \in 0 .. SnMod
      <4>1. p \in Places /\ ind_sn = Sn(p)
        BY <2>0, <3>1, Numbers DEF WindowAt, Places, TypeInv
      <4> QED BY <4>1, PlacesAreNear, SnValue, Numbers
    <3>2. Unset \in 0 .. SnMod
      BY Numbers DEF Unset
    <3> QED BY <2>0, <3>1, <3>2 DEF WindowInv
  <2>2. list \in Seq(Frames) /\ \A i \in 2 .. Len(list) : list[i - 1] < list[i]
    <3>1. list \in Seq(Frames)
      BY <2>0 DEF TypeInv
    <3>2. ASSUME NEW i \in 2 .. Len(list) PROVE list[i - 1] < list[i]
      <4>1. i - 1 \in DOMAIN list /\ i \in DOMAIN list /\ i - 1 < i
        BY <3>1
      <4> QED BY <2>0, <4>1 DEF WindowInv, Ordered
    <3> QED BY <3>1, <3>2
  <2>3. ASSUME NEW i \in DOMAIN list
        PROVE  ((Sn(list[i]) + SnMod) - ind_sn) % SnMod \in 1 .. WSize - 1
    <3>1. PICK p \in 1 .. sent + 1 : WindowAt(p)
      BY <2>0, <2>3 DEF WindowInv
    <3>2. ind_sn = Sn(p) /\ p < list[i] /\ list[i] < p + WSize
      BY <3>1 DEF WindowAt
    <3> DEFINE g == list[i]
    <3>3. g \in Frames /\ g \in Nat /\ g \in Places /\ p \in Places /\ p \in Nat
      BY <2>0, <2>2, FrameIsPlace, Numbers DEF Frames, Places, TypeInv
    <3>4. g \in 1 .. SnMod /\ p \in 1 .. SnMod
      BY <3>3, PlacesAreNear
    <3> HIDE DEF g
    <3>5. ((Sn(g) + SnMod) - Sn(p)) % SnMod = g - p
      BY <3>2, <3>3, <3>4, SnDistance DEF g
    <3>6. g - p \in 1 .. WSize - 1
      BY <3>2, <3>3, Numbers DEF g
    <3> QED BY <3>2, <3>5, <3>6 DEF g
  <2>4. pool \in 0 .. Pool
    <3>1. pool \in Nat /\ Len(list) \in Nat /\ Pool \in Nat
      BY <2>0, Numbers DEF TypeInv
    <3> QED BY <2>0, <3>1 DEF TypeInv
  <2> QED BY <2>0, <2>1, <2>2, <2>3, <2>4 DEF TypeOK, TypeInv
<1> QED BY <1>1, RxInvariant, PTL

(* Nothing goes up after a later frame unless the window had passed it      *)
(* before it came, or it came twice.                                        *)
THEOREM NeverReorders ==
  Spec => []InOrder
<1>1. RxInv => InOrder
  BY DEF RxInv
<1> QED BY <1>1, RxInvariant, PTL
=============================================================================
