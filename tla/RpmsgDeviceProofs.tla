-------------------------- MODULE RpmsgDeviceProofs --------------------------
(***************************************************************************)
(* Proofs about RpmsgDevice for every ring size, index width, set of       *)
(* messages and depth of the doorbell FIFOs.  The buffers of a ring go     *)
(* round: the host lends them, the firmware returns them, the host sees    *)
(* them.  Counted from the one the host will see next, each has a position *)
(* that changes only when the host moves it; the lemmas of the first part  *)
(* say so of one ring, whatever its owner does with it.                    *)
(***************************************************************************)
EXTENDS RpmsgRefinement, Integers, FiniteSetTheorems, SequenceTheorems,
        WellFoundedInduction, TLAPS

-----------------------------------------------------------------------------
(* Division with remainder: an index wraps at a multiple of the ring size,  *)
(* and its remainder is the slot it stands for.                             *)

(* The mask selects a slot. *)
LEMMA ModRange ==
  ASSUME NEW a \in Nat, NEW n \in Nat \ {0}
  PROVE  a % n \in 0 .. n - 1
OBVIOUS

(* Quotient and remainder of an index. *)
LEMMA DivMod ==
  ASSUME NEW a \in Nat, NEW n \in Nat \ {0}
  PROVE  a \div n \in Nat /\ a = n * (a \div n) + (a % n)
OBVIOUS

(* A multiple of n strictly between -n and n is zero. *)
LEMMA SmallMultiple ==
  ASSUME NEW n \in Nat \ {0}, NEW q \in Int, -n < n * q, n * q < n
  PROVE  q = 0
<1>1. ~ q >= 1
  <2> SUFFICES ASSUME q >= 1 PROVE n * q >= n OBVIOUS
  <2> QED OBVIOUS
<1>2. ~ q <= -1
  <2> SUFFICES ASSUME q <= -1 PROVE n * q <= -n OBVIOUS
  <2> QED OBVIOUS
<1> QED BY <1>1, <1>2

(* Equal remainders and a distance below n: equal numbers. *)
LEMMA ModInjective ==
  ASSUME NEW n \in Nat \ {0}, NEW a \in Nat, NEW b \in Nat,
         a % n = b % n, a - b < n, b - a < n
  PROVE  a = b
<1>1. PICK x \in Nat : a = n * x + (a % n)
  BY DivMod
<1>2. PICK y \in Nat : b = n * y + (b % n)
  BY DivMod
<1>3. a % n \in Nat
  BY ModRange
<1>4. a - b = n * x - n * y
  BY <1>1, <1>2, <1>3
<1>5. n * x - n * y = n * (x - y)
  OBVIOUS
<1>6. -n < n * (x - y) /\ n * (x - y) < n
  BY <1>4, <1>5
<1>7. x - y \in Int
  OBVIOUS
<1>8. x - y = 0
  BY <1>6, <1>7, SmallMultiple
<1> QED BY <1>4, <1>8

(* Adding a multiple of n does not change the remainder. *)
LEMMA ModPeriodic ==
  ASSUME NEW n \in Nat \ {0}, NEW a \in Nat, NEW m \in Nat, m % n = 0
  PROVE  (a + m) % n = a % n
<1>1. PICK x \in Nat : a = n * x + (a % n)
  BY DivMod
<1>2. PICK y \in Nat : m = n * y
  BY DivMod
<1>0. a + m \in Nat
  OBVIOUS
<1>3. PICK z \in Nat : a + m = n * z + ((a + m) % n)
  BY <1>0, DivMod
<1>4. a % n \in 0 .. n - 1 /\ (a + m) % n \in 0 .. n - 1
  BY <1>0, ModRange
<1>. DEFINE A == n * x   B == n * y   C == n * z
            r == a % n   s == (a + m) % n
<1>a. A \in Int /\ B \in Int /\ C \in Int
  OBVIOUS
<1>b. a = A + r /\ m = B /\ a + m = C + s /\ r \in Int /\ s \in Int
  BY <1>1, <1>2, <1>3, <1>4
<1>5. n * z - n * x - n * y = (a % n) - ((a + m) % n)
  <2>. HIDE DEF A, B, C, r, s
  <2>1. C - A - B = r - s
    BY <1>a, <1>b
  <2>. QED BY <2>1 DEF A, B, C, r, s
<1>6. n * z - n * x - n * y = n * (z - x - y)
  OBVIOUS
<1>7. -n < n * (z - x - y) /\ n * (z - x - y) < n
  BY <1>4, <1>5, <1>6
<1>8. z - x - y \in Int
  OBVIOUS
<1>9. z - x - y = 0
  BY <1>7, <1>8, SmallMultiple
<1> QED BY <1>4, <1>5, <1>6, <1>9

-----------------------------------------------------------------------------
(* One ring: its lent and its returned buffers, from the one the host will  *)
(* see next (seen) to the one it lent last.  The firmware's part begins at  *)
(* base: the buffer it fills, if it does, and then last_avail_idx.          *)

Flow(a, u, s, b, k) ==
  IF k < Ahead(u.idx, s) THEN u.ring[Slot(s + k)]
  ELSE a.ring[Slot(b + (k - Ahead(u.idx, s)))]

Total(a, u, s, b) == Ahead(u.idx, s) + Ahead(a.idx, b)

(* No buffer is twice in the ring or in the ring and kept by the host, and  *)
(* none is missing.                                                         *)
Round(a, u, s, b, K) ==
  /\ Total(a, u, s, b) + Cardinality(K) = N
  /\ \A j \in 0 .. Total(a, u, s, b) - 1 :
       /\ Flow(a, u, s, b, j) \in Desc \ K
       /\ \A k \in 0 .. Total(a, u, s, b) - 1 :
            Flow(a, u, s, b, j) = Flow(a, u, s, b, k) => j = k

-----------------------------------------------------------------------------
(* Wrapping indices and slots *)

AvailType == [idx : Index, ring : [Desc -> Desc]]
UsedType  == [idx : Index, ring : [Desc -> Desc], quiet : BOOLEAN]

(* The numbers of the assumption.                                           *)
LEMMA Sizes ==
  N \in Nat /\ N > 0 /\ IndexMod \in Nat /\ IndexMod > N
BY RpmsgAssumption

(* One more, and how far ahead, of indices that wrap.                       *)
LEMMA IndexFacts ==
  ASSUME NEW i \in Index, NEW j \in Index
  PROVE  /\ i \in Nat /\ Next1(i) \in Index /\ Ahead(i, j) \in Index /\ Ahead(i, j) \in Nat
         /\ Ahead(i, j) = 0 <=> i = j
         /\ i # j => Ahead(i, Next1(j)) = Ahead(i, j) - 1
         /\ Ahead(i, j) < N => Ahead(Next1(i), j) = Ahead(i, j) + 1
BY Sizes DEF Next1, Ahead, Index

(* The slot of any number is a position of the ring.                        *)
LEMMA SlotType ==
  ASSUME NEW a \in Nat
  PROVE  Slot(a) \in Desc
BY Sizes, ModRange DEF Slot, Desc

(* Wrapping the index leaves the slots behind it alone.                     *)
LEMMA SlotWraps ==
  ASSUME NEW a \in Nat
  PROVE  Slot(a + IndexMod) = Slot(a)
<1>1. IndexMod \in Nat /\ IndexMod % N = 0 /\ N \in Nat \ {0}
  BY RpmsgAssumption
<1> QED BY <1>1, ModPeriodic DEF Slot

(* The k-th slot after the next index is the one after the k-th.            *)
LEMMA SlotNext ==
  ASSUME NEW i \in Index, NEW k \in Nat
  PROVE  Slot(Next1(i) + k) = Slot(i + (k + 1))
<1>1. CASE i + 1 < IndexMod
  <2>1. Next1(i) = i + 1
    BY <1>1, Sizes DEF Next1, Index
  <2>2. Next1(i) + k = i + (k + 1)
    BY <2>1, Sizes DEF Index
  <2> QED BY <2>2
<1>2. CASE i + 1 = IndexMod
  <2>1. Next1(i) = 0
    BY <1>2, Sizes DEF Next1, Index
  <2>2. i + (k + 1) = k + IndexMod /\ Next1(i) + k = k
    BY <1>2, <2>1, Sizes DEF Index
  <2> QED BY <2>2, SlotWraps
<1> QED BY <1>1, <1>2, Sizes DEF Index

(* The slot an index leads to, counted from an earlier index.               *)
LEMMA SlotReached ==
  ASSUME NEW i \in Index, NEW j \in Index
  PROVE  Slot(i) = Slot(j + Ahead(i, j))
<1>1. CASE i >= j
  <2>1. j + Ahead(i, j) = i
    BY <1>1, Sizes DEF Ahead, Index
  <2> QED BY <2>1
<1>2. CASE i < j
  <2>1. j + Ahead(i, j) = i + IndexMod /\ i \in Nat
    BY <1>2, Sizes DEF Ahead, Index
  <2> QED BY <2>1, SlotWraps
<1> QED BY <1>1, <1>2 DEF Index

(* Numbers less than a ring apart have slots of their own.                  *)
LEMMA SlotApart ==
  ASSUME NEW i \in Index, NEW j \in Nat, NEW k \in Nat, j < k, k - j < N
  PROVE  Slot(i + j) # Slot(i + k)
<1>1. i + j \in Nat /\ i + k \in Nat /\ N \in Nat \ {0}
  BY Sizes DEF Index
<1>2. (i + j) - (i + k) < N /\ (i + k) - (i + j) < N /\ i + j # i + k
  BY Sizes DEF Index
<1> QED BY <1>1, <1>2, ModInjective DEF Slot

-----------------------------------------------------------------------------
(* The buffers of a ring on their way round *)

(* The counts are numbers and every position holds a descriptor.            *)
LEMMA FlowFacts ==
  ASSUME NEW a \in AvailType, NEW u \in UsedType, NEW s \in Index, NEW b \in Index
  PROVE  /\ Ahead(u.idx, s) \in Nat /\ Ahead(a.idx, b) \in Nat
         /\ Total(a, u, s, b) \in Nat
         /\ \A k \in Nat : Flow(a, u, s, b, k) \in Desc
<1>0. u.idx \in Index /\ a.idx \in Index /\ u.ring \in [Desc -> Desc]
      /\ a.ring \in [Desc -> Desc]
  BY DEF AvailType, UsedType
<1>1. Ahead(u.idx, s) \in Nat /\ Ahead(a.idx, b) \in Nat
  BY <1>0, IndexFacts
<1>2. ASSUME NEW k \in Nat PROVE Flow(a, u, s, b, k) \in Desc
  <2>1. CASE k < Ahead(u.idx, s)
    <3>1. s + k \in Nat
      BY DEF Index
    <3> QED BY <2>1, <3>1, <1>0, SlotType DEF Flow
  <2>2. CASE ~ k < Ahead(u.idx, s)
    <3>1. b + (k - Ahead(u.idx, s)) \in Nat
      BY <2>2, <1>1 DEF Index
    <3> QED BY <2>2, <3>1, <1>0, SlotType DEF Flow
  <2> QED BY <2>1, <2>2
<1> QED BY <1>1, <1>2 DEF Total

(* The firmware returns the buffer at its base: everyone keeps his place.   *)
LEMMA FlowGive ==
  ASSUME NEW a \in AvailType, NEW u \in UsedType, NEW s \in Index, NEW b \in Index,
         NEW u2 \in UsedType,
         a.idx # b, Total(a, u, s, b) <= N,
         u2.idx = Next1(u.idx),
         u2.ring = [u.ring EXCEPT ![Slot(u.idx)] = a.ring[Slot(b)]]
  PROVE  /\ Ahead(u2.idx, s) = Ahead(u.idx, s) + 1
         /\ Ahead(a.idx, Next1(b)) = Ahead(a.idx, b) - 1
         /\ Total(a, u2, s, Next1(b)) = Total(a, u, s, b)
         /\ \A k \in 0 .. Total(a, u, s, b) - 1 :
              Flow(a, u2, s, Next1(b), k) = Flow(a, u, s, b, k)
<1> DEFINE n == Ahead(u.idx, s)   t == Total(a, u, s, b)
<1>0. /\ u.idx \in Index /\ a.idx \in Index /\ u.ring \in [Desc -> Desc]
      /\ a.ring \in [Desc -> Desc] /\ n \in Nat /\ t \in Nat /\ t = n + Ahead(a.idx, b)
  BY FlowFacts DEF AvailType, UsedType, Total
<1>1. Ahead(a.idx, b) # 0 /\ Ahead(a.idx, b) \in Nat
  BY <1>0, IndexFacts
<1>2. n < N
  BY <1>0, <1>1, Sizes
<1>3. Ahead(u2.idx, s) = n + 1 /\ Ahead(a.idx, Next1(b)) = Ahead(a.idx, b) - 1
  <2>1. Ahead(Next1(u.idx), s) = n + 1
    BY <1>0, <1>2, IndexFacts
  <2>2. Ahead(a.idx, Next1(b)) = Ahead(a.idx, b) - 1
    BY <1>0, IndexFacts
  <2> QED BY <2>1, <2>2
<1>4. Total(a, u2, s, Next1(b)) = t
  BY <1>3, <1>1, <1>0 DEF Total
<1>5. Slot(u.idx) = Slot(s + n) /\ Slot(u.idx) \in Desc
  BY <1>0, SlotReached, SlotType DEF Index
<1>6. ASSUME NEW k \in 0 .. t - 1
      PROVE  Flow(a, u2, s, Next1(b), k) = Flow(a, u, s, b, k)
  <2>0. k \in Nat
    OBVIOUS
  <2>1. CASE k < n
    <3>1. Slot(s + k) # Slot(s + n)
      BY <2>0, <2>1, <1>0, <1>2, SlotApart, Sizes
    <3>2. s + k \in Nat
      BY DEF Index
    <3>3. u2.ring[Slot(s + k)] = u.ring[Slot(s + k)]
      BY <3>1, <3>2, <1>5, <1>0, SlotType
    <3>4. k < n + 1
      BY <2>1, <2>0, <1>0
    <3> QED BY <3>3, <3>4, <2>1, <1>3 DEF Flow
  <2>2. CASE k = n
    <3>1. u2.ring[Slot(s + k)] = a.ring[Slot(b)]
      BY <2>2, <1>5, <1>0
    <3>2. b + (k - n) = b /\ k < n + 1 /\ ~ k < n
      BY <2>2, <1>0 DEF Index
    <3> QED BY <3>1, <3>2, <1>3 DEF Flow
  <2>3. CASE k > n
    <3>1. k - (n + 1) \in Nat /\ k - (n + 1) + 1 = k - n /\ ~ k < n + 1 /\ ~ k < n
      BY <2>3, <2>0, <1>0
    <3>2. Slot(Next1(b) + (k - (n + 1))) = Slot(b + (k - n))
      BY <3>1, SlotNext
    <3> QED BY <3>1, <3>2, <1>3 DEF Flow
  <2> QED BY <2>0, <2>1, <2>2, <2>3, <1>0
<1> QED BY <1>3, <1>4, <1>6

(* The host lends a buffer: it is the last one.                             *)
LEMMA FlowOffer ==
  ASSUME NEW a \in AvailType, NEW u \in UsedType, NEW s \in Index, NEW b \in Index,
         NEW a2 \in AvailType, NEW d \in Desc,
         Total(a, u, s, b) < N,
         a2.idx = Next1(a.idx),
         a2.ring = [a.ring EXCEPT ![Slot(a.idx)] = d]
  PROVE  /\ Ahead(a2.idx, b) = Ahead(a.idx, b) + 1
         /\ Total(a2, u, s, b) = Total(a, u, s, b) + 1
         /\ Flow(a2, u, s, b, Total(a, u, s, b)) = d
         /\ \A k \in 0 .. Total(a, u, s, b) - 1 :
              Flow(a2, u, s, b, k) = Flow(a, u, s, b, k)
<1> DEFINE n == Ahead(u.idx, s)   m == Ahead(a.idx, b)   t == Total(a, u, s, b)
<1>0. /\ u.idx \in Index /\ a.idx \in Index /\ a.ring \in [Desc -> Desc]
      /\ n \in Nat /\ m \in Nat /\ t \in Nat /\ t = n + m
  BY FlowFacts DEF AvailType, UsedType, Total
<1>1. m < N
  BY <1>0, Sizes
<1>2. Ahead(a2.idx, b) = m + 1
  BY <1>0, <1>1, IndexFacts
<1>3. Total(a2, u, s, b) = t + 1
  BY <1>2, <1>0 DEF Total
<1>4. Slot(a.idx) = Slot(b + m) /\ Slot(a.idx) \in Desc
  BY <1>0, SlotReached, SlotType DEF Index
<1>5. Flow(a2, u, s, b, t) = d
  <2>1. ~ t < n /\ t - n = m
    BY <1>0
  <2> QED BY <2>1, <1>4, <1>0 DEF Flow
<1>6. ASSUME NEW k \in 0 .. t - 1
      PROVE  Flow(a2, u, s, b, k) = Flow(a, u, s, b, k)
  <2>1. CASE k < n
    BY <2>1 DEF Flow
  <2>2. CASE ~ k < n
    <3>1. k - n \in Nat /\ k - n < m /\ m - (k - n) < N /\ b + (k - n) \in Nat
      BY <2>2, <1>0, <1>1, Sizes DEF Index
    <3>2. Slot(b + (k - n)) # Slot(b + m) /\ Slot(b + (k - n)) \in Desc
      BY <3>1, <1>0, SlotApart, SlotType
    <3>3. a2.ring[Slot(b + (k - n))] = a.ring[Slot(b + (k - n))]
      BY <3>2, <1>4, <1>0
    <3> QED BY <2>2, <3>3 DEF Flow
  <2> QED BY <2>1, <2>2
<1> QED BY <1>2, <1>3, <1>5, <1>6

(* The host sees a returned buffer: the others move up.                     *)
LEMMA FlowSee ==
  ASSUME NEW a \in AvailType, NEW u \in UsedType, NEW s \in Index, NEW b \in Index,
         u.idx # s
  PROVE  /\ Ahead(u.idx, Next1(s)) = Ahead(u.idx, s) - 1
         /\ Total(a, u, Next1(s), b) = Total(a, u, s, b) - 1
         /\ Total(a, u, s, b) > 0
         /\ \A k \in Nat : Flow(a, u, Next1(s), b, k) = Flow(a, u, s, b, k + 1)
<1> DEFINE n == Ahead(u.idx, s)   t == Total(a, u, s, b)
<1>0. /\ u.idx \in Index /\ n \in Nat /\ Ahead(a.idx, b) \in Nat /\ t = n + Ahead(a.idx, b)
  BY FlowFacts DEF AvailType, UsedType, Total
<1>1. n # 0
  BY <1>0, IndexFacts
<1>2. Ahead(u.idx, Next1(s)) = n - 1
  BY <1>0, IndexFacts
<1>3. Total(a, u, Next1(s), b) = t - 1 /\ t > 0
  BY <1>2, <1>0, <1>1 DEF Total
<1>4. ASSUME NEW k \in Nat
      PROVE  Flow(a, u, Next1(s), b, k) = Flow(a, u, s, b, k + 1)
  <2>1. CASE k < n - 1
    <3>1. k + 1 < n
      BY <2>1, <1>0
    <3>2. Slot(Next1(s) + k) = Slot(s + (k + 1))
      BY SlotNext
    <3> QED BY <2>1, <3>1, <3>2, <1>2 DEF Flow
  <2>2. CASE ~ k < n - 1
    <3>1. ~ k + 1 < n /\ k - (n - 1) = (k + 1) - n
      BY <2>2, <1>0
    <3> QED BY <2>2, <3>1, <1>2 DEF Flow
  <2> QED BY <2>1, <2>2
<1> QED BY <1>2, <1>3, <1>4

(* Seen and lent again: the first becomes the last.                         *)
LEMMA FlowTurn ==
  ASSUME NEW a \in AvailType, NEW u \in UsedType, NEW s \in Index, NEW b \in Index,
         NEW a2 \in AvailType, NEW d \in Desc,
         u.idx # s, Total(a, u, s, b) <= N,
         d = u.ring[Slot(s)],
         a2.idx = Next1(a.idx),
         a2.ring = [a.ring EXCEPT ![Slot(a.idx)] = d]
  PROVE  /\ Ahead(u.idx, Next1(s)) = Ahead(u.idx, s) - 1
         /\ Ahead(a2.idx, b) = Ahead(a.idx, b) + 1
         /\ Total(a2, u, Next1(s), b) = Total(a, u, s, b)
         /\ Flow(a, u, s, b, 0) = d
         /\ Flow(a2, u, Next1(s), b, Total(a, u, s, b) - 1) = d
         /\ \A k \in 0 .. Total(a, u, s, b) - 2 :
              Flow(a2, u, Next1(s), b, k) = Flow(a, u, s, b, k + 1)
<1> DEFINE t == Total(a, u, s, b)   s2 == Next1(s)
<1>0. t \in Nat /\ u.idx \in Index /\ s2 \in Index /\ Ahead(u.idx, s) \in Nat
  BY FlowFacts, IndexFacts DEF UsedType
<1>1. /\ Ahead(u.idx, s2) = Ahead(u.idx, s) - 1
      /\ Total(a, u, s2, b) = t - 1 /\ t > 0
      /\ \A k \in Nat : Flow(a, u, s2, b, k) = Flow(a, u, s, b, k + 1)
  BY FlowSee
<1>2. Total(a, u, s2, b) < N
  BY <1>0, <1>1, Sizes
<1>3. /\ Ahead(a2.idx, b) = Ahead(a.idx, b) + 1
      /\ Total(a2, u, s2, b) = (t - 1) + 1
      /\ Flow(a2, u, s2, b, t - 1) = d
      /\ \A k \in 0 .. (t - 1) - 1 : Flow(a2, u, s2, b, k) = Flow(a, u, s2, b, k)
  <2> HIDE DEF t, s2
  <2> QED BY <1>0, <1>1, <1>2, FlowOffer
<1>4. Flow(a, u, s, b, 0) = d
  <2>1. Ahead(u.idx, s) # 0
    BY <1>0, IndexFacts
  <2>2. s + 0 = s
    BY DEF Index
  <2> QED BY <2>1, <2>2, <1>0 DEF Flow
<1>5. ASSUME NEW k \in 0 .. t - 2
      PROVE  Flow(a2, u, s2, b, k) = Flow(a, u, s, b, k + 1)
  <2>1. k \in Nat /\ k \in 0 .. (t - 1) - 1
    BY <1>0
  <2> QED BY <2>1, <1>1, <1>3
<1> QED BY <1>0, <1>1, <1>3, <1>4, <1>5

(* A ring has N buffers.                                                    *)
LEMMA DescFinite ==
  IsFiniteSet(Desc) /\ Cardinality(Desc) = N
<1>1. IsFiniteSet(0 .. N - 1) /\ Cardinality(0 .. N - 1) = IF 0 > N - 1 THEN 0 ELSE (N - 1) - 0 + 1
  BY Sizes, FS_Interval
<1> QED BY <1>1, Sizes DEF Desc

(* No more buffers are under way than there are.                            *)
LEMMA RoundSize ==
  ASSUME NEW a \in AvailType, NEW u \in UsedType, NEW s \in Index, NEW b \in Index,
         NEW K \in SUBSET Desc, Round(a, u, s, b, K)
  PROVE  Total(a, u, s, b) \in 0 .. N /\ Cardinality(K) \in Nat
<1>1. Cardinality(K) \in Nat
  BY DescFinite, FS_Subset, FS_CardinalityType
<1>2. Total(a, u, s, b) \in Nat
  BY FlowFacts
<1> QED BY <1>1, <1>2, Sizes DEF Round

(* What Round says of the order survives a return ...                       *)
LEMMA RoundGive ==
  ASSUME NEW a \in AvailType, NEW u \in UsedType, NEW s \in Index, NEW b \in Index,
         NEW u2 \in UsedType, NEW K \in SUBSET Desc,
         Round(a, u, s, b, K), a.idx # b,
         u2.idx = Next1(u.idx),
         u2.ring = [u.ring EXCEPT ![Slot(u.idx)] = a.ring[Slot(b)]]
  PROVE  Round(a, u2, s, Next1(b), K)
<1> DEFINE t == Total(a, u, s, b)
<1>1. t \in Nat /\ t <= N
  BY RoundSize
<1>2. /\ Total(a, u2, s, Next1(b)) = t
      /\ \A k \in 0 .. t - 1 : Flow(a, u2, s, Next1(b), k) = Flow(a, u, s, b, k)
  BY <1>1, FlowGive
<1> QED BY <1>2 DEF Round

(* ... a buffer the host lends for the first time ...                       *)
LEMMA RoundOffer ==
  ASSUME NEW a \in AvailType, NEW u \in UsedType, NEW s \in Index, NEW b \in Index,
         NEW a2 \in AvailType, NEW K \in SUBSET Desc, NEW d \in K,
         Round(a, u, s, b, K),
         a2.idx = Next1(a.idx),
         a2.ring = [a.ring EXCEPT ![Slot(a.idx)] = d]
  PROVE  Round(a2, u, s, b, K \ {d}) /\ Total(a, u, s, b) < N
<1> DEFINE t == Total(a, u, s, b)
<1>1. t \in Nat
  BY FlowFacts
<1>2. IsFiniteSet(K)
  BY DescFinite, FS_Subset
<1>3. /\ Cardinality(K) \in Nat /\ Cardinality(K \ {d}) \in Nat
      /\ Cardinality(K \ {d}) = Cardinality(K) - 1
  BY <1>2, FS_RemoveElement, FS_CardinalityType
<1>4. t + Cardinality(K) = N
  BY DEF Round
<1>5. t < N
  BY <1>1, <1>3, <1>4, Sizes
<1>6. /\ Total(a2, u, s, b) = t + 1
      /\ Flow(a2, u, s, b, t) = d
      /\ \A k \in 0 .. t - 1 : Flow(a2, u, s, b, k) = Flow(a, u, s, b, k)
  BY <1>5, FlowOffer
<1>7. Total(a2, u, s, b) + Cardinality(K \ {d}) = N
  BY <1>1, <1>3, <1>4, <1>6
<1>8. ASSUME NEW j \in 0 .. t
      PROVE  /\ Flow(a2, u, s, b, j) \in Desc \ (K \ {d})
             /\ \A k \in 0 .. t : Flow(a2, u, s, b, j) = Flow(a2, u, s, b, k) => j = k
  <2> HIDE DEF t
  <2>1. \A k \in 0 .. t - 1 : /\ Flow(a2, u, s, b, k) = Flow(a, u, s, b, k)
                              /\ Flow(a2, u, s, b, k) \in Desc \ K
    BY <1>6 DEF Round, t
  <2>2. \A k \in 0 .. t : k = t \/ k \in 0 .. t - 1
    BY <1>1
  <2>3. \A i, k \in 0 .. t - 1 : Flow(a, u, s, b, i) = Flow(a, u, s, b, k) => i = k
    BY DEF Round, t
  <2> QED BY <2>1, <2>2, <2>3, <1>6
<1>9. 0 .. (t + 1) - 1 = 0 .. t
  BY <1>1
<1> QED BY <1>5, <1>6, <1>7, <1>8, <1>9 DEF Round

(* ... and one it lends again.                                              *)
LEMMA RoundTurn ==
  ASSUME NEW a \in AvailType, NEW u \in UsedType, NEW s \in Index, NEW b \in Index,
         NEW a2 \in AvailType, NEW K \in SUBSET Desc, NEW d \in Desc,
         Round(a, u, s, b, K), u.idx # s, d = u.ring[Slot(s)],
         a2.idx = Next1(a.idx),
         a2.ring = [a.ring EXCEPT ![Slot(a.idx)] = d]
  PROVE  Round(a2, u, Next1(s), b, K)
<1> DEFINE t == Total(a, u, s, b)
<1>1. t \in Nat /\ t <= N
  BY RoundSize
<1>2. /\ Total(a2, u, Next1(s), b) = t
      /\ Flow(a, u, s, b, 0) = d
      /\ Flow(a2, u, Next1(s), b, t - 1) = d
      /\ \A k \in 0 .. t - 2 : Flow(a2, u, Next1(s), b, k) = Flow(a, u, s, b, k + 1)
  BY <1>1, FlowTurn
<1> DEFINE Place(j) == IF j = t - 1 THEN 0 ELSE j + 1
<1>3. ASSUME NEW j \in 0 .. t - 1
      PROVE  /\ Place(j) \in 0 .. t - 1
             /\ Flow(a2, u, Next1(s), b, j) = Flow(a, u, s, b, Place(j))
  <2>1. CASE j = t - 1
    <3>1. Place(j) = 0 /\ 0 \in 0 .. t - 1
      BY <2>1, <1>1
    <3> QED BY <3>1, <2>1, <1>2
  <2>2. CASE j # t - 1
    <3>1. Place(j) = j + 1 /\ j + 1 \in 0 .. t - 1 /\ j \in 0 .. t - 2
      BY <2>2, <1>1
    <3> QED BY <3>1, <1>2
  <2> QED BY <2>1, <2>2
<1>4. \A j, k \in 0 .. t - 1 : Place(j) = Place(k) => j = k
  BY <1>1
<1>5. \A i \in 0 .. t - 1 :
        /\ Flow(a, u, s, b, i) \in Desc \ K
        /\ \A k \in 0 .. t - 1 : Flow(a, u, s, b, i) = Flow(a, u, s, b, k) => i = k
  BY DEF Round
<1>6. ASSUME NEW j \in 0 .. t - 1
      PROVE  /\ Flow(a2, u, Next1(s), b, j) \in Desc \ K
             /\ \A k \in 0 .. t - 1 :
                  Flow(a2, u, Next1(s), b, j) = Flow(a2, u, Next1(s), b, k) => j = k
  <2> HIDE DEF t, Place
  <2> QED BY <1>3, <1>4, <1>5
<1> QED BY <1>2, <1>6 DEF Round

(* As many values as positions, when no value comes twice.                  *)
LEMMA DistinctImage ==
  ASSUME NEW n \in Nat, NEW f \in [0 .. n - 1 -> Desc],
         \A j, k \in 0 .. n - 1 : f[j] = f[k] => j = k
  PROVE  Cardinality({f[k] : k \in 0 .. n - 1}) = n
<1> DEFINE S == 0 .. n - 1   T == {f[k] : k \in S}
<1>1. IsFiniteSet(S) /\ Cardinality(S) = n
  <2>1. IsFiniteSet(0 .. n - 1)
        /\ Cardinality(0 .. n - 1) = IF 0 > n - 1 THEN 0 ELSE (n - 1) - 0 + 1
    BY FS_Interval
  <2> QED BY <2>1
<1>2. f \in Surjection(S, T) /\ f \in Injection(S, T)
  BY DEF Surjection, Injection, IsInjective
<1> HIDE DEF S, T
<1>3. Cardinality(T) = Cardinality(S)
  BY <1>1, <1>2, FS_Surjection
<1> QED BY <1>1, <1>3 DEF S, T

LentPart(a, b, h) ==
  {a.ring[Slot(b + (h + k))] : k \in 0 .. Ahead(a.idx, b) - h - 1}
FilledPart(a, b, h) == IF h = 1 THEN {a.ring[Slot(b)]} ELSE {}
UnreadPart(u, s) == {u.ring[Slot(s + k)] : k \in 0 .. Ahead(u.idx, s) - 1}

(* Every buffer of a ring that goes round has one owner: the firmware's     *)
(* part without the h buffers it fills, what the host has not seen, the     *)
(* buffer being filled, and what the host keeps.                            *)
LEMMA RoundOwners ==
  ASSUME NEW a \in AvailType, NEW u \in UsedType, NEW s \in Index, NEW b \in Index,
         NEW K \in SUBSET Desc, NEW h \in 0 .. 1,
         Round(a, u, s, b, K), h <= Ahead(a.idx, b)
  PROVE  /\ Cardinality(LentPart(a, b, h)) = Ahead(a.idx, b) - h
         /\ Cardinality(UnreadPart(u, s)) = Ahead(u.idx, s)
         /\ LentPart(a, b, h) \cup UnreadPart(u, s) \cup FilledPart(a, b, h) \cup K = Desc
<1> DEFINE n == Ahead(u.idx, s)   m == Ahead(a.idx, b)   t == Total(a, u, s, b)
           f == [k \in 0 .. t - 1 |-> Flow(a, u, s, b, k)]
           l == [k \in 0 .. m - h - 1 |-> f[n + h + k]]
           r == [k \in 0 .. n - 1 |-> f[k]]
<1>0. /\ n \in Nat /\ m \in Nat /\ t \in Nat /\ t = n + m /\ h \in Nat /\ h <= m
      /\ m - h \in Nat /\ u.idx \in Index /\ a.idx \in Index
  BY FlowFacts DEF AvailType, UsedType, Total
<1>1. /\ f \in [0 .. t - 1 -> Desc]
      /\ \A k \in 0 .. t - 1 : f[k] \in Desc /\ f[k] \notin K
      /\ \A j, k \in 0 .. t - 1 : f[j] = f[k] => j = k
  BY DEF Round
<1>2. ASSUME NEW k \in 0 .. n - 1
      PROVE  k \in 0 .. t - 1 /\ f[k] = u.ring[Slot(s + k)]
  BY <1>0 DEF Flow
<1>3. ASSUME NEW k \in 0 .. m - h - 1
      PROVE  n + h + k \in 0 .. t - 1 /\ f[n + h + k] = a.ring[Slot(b + (h + k))]
  <2>1. n + h + k \in 0 .. t - 1 /\ ~ n + h + k < n /\ (n + h + k) - n = h + k
    BY <1>0
  <2> QED BY <2>1 DEF Flow
<1>4. ASSUME h = 1 PROVE n \in 0 .. t - 1 /\ f[n] = a.ring[Slot(b)]
  <2>1. n \in 0 .. t - 1 /\ ~ n < n /\ b + (n - n) = b
    BY <1>0, <1>4 DEF Index
  <2> QED BY <2>1 DEF Flow
<1> DEFINE L == {a.ring[Slot(b + (h + k))] : k \in 0 .. m - h - 1}
           R == {u.ring[Slot(s + k)] : k \in 0 .. n - 1}
           H == IF h = 1 THEN {a.ring[Slot(b)]} ELSE {}
           A == {f[k] : k \in 0 .. t - 1}
<1> HIDE DEF f, t
<1>5. Cardinality(L) = m - h
  <2>1. l \in [0 .. m - h - 1 -> Desc] /\ L = {l[k] : k \in 0 .. m - h - 1}
    BY <1>1, <1>3
  <2>2. \A j, k \in 0 .. m - h - 1 : l[j] = l[k] => j = k
    <3> SUFFICES ASSUME NEW j \in 0 .. m - h - 1, NEW k \in 0 .. m - h - 1, l[j] = l[k]
                 PROVE  j = k
      OBVIOUS
    <3>1. f[n + h + j] = f[n + h + k]
      OBVIOUS
    <3>2. n + h + j \in 0 .. t - 1 /\ n + h + k \in 0 .. t - 1
      BY <1>3
    <3>3. n + h + j = n + h + k
      BY <1>1, <3>1, <3>2
    <3> QED BY <3>3, <1>0
  <2> HIDE DEF L, l, n, m
  <2> QED BY <2>1, <2>2, <1>0, DistinctImage
<1>6. Cardinality(R) = n
  <2>0. \A k \in 0 .. n - 1 : r[k] = u.ring[Slot(s + k)] /\ r[k] \in Desc
    BY <1>1, <1>2
  <2>1. r \in [0 .. n - 1 -> Desc] /\ R = {r[k] : k \in 0 .. n - 1}
    BY <2>0
  <2>2. \A j, k \in 0 .. n - 1 : r[j] = r[k] => j = k
    BY <1>1, <1>2
  <2> HIDE DEF R, r, n
  <2> QED BY <2>1, <2>2, <1>0, DistinctImage
<1>7. A \cup K = Desc
  <2>2. Cardinality(A) = t
    BY <1>1, <1>0, DistinctImage
  <2>3. A \in SUBSET Desc /\ A \cap K = {}
    BY <1>1
  <2>4. IsFiniteSet(A) /\ IsFiniteSet(K) /\ IsFiniteSet(Desc)
    BY <2>3, DescFinite, FS_Subset
  <2>5. Cardinality(A) \in Nat /\ Cardinality(K) \in Nat
    BY <2>4, FS_CardinalityType
  <2> HIDE DEF A
  <2>6. Cardinality(A \cup K) = Cardinality(A) + Cardinality(K)
    <3>1. Cardinality(A \cup K)
            = Cardinality(A) + Cardinality(K) - Cardinality(A \cap K)
      BY <2>4, FS_Union
    <3>2. Cardinality(A \cap K) = 0
      BY <2>3, FS_EmptySet
    <3> QED BY <3>1, <3>2, <2>5
  <2>7. t + Cardinality(K) = N
    BY DEF Round, t
  <2>8. A \cup K \in SUBSET Desc
    BY <2>3
  <2>9. Cardinality(A \cup K) = Cardinality(Desc)
    BY <2>2, <2>6, <2>7, DescFinite
  <2> QED BY <2>4, <2>8, <2>9, FS_Subset
<1>8. A = L \cup R \cup H
  <2>a. L \subseteq A
    BY <1>3
  <2>b. R \subseteq A
    BY <1>2
  <2>c. H \subseteq A
    BY <1>4
  <2>1. L \cup R \cup H \subseteq A
    BY <2>a, <2>b, <2>c
  <2>2. ASSUME NEW k \in 0 .. t - 1 PROVE f[k] \in L \cup R \cup H
    <3>1. CASE k < n
      <4>1. k \in 0 .. n - 1
        BY <3>1, <1>0
      <4> QED BY <4>1, <1>2
    <3>2. CASE k = n /\ h = 1
      BY <3>2, <1>4
    <3>3. CASE ~ k < n /\ ~(k = n /\ h = 1)
      <4>1. k - n - h \in 0 .. m - h - 1 /\ n + h + (k - n - h) = k
        BY <3>3, <1>0
      <4>2. f[k] = a.ring[Slot(b + (h + (k - n - h)))]
        BY <4>1, <1>3
      <4> QED BY <4>1, <4>2
    <3> QED BY <3>1, <3>2, <3>3
  <2> QED BY <2>1, <2>2
<1> QED BY <1>5, <1>6, <1>7, <1>8 DEF LentPart, FilledPart, UnreadPart

-----------------------------------------------------------------------------
(* The invariant *)

Filling == pc \in {"announced", "filled"}
Inside(q) == IF q = TX /\ Filling THEN 1 ELSE 0
Base(q) == IF q = TX /\ Filling THEN (last[q] + IndexMod - 1) % IndexMod ELSE last[q]
At(q, k) == Flow(avail[q], used[q], seen[q], Base(q), k)
All(q)   == Total(avail[q], used[q], seen[q], Base(q))

RingsRound ==
  \A q \in Rings : Round(avail[q], used[q], seen[q], Base(q), HostKeeps(q))

(* Where the firmware is and what it has established there.                 *)
Reading == InReply \cup {"suppress", "take", "return"}
Serving == InPoll \cup {"announce", "announced", "annbell", "drain", "check"}
PlaceInv ==
  /\ ready => driverOk
  /\ pc \in Serving => ready
  /\ pc \in {"kickon", "unmask"} => sleeps
  /\ pc \in Reading => 1 <= pending /\ pending <= Pending(RX)
  /\ pc = "fill" => 1 <= Pending(TX)
  /\ Filling => Base(TX) # avail[TX].idx
  /\ ~ready => last = [q \in Rings |-> 0]
  /\ ~driverOk => \A q \in Rings : avail[q].idx = 0 /\ used[q].idx = 0 /\ seen[q] = 0

(* What the buffers hold: lent ones a request, filled ones a whole message. *)
ContentInv ==
  /\ \A k \in Unread(RX) .. All(RX) - 1 : buf[RX][At(RX, k)] \in Msgs
  /\ pc \in InReply => buf[RX][NextDesc(RX)] \notin Malformed
  /\ \A k \in 0 .. Unread(TX) + Inside(TX) - 1 :
       buf[TX][At(TX, k)] \notin {NoMsg} \cup Malformed

(* Kicks are on where a worker goes to sleep, and before the rings are known. *)
SleepInv ==
  /\ sleeps /\ pc \in {"unmask", "wait"} => ~used[RX].quiet
  /\ sleeps /\ pc = "wait" /\ ~notified => irqOn
  /\ ~ready => \A q \in Rings : ~used[q].quiet

RpmsgInv ==
  TypeOK /\ RingsRound /\ PlaceInv /\ ContentInv
         /\ SleepInv /\ HostIsTold /\ KicksOnlyWhenWanted
-----------------------------------------------------------------------------
(* Types, frames and moves *)

TypeRings ==
  /\ avail \in [Rings -> AvailType] /\ used \in [Rings -> UsedType]
  /\ buf \in [Rings -> [Desc -> Msgs \cup {NoMsg, Announcement}]]
  /\ last \in [Rings -> Index] /\ seen \in [Rings -> Index] /\ free \subseteq Desc

TypeFlags ==
  /\ driverOk \in BOOLEAN /\ toHost \in 0 .. HostFifo /\ toDev \in 0 .. DevFifo
  /\ ready \in BOOLEAN /\ announced \in BOOLEAN
  /\ pc \in Pcs /\ pending \in 0 .. N
  /\ sleeps \in BOOLEAN /\ irqOn \in BOOLEAN /\ notified \in BOOLEAN
  /\ sendPc \in {"idle", "kick", "blocked"}
  /\ recvPc \in {"probe", "idle", "recv"} /\ work \in BOOLEAN

(* The types of the rings and those of the rest.                            *)
LEMMA TypeParts == TypeOK <=> TypeRings /\ TypeFlags
BY DEF TypeOK, TypeRings, TypeFlags, AvailType, UsedType

(* There are two rings.                                                     *)
LEMMA RingNames == TX # RX /\ TX \in Rings /\ RX \in Rings
BY DEF TX, RX, Rings

(* The steps, one by one.                                                   *)
LEMMA Steps ==
  [Next]_vars =>
    \/ UNCHANGED vars
    \/ Wake \/ IsDriverReady \/ Announce \/ AnnouncePublish \/ AnnounceBell
    \/ DrainDoorbells \/ CheckAvail \/ Suppress \/ Take \/ ReturnBuffer
    \/ Recheck \/ PollBell
    \/ ReplyCheck \/ ReplyOpen \/ ReplyWaitBell \/ ReplyWaitDrain
    \/ ReplyFill \/ ReplyPublish \/ ReplyBell \/ KickOn \/ Unmask \/ Isr
    \/ HostProbe \/ HostDoorbell \/ HostWork \/ HostReceive \/ HostReceiveEnd
    \/ HostProbeKick \/ HostSendKick \/ HostSendBlocks
    \/ \E m \in Msgs : HostSend(m)
BY DEF Next, Firmware, Poll, Reply, HostVrings

(* Who writes the available rings.                                          *)
LEMMA AvailFrame ==
  [Next]_vars => avail' = avail \/ HostProbe \/ HostReceive
                 \/ \E m \in Msgs : HostSend(m)
BY Steps DEF vars, shared, bells, device, rtos, host, Wake, IsDriverReady,
       Announce, AnnouncePublish, AnnounceBell, DrainDoorbells, CheckAvail,
       Suppress, Take, ReturnBuffer, Recheck, PollBell, ReplyCheck, ReplyOpen,
       ReplyWaitBell, ReplyWaitDrain, ReplyFill, ReplyPublish, ReplyBell,
       KickOn, Unmask, Isr, HostProbe, HostDoorbell, HostWork, HostReceive,
       HostReceiveEnd, HostProbeKick, HostSendKick, HostSendBlocks, HostSend

(* Who writes the used rings.                                               *)
LEMMA UsedFrame ==
  [Next]_vars =>
    \/ used' = used
    \/ Wake \/ IsDriverReady \/ CheckAvail \/ Suppress \/ Take \/ ReplyOpen
    \/ ReplyFill \/ KickOn
    \/ AnnouncePublish \/ ReplyPublish \/ ReturnBuffer
BY Steps DEF vars, shared, bells, device, rtos, host, Wake, IsDriverReady,
       Announce, AnnouncePublish, AnnounceBell, DrainDoorbells, CheckAvail,
       Suppress, Take, ReturnBuffer, Recheck, PollBell, ReplyCheck, ReplyOpen,
       ReplyWaitBell, ReplyWaitDrain, ReplyFill, ReplyPublish, ReplyBell,
       KickOn, Unmask, Isr, HostProbe, HostDoorbell, HostWork, HostReceive,
       HostReceiveEnd, HostProbeKick, HostSendKick, HostSendBlocks, HostSend

(* Who writes buffers.                                                      *)
LEMMA BufFrame ==
  [Next]_vars => buf' = buf \/ Announce \/ ReplyFill \/ ReturnBuffer \/ HostReceive
                 \/ \E m \in Msgs : HostSend(m)
BY Steps DEF vars, shared, bells, device, rtos, host, Wake, IsDriverReady,
       Announce, AnnouncePublish, AnnounceBell, DrainDoorbells, CheckAvail,
       Suppress, Take, ReturnBuffer, Recheck, PollBell, ReplyCheck, ReplyOpen,
       ReplyWaitBell, ReplyWaitDrain, ReplyFill, ReplyPublish, ReplyBell,
       KickOn, Unmask, Isr, HostProbe, HostDoorbell, HostWork, HostReceive,
       HostReceiveEnd, HostProbeKick, HostSendKick, HostSendBlocks, HostSend

(* Who moves last_avail_idx.                                                *)
LEMMA LastFrame ==
  [Next]_vars => last' = last \/ IsDriverReady \/ Announce \/ ReplyFill \/ ReturnBuffer
BY Steps DEF vars, shared, bells, device, rtos, host, Wake, IsDriverReady,
       Announce, AnnouncePublish, AnnounceBell, DrainDoorbells, CheckAvail,
       Suppress, Take, ReturnBuffer, Recheck, PollBell, ReplyCheck, ReplyOpen,
       ReplyWaitBell, ReplyWaitDrain, ReplyFill, ReplyPublish, ReplyBell,
       KickOn, Unmask, Isr, HostProbe, HostDoorbell, HostWork, HostReceive,
       HostReceiveEnd, HostProbeKick, HostSendKick, HostSendBlocks, HostSend

(* Who changes what the host keeps and has seen.                            *)
LEMMA HostFrame ==
  [Next]_vars => (seen' = seen /\ free' = free) \/ HostReceive
                 \/ \E m \in Msgs : HostSend(m)
BY Steps DEF vars, shared, bells, device, rtos, host, Wake, IsDriverReady,
       Announce, AnnouncePublish, AnnounceBell, DrainDoorbells, CheckAvail,
       Suppress, Take, ReturnBuffer, Recheck, PollBell, ReplyCheck, ReplyOpen,
       ReplyWaitBell, ReplyWaitDrain, ReplyFill, ReplyPublish, ReplyBell,
       KickOn, Unmask, Isr, HostProbe, HostDoorbell, HostWork, HostReceive,
       HostReceiveEnd, HostProbeKick, HostSendKick, HostSendBlocks, HostSend

(* The program's place changes only by a step of the firmware.              *)
LEMMA PcFrame ==
  [Next]_vars => (UNCHANGED <<pc, pending, ready, used>>) \/ Firmware
BY Steps DEF vars, shared, bells, device, rtos, host, Wake, IsDriverReady,
       Announce, AnnouncePublish, AnnounceBell, DrainDoorbells, CheckAvail,
       Suppress, Take, ReturnBuffer, Recheck, PollBell, ReplyCheck, ReplyOpen,
       ReplyWaitBell, ReplyWaitDrain, ReplyFill, ReplyPublish, ReplyBell,
       KickOn, Unmask, Isr, HostProbe, HostDoorbell, HostWork, HostReceive,
       HostReceiveEnd, HostProbeKick, HostSendKick, HostSendBlocks, HostSend,
       Firmware, Poll, Reply

(* Half a ring with its records taken apart.                                *)
LEMMA OfferedShape ==
  ASSUME avail \in [Rings -> AvailType], NEW q \in Rings, NEW d \in Desc
  PROVE  /\ Offered(q, d) \in [Rings -> AvailType]
         /\ Offered(q, d)[q].idx = Next1(avail[q].idx)
         /\ Offered(q, d)[q].ring = [avail[q].ring EXCEPT ![Slot(avail[q].idx)] = d]
         /\ \A p \in Rings : p # q => Offered(q, d)[p] = avail[p]
<1>1. avail[q].idx \in Index /\ avail[q].ring \in [Desc -> Desc] /\ avail[q] \in AvailType
  BY DEF AvailType
<1>2. Slot(avail[q].idx) \in Desc /\ Next1(avail[q].idx) \in Index
  BY <1>1, IndexFacts, SlotType
<1> DEFINE r == [avail[q].ring EXCEPT ![Slot(avail[q].idx)] = d]
           a == [avail[q] EXCEPT !.ring = r, !.idx = Next1(avail[q].idx)]
<1>3. r \in [Desc -> Desc]
  BY <1>1
<1>4. a \in AvailType /\ a.idx = Next1(avail[q].idx) /\ a.ring = r
  <2> HIDE DEF r
  <2> QED BY <1>1, <1>2, <1>3 DEF AvailType
<1>5. Offered(q, d) = [avail EXCEPT ![q] = a]
  BY <1>1 DEF Offered, AvailType
<1> QED BY <1>4, <1>5

(* The used half after a descriptor was published.                          *)
LEMMA PublishedShape ==
  ASSUME used \in [Rings -> UsedType], NEW q \in Rings, NEW d \in Desc
  PROVE  /\ Published(q, d) \in [Rings -> UsedType]
         /\ Published(q, d)[q].idx = Next1(used[q].idx)
         /\ Published(q, d)[q].ring = [used[q].ring EXCEPT ![Slot(used[q].idx)] = d]
         /\ Published(q, d)[q].quiet = used[q].quiet
         /\ \A p \in Rings : p # q => Published(q, d)[p] = used[p]
<1>1. /\ used[q].idx \in Index /\ used[q].ring \in [Desc -> Desc]
      /\ used[q].quiet \in BOOLEAN /\ used[q] \in UsedType
  BY DEF UsedType
<1>2. Slot(used[q].idx) \in Desc /\ Next1(used[q].idx) \in Index
  BY <1>1, IndexFacts, SlotType
<1> DEFINE r == [used[q].ring EXCEPT ![Slot(used[q].idx)] = d]
           u == [used[q] EXCEPT !.ring = r, !.idx = Next1(used[q].idx)]
<1>3. r \in [Desc -> Desc]
  BY <1>1
<1>4. /\ u \in UsedType /\ u.idx = Next1(used[q].idx) /\ u.ring = r
      /\ u.quiet = used[q].quiet
  <2> HIDE DEF r
  <2> QED BY <1>1, <1>2, <1>3 DEF UsedType
<1>5. Published(q, d) = [used EXCEPT ![q] = u]
  BY <1>1 DEF Published, UsedType
<1> QED BY <1>4, <1>5

(* A change of NO_NOTIFY alone.                                             *)
LEMMA QuietShape ==
  ASSUME used \in [Rings -> UsedType], NEW q \in Rings, NEW v \in BOOLEAN,
         used' = [used EXCEPT ![q].quiet = v]
  PROVE  /\ used' \in [Rings -> UsedType]
         /\ \A p \in Rings : used'[p].idx = used[p].idx /\ used'[p].ring = used[p].ring
         /\ used'[q].quiet = v
         /\ \A p \in Rings : p # q => used'[p] = used[p]
<1>1. used[q] \in UsedType
  OBVIOUS
<1> DEFINE u == [used[q] EXCEPT !.quiet = v]
<1>2. /\ u \in UsedType /\ u.quiet = v /\ u.idx = used[q].idx /\ u.ring = used[q].ring
  BY <1>1 DEF UsedType
<1>3. used' = [used EXCEPT ![q] = u]
  OBVIOUS
<1> HIDE DEF u
<1> QED BY <1>2, <1>3

(* The buffers the firmware works on are buffers of the ring.               *)
LEMMA DescTypes ==
  ASSUME TypeRings
  PROVE  /\ \A q \in Rings : NextDesc(q) \in Desc /\ last[q] \in Index
         /\ Filled \in Desc
<1>1. \A q \in Rings : avail[q].ring \in [Desc -> Desc] /\ last[q] \in Index
  BY DEF TypeRings, AvailType
<1>2. \A q \in Rings : last[q] \in Nat /\ last[TX] + IndexMod - 1 \in Nat
  BY <1>1, Sizes, RingNames DEF Index
<1> QED BY <1>1, <1>2, SlotType, RingNames DEF NextDesc, Filled
-----------------------------------------------------------------------------
(* The types are kept *)

(* The available rings keep their type.                                     *)
LEMMA AvailTypeStep ==
  ASSUME TypeRings, [Next]_vars
  PROVE  avail' \in [Rings -> AvailType]
<1>0. avail \in [Rings -> AvailType]
  BY DEF TypeRings
<1>1. CASE avail' = avail
  BY <1>0, <1>1
<1>2. CASE HostProbe
  <2> DEFINE r == [s \in Desc |-> s]   a == [idx |-> N, ring |-> r]
  <2>1. avail' = [avail EXCEPT ![TX] = a]
    BY <1>2 DEF HostProbe
  <2>2. N \in Index
    BY Sizes DEF Index
  <2>3. r \in [Desc -> Desc]
    OBVIOUS
  <2>4. a \in AvailType
    <3> HIDE DEF r
    <3> QED BY <2>2, <2>3 DEF AvailType
  <2> HIDE DEF a
  <2> QED BY <1>0, <2>1, <2>4
<1>3. CASE HostReceive
  <2>1. PICK d : d = used[TX].ring[Slot(seen[TX])] /\ avail' = Offered(TX, d)
    BY <1>3 DEF HostReceive
  <2>2. d \in Desc
    <3>1. used[TX] \in UsedType /\ seen[TX] \in Index
      BY RingNames DEF TypeRings
    <3>2. used[TX].ring \in [Desc -> Desc] /\ Slot(seen[TX]) \in Desc
      BY <3>1, IndexFacts, SlotType DEF UsedType
    <3> QED BY <2>1, <3>2
  <2> QED BY <1>0, <2>1, <2>2, OfferedShape, RingNames
<1>4. ASSUME NEW m \in Msgs, HostSend(m) PROVE avail' \in [Rings -> AvailType]
  <2>1. PICK d \in Desc : avail' = Offered(RX, d)
    BY <1>4 DEF HostSend
  <2> QED BY <1>0, <2>1, OfferedShape, RingNames
<1> QED BY <1>1, <1>2, <1>3, <1>4, AvailFrame

(* The steps that only change NO_NOTIFY.                                    *)
Kicks(q, v) == used' = [used EXCEPT ![q].quiet = v]

(* Seven steps change nothing of a used ring but its flag.                  *)
LEMMA KickMoves ==
  ASSUME TypeRings
  PROVE  /\ Wake => used' = used \/ \E v \in BOOLEAN : Kicks(RX, v)
         /\ CheckAvail => \E v \in BOOLEAN : Kicks(RX, v)
         /\ Suppress => \E v \in BOOLEAN : Kicks(RX, v)
         /\ Take => \E v \in BOOLEAN : Kicks(RX, v)
         /\ KickOn => \E v \in BOOLEAN : Kicks(RX, v)
         /\ ReplyOpen => \E v \in BOOLEAN : Kicks(TX, v)
         /\ ReplyFill => \E v \in BOOLEAN : Kicks(TX, v)
<1>2. Wake => used' = used \/ \E v \in BOOLEAN : Kicks(RX, v)
  BY Zenon DEF Wake, Kicks
<1>3. CheckAvail => \E v \in BOOLEAN : Kicks(RX, v)
  BY Zenon DEF CheckAvail, Kicks
<1>4. Suppress => \E v \in BOOLEAN : Kicks(RX, v)
  BY Zenon DEF Suppress, Kicks
<1>5. Take => \E v \in BOOLEAN : Kicks(RX, v)
  BY Zenon DEF Take, Kicks
<1>6. KickOn => \E v \in BOOLEAN : Kicks(RX, v)
  BY Zenon DEF KickOn, Kicks
<1>7. ReplyOpen => \E v \in BOOLEAN : Kicks(TX, v)
  BY Zenon DEF ReplyOpen, Kicks
<1>8. ReplyFill => \E v \in BOOLEAN : Kicks(TX, v)
  BY Zenon DEF ReplyFill, Kicks, QuietAgain
<1> QED BY <1>2, <1>3, <1>4, <1>5, <1>6, <1>7, <1>8
(* Only a returned buffer moves a used index.                               *)
LEMMA UsedMoves ==
  ASSUME TypeRings, [Next]_vars
  PROVE  /\ used' \in [Rings -> UsedType]
         /\ \/ AnnouncePublish \/ ReplyPublish \/ ReturnBuffer
            \/ \A q \in Rings : used'[q].idx = used[q].idx /\ used'[q].ring = used[q].ring
<1>0. used \in [Rings -> UsedType]
  BY DEF TypeRings
<1>1. CASE used' = used
  BY <1>0, <1>1
<1>2. ASSUME NEW q \in Rings, NEW v \in BOOLEAN, Kicks(q, v)
      PROVE  /\ used' \in [Rings -> UsedType]
             /\ \A p \in Rings : used'[p].idx = used[p].idx /\ used'[p].ring = used[p].ring
  BY <1>0, <1>2, QuietShape DEF Kicks
<1>3. CASE Wake \/ CheckAvail \/ Suppress \/ Take \/ KickOn \/ ReplyOpen \/ ReplyFill
  BY <1>1, <1>2, <1>3, KickMoves, RingNames
<1>4. CASE IsDriverReady
  <2>1. CASE used' = [q \in Rings |-> [used[q] EXCEPT !.quiet = TRUE]]
    <3> DEFINE u(q) == [used[q] EXCEPT !.quiet = TRUE]
    <3>1. ASSUME NEW q \in Rings
          PROVE  u(q) \in UsedType /\ u(q).idx = used[q].idx /\ u(q).ring = used[q].ring
      <4>1. used[q] \in UsedType
        BY <1>0
      <4> QED BY <4>1 DEF UsedType
    <3>2. used' = [q \in Rings |-> u(q)]
      BY <2>1
    <3> HIDE DEF u
    <3> QED BY <3>1, <3>2
  <2> QED BY <2>1, <1>1, <1>4 DEF IsDriverReady
<1>5. ASSUME NEW q \in Rings, NEW d \in Desc, used' = Published(q, d)
      PROVE  used' \in [Rings -> UsedType]
  BY <1>0, <1>5, PublishedShape
<1>6. CASE AnnouncePublish \/ ReplyPublish
  <2>1. used' = Published(TX, Filled)
    BY <1>6 DEF AnnouncePublish, ReplyPublish
  <2> QED BY <2>1, <1>5, <1>6, DescTypes, RingNames
<1>7. CASE ReturnBuffer
  <2>1. used' = Published(RX, NextDesc(RX))
    BY <1>7 DEF ReturnBuffer
  <2> QED BY <2>1, <1>5, <1>7, DescTypes, RingNames
<1> QED BY <1>1, <1>3, <1>4, <1>6, <1>7, UsedFrame

(* Buffers hold messages.                                                   *)
LEMMA BufTypeStep ==
  ASSUME TypeRings, [Next]_vars
  PROVE  buf' \in [Rings -> [Desc -> Msgs \cup {NoMsg, Announcement}]]
<1> DEFINE B == Msgs \cup {NoMsg, Announcement}
<1>0. buf \in [Rings -> [Desc -> B]]
  BY DEF TypeRings
<1>1. ASSUME NEW q \in Rings, NEW d, NEW x \in B, buf' = [buf EXCEPT ![q][d] = x]
      PROVE  buf' \in [Rings -> [Desc -> B]]
  <2>1. [buf[q] EXCEPT ![d] = x] \in [Desc -> B]
    BY <1>0
  <2> QED BY <1>0, <1>1, <2>1
<1>2. buf' = buf => buf' \in [Rings -> [Desc -> B]]
  BY <1>0
<1>3. NoMsg \in B /\ Announcement \in B /\ \A m \in Msgs : m \in B
  OBVIOUS
<1>4. buf[RX][NextDesc(RX)] \in B
  BY <1>0, DescTypes, RingNames
<1> HIDE DEF B
<1>5. ASSUME Announce PROVE buf' \in [Rings -> [Desc -> B]]
  BY <1>1, <1>2, <1>3, <1>5, RingNames DEF Announce
<1>6. ASSUME ReplyFill PROVE buf' \in [Rings -> [Desc -> B]]
  BY <1>1, <1>2, <1>4, <1>6, RingNames DEF ReplyFill
<1>7. ASSUME ReturnBuffer PROVE buf' \in [Rings -> [Desc -> B]]
  BY <1>1, <1>3, <1>7, RingNames DEF ReturnBuffer
<1>8. ASSUME HostReceive PROVE buf' \in [Rings -> [Desc -> B]]
  <2>1. PICK d : buf' = [buf EXCEPT ![TX][d] = NoMsg]
    BY <1>8 DEF HostReceive
  <2> QED BY <2>1, <1>1, <1>3, RingNames
<1>9. ASSUME NEW m \in Msgs, HostSend(m) PROVE buf' \in [Rings -> [Desc -> B]]
  <2>1. PICK d : buf' = [buf EXCEPT ![RX][d] = m]
    BY <1>9 DEF HostSend
  <2> QED BY <2>1, <1>1, <1>3, RingNames
<1>10. buf' \in [Rings -> [Desc -> B]]
  BY <1>2, <1>5, <1>6, <1>7, <1>8, <1>9, BufFrame
<1> QED BY <1>10 DEF B

(* The private indices stay in their range.                                 *)
LEMMA IndexTypeStep ==
  ASSUME TypeRings, [Next]_vars
  PROVE  /\ last' \in [Rings -> Index] /\ seen' \in [Rings -> Index]
         /\ free' \subseteq Desc
<1>0. last \in [Rings -> Index] /\ seen \in [Rings -> Index] /\ free \subseteq Desc
  BY DEF TypeRings
<1>1. \A q \in Rings : Next1(last[q]) \in Index /\ Next1(seen[q]) \in Index
  BY <1>0, IndexFacts
<1>2. 0 \in Index
  BY Sizes DEF Index
<1>3. last' \in [Rings -> Index]
  <2>1. CASE last' = last
    BY <1>0, <2>1
  <2>2. CASE IsDriverReady
    BY <1>0, <1>2, <2>2 DEF IsDriverReady
  <2>3. \A q \in Rings : Consumed(q) \in [Rings -> Index]
    BY <1>0, <1>1 DEF Consumed
  <2>4. CASE Announce
    BY <2>1, <2>3, <2>4, RingNames DEF Announce
  <2>5. CASE ReplyFill
    BY <2>1, <2>3, <2>5, RingNames DEF ReplyFill
  <2>6. CASE ReturnBuffer
    BY <2>3, <2>6, RingNames DEF ReturnBuffer
  <2> QED BY <2>1, <2>2, <2>4, <2>5, <2>6, LastFrame
<1>4. seen' \in [Rings -> Index] /\ free' \subseteq Desc
  <2>1. CASE HostReceive
    BY <2>1, <1>0, <1>1, RingNames DEF HostReceive
  <2>2. ASSUME NEW m \in Msgs, HostSend(m)
        PROVE  seen' \in [Rings -> Index] /\ free' \subseteq Desc
    BY <2>2, <1>0, <1>1, RingNames DEF HostSend
  <2>3. CASE seen' = seen /\ free' = free
    BY <2>3, <1>0
  <2> QED BY <2>1, <2>2, <2>3, HostFrame
<1> QED BY <1>3, <1>4

(* The rings keep their type.                                               *)
LEMMA TypeRingsStep ==
  ASSUME TypeRings, [Next]_vars
  PROVE  TypeRings'
BY AvailTypeStep, UsedMoves, BufTypeStep, IndexTypeStep DEF TypeRings

(* avail_pending() is never more than N, whatever the host writes.          *)
LEMMA WaitingType ==
  ASSUME TypeRings, NEW q \in Rings
  PROVE  /\ Pending(q) \in Nat /\ Waiting(q) \in 0 .. N
         /\ Waiting(q) # 0 => Pending(q) \in 1 .. N /\ Waiting(q) = Pending(q)
<1>1. avail[q].idx \in Index /\ last[q] \in Index
  BY DEF TypeRings, AvailType
<1>2. Pending(q) \in Nat
  BY <1>1, IndexFacts DEF Pending
<1> QED BY <1>2, Sizes DEF Waiting, RingError

(* The doorbell FIFOs stay within their size.                               *)
LEMMA BellsTypeStep ==
  ASSUME TypeFlags, [Next]_vars
  PROVE  toHost' \in 0 .. HostFifo /\ toDev' \in 0 .. DevFifo
<1>0. /\ toHost \in 0 .. HostFifo /\ toDev \in 0 .. DevFifo
      /\ HostFifo \in Nat \ {0} /\ DevFifo \in Nat \ {0}
  BY RpmsgAssumption DEF TypeFlags
<1>1. toHost' = toHost \/ NotifyHost \/ (toHost > 0 /\ toHost' = toHost - 1)
  BY Steps DEF vars, shared, bells, device, rtos, host, Wake, IsDriverReady,
         Announce, AnnouncePublish, AnnounceBell, DrainDoorbells, CheckAvail,
         Suppress, Take, ReturnBuffer, Recheck, PollBell, ReplyCheck,
         ReplyOpen, ReplyWaitBell, ReplyWaitDrain, ReplyFill, ReplyPublish,
         ReplyBell, KickOn, Unmask, Isr, HostProbe, HostDoorbell, HostWork,
         HostReceive, HostReceiveEnd, HostProbeKick, HostSendKick,
         HostSendBlocks, HostSend
<1>2. toDev' = toDev \/ toDev' = 0 \/ toDev' = (IF toDev = DevFifo THEN toDev ELSE toDev + 1)
      \/ Kick(TX) \/ Kick(RX)
  BY Steps DEF vars, shared, bells, device, rtos, host, Wake, IsDriverReady,
         Announce, AnnouncePublish, AnnounceBell, DrainDoorbells, CheckAvail,
         Suppress, Take, ReturnBuffer, Recheck, PollBell, ReplyCheck,
         ReplyOpen, ReplyWaitBell, ReplyWaitDrain, ReplyFill, ReplyPublish,
         ReplyBell, KickOn, Unmask, Isr, HostProbe, HostDoorbell, HostWork,
         HostReceive, HostReceiveEnd, HostProbeKick, HostSendKick,
         HostSendBlocks, HostSend
<1>3. toHost' \in 0 .. HostFifo
  BY <1>0, <1>1 DEF NotifyHost
<1>4. toDev' \in 0 .. DevFifo
  BY <1>0, <1>2 DEF Kick
<1> QED BY <1>3, <1>4

(* The rest keeps its type: poll()'s count does not go below zero.          *)
LEMMA FlagsTypeStep ==
  ASSUME TypeRings, TypeFlags, PlaceInv, [Next]_vars
  PROVE  TypeFlags'
<1>1. driverOk' \in BOOLEAN /\ announced' \in BOOLEAN /\ sleeps' \in BOOLEAN
  BY Steps DEF TypeFlags, vars, shared, bells, device, rtos, host, Wake,
         IsDriverReady, Announce, AnnouncePublish, AnnounceBell,
         DrainDoorbells, CheckAvail, Suppress, Take, ReturnBuffer, Recheck,
         PollBell, ReplyCheck, ReplyOpen, ReplyWaitBell, ReplyWaitDrain,
         ReplyFill, ReplyPublish, ReplyBell, KickOn, Unmask, Isr, HostProbe,
         HostDoorbell, HostWork, HostReceive, HostReceiveEnd, HostProbeKick,
         HostSendKick, HostSendBlocks, HostSend
<1>2. ready' \in BOOLEAN /\ irqOn' \in BOOLEAN /\ notified' \in BOOLEAN /\ work' \in BOOLEAN
  BY Steps DEF TypeFlags, vars, shared, bells, device, rtos, host, Wake,
         IsDriverReady, Announce, AnnouncePublish, AnnounceBell,
         DrainDoorbells, CheckAvail, Suppress, Take, ReturnBuffer, Recheck,
         PollBell, ReplyCheck, ReplyOpen, ReplyWaitBell, ReplyWaitDrain,
         ReplyFill, ReplyPublish, ReplyBell, KickOn, Unmask, Isr, HostProbe,
         HostDoorbell, HostWork, HostReceive, HostReceiveEnd, HostProbeKick,
         HostSendKick, HostSendBlocks, HostSend
<1>3. sendPc' \in {"idle", "kick", "blocked"} /\ recvPc' \in {"probe", "idle", "recv"}
  BY Steps DEF TypeFlags, vars, shared, bells, device, rtos, host, Wake,
         IsDriverReady, Announce, AnnouncePublish, AnnounceBell,
         DrainDoorbells, CheckAvail, Suppress, Take, ReturnBuffer, Recheck,
         PollBell, ReplyCheck, ReplyOpen, ReplyWaitBell, ReplyWaitDrain,
         ReplyFill, ReplyPublish, ReplyBell, KickOn, Unmask, Isr, HostProbe,
         HostDoorbell, HostWork, HostReceive, HostReceiveEnd, HostProbeKick,
         HostSendKick, HostSendBlocks, HostSend
<1>4. pc' \in Pcs
  BY Steps DEF TypeFlags, Pcs, InPoll, InReply, InWait, AfterPoll, LookAgain,
         WhenDone, vars, shared, bells, device, rtos, host, Wake,
         IsDriverReady, Announce, AnnouncePublish, AnnounceBell,
         DrainDoorbells, CheckAvail, Suppress, Take, ReturnBuffer, Recheck,
         PollBell, ReplyCheck, ReplyOpen, ReplyWaitBell, ReplyWaitDrain,
         ReplyFill, ReplyPublish, ReplyBell, KickOn, Unmask, Isr, HostProbe,
         HostDoorbell, HostWork, HostReceive, HostReceiveEnd, HostProbeKick,
         HostSendKick, HostSendBlocks, HostSend
<1>5. pending' \in 0 .. N
  <2>1. pending \in 0 .. N /\ Waiting(RX) \in 0 .. N
    BY WaitingType, RingNames DEF TypeFlags
  <2>2. pc = "return" => 1 <= pending
    BY DEF PlaceInv, Reading
  <2>3. \/ pending' = pending \/ pending' = Waiting(RX)
        \/ pc = "return" /\ pending' = pending - 1
    BY Steps DEF vars, shared, bells, device, rtos, host, Wake, IsDriverReady,
           Announce, AnnouncePublish, AnnounceBell, DrainDoorbells,
           CheckAvail, Suppress, Take, ReturnBuffer, Recheck, PollBell,
           ReplyCheck, ReplyOpen, ReplyWaitBell, ReplyWaitDrain, ReplyFill,
           ReplyPublish, ReplyBell, KickOn, Unmask, Isr, HostProbe,
           HostDoorbell, HostWork, HostReceive, HostReceiveEnd, HostProbeKick,
           HostSendKick, HostSendBlocks, HostSend
  <2> QED BY <2>1, <2>2, <2>3, Sizes
<1> QED BY <1>1, <1>2, <1>3, <1>4, <1>5, BellsTypeStep DEF TypeFlags
-----------------------------------------------------------------------------
(* How the buffers move *)

(* One less, of an index that wraps.                                        *)
LEMMA PrevFacts ==
  ASSUME NEW i \in Index
  PROVE  /\ (i + IndexMod - 1) % IndexMod \in Index
         /\ Next1((i + IndexMod - 1) % IndexMod) = i
         /\ (Next1(i) + IndexMod - 1) % IndexMod = i
         /\ Slot((i + IndexMod - 1) % IndexMod) = Slot(i + IndexMod - 1)
<1>0. i \in Nat /\ i < IndexMod
  BY Sizes DEF Index
<1>1. CASE i = 0
  <2>1. (i + IndexMod - 1) % IndexMod = i + IndexMod - 1
    BY <1>0, <1>1, Sizes
  <2>2. Next1(i) = 1
    BY <1>1, Sizes DEF Next1
  <2> QED BY <1>0, <1>1, <2>1, <2>2, Sizes DEF Next1, Index
<1>2. CASE i # 0
  <2>1. (i + IndexMod - 1) % IndexMod = i - 1 /\ i - 1 \in Nat
    BY <1>0, <1>2, Sizes
  <2>2. Slot(i - 1 + IndexMod) = Slot(i - 1)
    BY <2>1, SlotWraps
  <2>3. i - 1 + IndexMod = i + IndexMod - 1
    BY <1>0, Sizes
  <2>4. (Next1(i) + IndexMod - 1) % IndexMod = i
    <3>1. CASE i + 1 < IndexMod
      BY <1>0, <3>1, Sizes DEF Next1
    <3>2. CASE i + 1 = IndexMod
      <4>1. Next1(i) = 0
        BY <1>0, <3>2, Sizes DEF Next1
      <4> QED BY <1>0, <3>2, <4>1, Sizes
    <3> QED BY <1>0, <3>1, <3>2, Sizes
  <2> QED BY <1>0, <2>1, <2>2, <2>3, <2>4, Sizes DEF Next1, Index
<1> QED BY <1>1, <1>2

Lent(q) == Ahead(avail[q].idx, Base(q))

(* The firmware's part is what is lent and the buffer being filled.         *)
LEMMA BaseFacts ==
  ASSUME TypeRings, PlaceInv
  PROVE  /\ \A q \in Rings : Base(q) \in Index /\ Lent(q) \in Nat
         /\ Base(RX) = last[RX] /\ Lent(RX) = Pending(RX) /\ Inside(RX) = 0
         /\ ~Filling => Base(TX) = last[TX] /\ Lent(TX) = Pending(TX)
                        /\ Inside(TX) = 0
         /\ Filling => /\ Next1(Base(TX)) = last[TX] /\ Inside(TX) = 1
                       /\ Filled = avail[TX].ring[Slot(Base(TX))]
                       /\ Lent(TX) = Pending(TX) + 1
<1>0. \A q \in Rings : last[q] \in Index /\ avail[q].idx \in Index
  BY DEF TypeRings, AvailType
<1>1. \A q \in Rings : Base(q) \in Index
  BY <1>0, PrevFacts DEF Base
<1>2. \A q \in Rings : Lent(q) \in Nat
  BY <1>0, <1>1, IndexFacts DEF Lent
<1>3. Base(RX) = last[RX] /\ Lent(RX) = Pending(RX) /\ Inside(RX) = 0
  BY RingNames DEF Base, Lent, Pending, Inside
<1>4. ~Filling => Base(TX) = last[TX] /\ Lent(TX) = Pending(TX) /\ Inside(TX) = 0
  BY DEF Base, Lent, Pending, Inside
<1>5. ASSUME Filling
      PROVE  /\ Next1(Base(TX)) = last[TX] /\ Inside(TX) = 1
             /\ Filled = avail[TX].ring[Slot(Base(TX))]
             /\ Lent(TX) = Pending(TX) + 1
  <2>1. Base(TX) = (last[TX] + IndexMod - 1) % IndexMod /\ Inside(TX) = 1
    BY <1>5 DEF Base, Inside
  <2>2. Next1(Base(TX)) = last[TX] /\ Slot(Base(TX)) = Slot(last[TX] + IndexMod - 1)
    BY <2>1, <1>0, PrevFacts, RingNames
  <2>3. Base(TX) # avail[TX].idx
    BY <1>5 DEF PlaceInv
  <2>4. Ahead(avail[TX].idx, Next1(Base(TX))) = Ahead(avail[TX].idx, Base(TX)) - 1
    BY <2>3, <1>0, <1>1, IndexFacts, RingNames
  <2>5. Lent(TX) = Pending(TX) + 1
    BY <2>2, <2>4, <1>2, RingNames DEF Lent, Pending
  <2> QED BY <2>1, <2>2, <2>5 DEF Filled
<1> QED BY <1>1, <1>2, <1>3, <1>4, <1>5

(* The four ways a ring may change, and all else that may be said of it.    *)
SameUsed(q) == used'[q].idx = used[q].idx /\ used'[q].ring = used[q].ring
Puts(q, d) ==
  /\ avail'[q].idx = Next1(avail[q].idx)
  /\ avail'[q].ring = [avail[q].ring EXCEPT ![Slot(avail[q].idx)] = d]

Still(q) ==
  /\ avail'[q] = avail[q] /\ SameUsed(q) /\ seen'[q] = seen[q]
  /\ Base(q)' = Base(q) /\ HostKeeps(q)' = HostKeeps(q)

Gives(q) ==
  /\ avail'[q] = avail[q] /\ seen'[q] = seen[q] /\ HostKeeps(q)' = HostKeeps(q)
  /\ Base(q)' = Next1(Base(q))
  /\ used'[q].idx = Next1(used[q].idx)
  /\ used'[q].ring = [used[q].ring EXCEPT ![Slot(used[q].idx)]
                                            = avail[q].ring[Slot(Base(q))]]

Lends(q, d) ==
  /\ SameUsed(q) /\ seen'[q] = seen[q] /\ Base(q)' = Base(q) /\ Puts(q, d)
  /\ d \in HostKeeps(q) /\ HostKeeps(q)' = HostKeeps(q) \ {d}

Turns(q, d) ==
  /\ SameUsed(q) /\ Base(q)' = Base(q) /\ Puts(q, d)
  /\ used[q].idx # seen[q] /\ d = used[q].ring[Slot(seen[q])]
  /\ seen'[q] = Next1(seen[q]) /\ HostKeeps(q)' = HostKeeps(q)

(* Where the firmware's part begins changes only as a buffer is returned.   *)
LEMMA BaseStep ==
  ASSUME TypeRings, PlaceInv, [Next]_vars
  PROVE  /\ Base(RX)' = Base(RX) \/ ReturnBuffer
         /\ Base(TX)' = Base(TX) \/ AnnouncePublish \/ ReplyPublish
<1>0. \A q \in Rings : last[q] \in Index /\ last \in [Rings -> Index]
  BY DEF TypeRings
<1>1. ASSUME IsDriverReady PROVE last' = last /\ (Filling' <=> Filling)
  <2>1. last' = last
    BY <1>1 DEF IsDriverReady, PlaceInv
  <2>2. ~Filling /\ ~Filling'
    BY <1>1 DEF IsDriverReady, Filling, AfterPoll
  <2> QED BY <2>1, <2>2
<1>2. \A q \in Rings : Consumed(q)[q] = Next1(last[q])
                       /\ \A p \in Rings : p # q => Consumed(q)[p] = last[p]
  BY <1>0 DEF Consumed
<1>3. Base(RX)' = Base(RX) \/ ReturnBuffer
  <2>1. last'[RX] = last[RX] \/ ReturnBuffer
    BY <1>1, <1>2, LastFrame, RingNames DEF Announce, ReplyFill
  <2> QED BY <2>1, RingNames DEF Base
<1>4. ASSUME last'[TX] = Next1(last[TX]), ~Filling, Filling' PROVE Base(TX)' = Base(TX)
  <2>1. Base(TX) = last[TX] /\ Base(TX)' = (last'[TX] + IndexMod - 1) % IndexMod
    BY <1>4 DEF Base
  <2> QED BY <2>1, <1>4, <1>0, PrevFacts, RingNames
<1>5. ASSUME last'[TX] = last[TX], Filling' <=> Filling PROVE Base(TX)' = Base(TX)
  BY <1>5 DEF Base
<1>6. CASE Announce
  <2>1. CASE Waiting(TX) = 0
    <3>1. last'[TX] = last[TX] /\ ~Filling /\ ~Filling'
      BY <1>6, <2>1 DEF Announce, Filling
    <3> QED BY <3>1, <1>5, <1>3
  <2>2. CASE Waiting(TX) # 0
    <3>1. last'[TX] = Next1(last[TX]) /\ ~Filling /\ Filling'
      BY <1>6, <2>2, <1>2, RingNames DEF Announce, Filling
    <3> QED BY <3>1, <1>4, <1>3
  <2> QED BY <2>1, <2>2
<1>7. CASE ReplyFill
  <2>1. last'[TX] = Next1(last[TX]) /\ ~Filling /\ Filling'
    BY <1>7, <1>2, DescTypes, RingNames DEF ReplyFill, Filling
  <2> QED BY <2>1, <1>4, <1>3
<1>8. CASE ReturnBuffer
  <2>1. last'[TX] = last[TX] /\ ~Filling /\ ~Filling'
    BY <1>8, <1>2, RingNames DEF ReturnBuffer, Filling
  <2> QED BY <2>1, <1>5, <1>8
<1>9. CASE last' = last /\ ~IsDriverReady /\ ~Announce /\ ~ReplyFill
  <2>1. AnnouncePublish \/ ReplyPublish \/ (Filling' <=> Filling)
    <3>1. CASE UNCHANGED pc
      BY <3>1 DEF Filling
    <3>2. CASE Firmware
      <4>1. Filling' => Announce \/ ReplyFill \/ Filling
        BY <3>2 DEF Filling, Firmware, Poll, Reply, AfterPoll, LookAgain,
               WhenDone, vars, shared, bells, device, rtos, host, Wake,
               IsDriverReady, Announce, AnnouncePublish, AnnounceBell,
               DrainDoorbells, CheckAvail, Suppress, Take, ReturnBuffer,
               Recheck, PollBell, ReplyCheck, ReplyOpen, ReplyWaitBell,
               ReplyWaitDrain, ReplyFill, ReplyPublish, ReplyBell, KickOn,
               Unmask, Isr, HostProbe, HostDoorbell, HostWork, HostReceive,
               HostReceiveEnd, HostProbeKick, HostSendKick, HostSendBlocks,
               HostSend
      <4>2. Filling => AnnouncePublish \/ ReplyPublish \/ Filling'
        BY <3>2 DEF Filling, Firmware, Poll, Reply, AfterPoll, LookAgain,
               WhenDone, vars, shared, bells, device, rtos, host, Wake,
               IsDriverReady, Announce, AnnouncePublish, AnnounceBell,
               DrainDoorbells, CheckAvail, Suppress, Take, ReturnBuffer,
               Recheck, PollBell, ReplyCheck, ReplyOpen, ReplyWaitBell,
               ReplyWaitDrain, ReplyFill, ReplyPublish, ReplyBell, KickOn,
               Unmask, Isr, HostProbe, HostDoorbell, HostWork, HostReceive,
               HostReceiveEnd, HostProbeKick, HostSendKick, HostSendBlocks,
               HostSend
      <4> QED BY <4>1, <4>2, <1>9
    <3> QED BY <3>1, <3>2, PcFrame
  <2> QED BY <2>1, <1>9, <1>5, <1>3
<1> QED BY <1>1, <1>3, <1>5, <1>6, <1>7, <1>8, <1>9, LastFrame
(* The request ring: the firmware returns, the host posts.                  *)
LEMMA RxMoves ==
  ASSUME TypeRings, PlaceInv, [Next]_vars
  PROVE  \/ Still(RX) /\ buf'[RX] = buf[RX] /\ ~ReturnBuffer
         \/ ReturnBuffer /\ Gives(RX)
         \/ \E m \in Msgs, d \in Desc :
              /\ HostSend(m) /\ (Lends(RX, d) \/ Turns(RX, d))
              /\ buf'[RX] = [buf[RX] EXCEPT ![d] = m]
<1>0. /\ RX \in Rings /\ TX \in Rings /\ TX # RX
      /\ avail \in [Rings -> AvailType] /\ used \in [Rings -> UsedType]
      /\ buf \in [Rings -> [Desc -> Msgs \cup {NoMsg, Announcement}]]
      /\ seen \in [Rings -> Index]
  BY RingNames DEF TypeRings
<1>k. HostKeeps(RX) = free /\ HostKeeps(RX)' = free'
  BY DEF HostKeeps
<1>1. CASE ReturnBuffer
  <2>1. /\ used' = Published(RX, NextDesc(RX)) /\ avail' = avail /\ seen' = seen
        /\ free' = free /\ last' = Consumed(RX)
    BY <1>1 DEF ReturnBuffer, host
  <2>2. Base(RX)' = Next1(Base(RX)) /\ Base(RX) = last[RX]
    BY <2>1, <1>0 DEF Base, Consumed, TypeRings
  <2>3. /\ used'[RX].idx = Next1(used[RX].idx)
        /\ used'[RX].ring = [used[RX].ring EXCEPT ![Slot(used[RX].idx)] = NextDesc(RX)]
    BY <2>1, <1>0, DescTypes, PublishedShape
  <2> QED BY <2>1, <2>2, <2>3, <1>1, <1>k DEF Gives, NextDesc
<1>2. ASSUME NEW m \in Msgs, HostSend(m)
      PROVE  \E d \in Desc : /\ Lends(RX, d) \/ Turns(RX, d)
                             /\ buf'[RX] = [buf[RX] EXCEPT ![d] = m]
  <2>1. PICK d \in Desc :
          /\ \/ d \in free /\ free' = free \ {d} /\ seen' = seen
             \/ /\ free = {} /\ MoreUsed(RX) /\ d = used[RX].ring[Slot(seen[RX])]
                /\ seen' = [seen EXCEPT ![RX] = Next1(@)] /\ free' = free
          /\ buf' = [buf EXCEPT ![RX][d] = m]
          /\ avail' = Offered(RX, d)
    BY <1>2 DEF HostSend
  <2>2. used' = used /\ last' = last
    BY <1>2 DEF HostSend, device
  <2>3. Puts(RX, d)
    BY <2>1, <1>0, OfferedShape DEF Puts
  <2>4. SameUsed(RX) /\ Base(RX)' = Base(RX)
    BY <2>2, <1>0 DEF SameUsed, Base
  <2>5. buf'[RX] = [buf[RX] EXCEPT ![d] = m]
    BY <2>1, <1>0
  <2>6. CASE d \in free /\ free' = free \ {d} /\ seen' = seen
    BY <2>3, <2>4, <2>5, <2>6, <1>k DEF Lends
  <2>7. CASE /\ free = {} /\ MoreUsed(RX) /\ d = used[RX].ring[Slot(seen[RX])]
             /\ seen' = [seen EXCEPT ![RX] = Next1(@)] /\ free' = free
    <3>1. seen'[RX] = Next1(seen[RX]) /\ used[RX].idx # seen[RX]
      BY <2>7, <1>0 DEF MoreUsed
    <3> QED BY <2>3, <2>4, <2>5, <2>7, <3>1, <1>k DEF Turns
  <2> QED BY <2>1, <2>6, <2>7
<1>3. CASE ~ReturnBuffer /\ ~(\E m \in Msgs : HostSend(m))
  <2>1. avail'[RX] = avail[RX]
    BY <1>3, AvailFrame, <1>0, RingNames DEF HostProbe, HostReceive, Offered
  <2>2. SameUsed(RX)
    <3>1. CASE AnnouncePublish \/ ReplyPublish
      <4>1. used' = Published(TX, Filled)
        BY <3>1 DEF AnnouncePublish, ReplyPublish
      <4> QED BY <4>1, <1>0, PublishedShape, DescTypes DEF SameUsed
    <3> QED BY <3>1, <1>3, <1>0, UsedMoves DEF SameUsed
  <2>3. seen'[RX] = seen[RX] /\ free' = free
    BY <1>3, <1>0, HostFrame DEF HostReceive
  <2>4. buf'[RX] = buf[RX]
    BY <1>3, <1>0, BufFrame DEF Announce, ReplyFill, HostReceive
  <2>5. Base(RX)' = Base(RX)
    BY <1>3, BaseStep
  <2> QED BY <2>1, <2>2, <2>3, <2>4, <2>5, <1>3, <1>k DEF Still
<1> QED BY <1>1, <1>2, <1>3

(* The reply ring: the firmware fills and publishes, the host takes and     *)
(* lends again.                                                             *)
LEMMA TxMoves ==
  ASSUME TypeRings, PlaceInv, [Next]_vars
  PROVE  \/ /\ Still(TX)
            /\ ~AnnouncePublish /\ ~ReplyPublish /\ ~HostReceive /\ ~HostProbe
         \/ (AnnouncePublish \/ ReplyPublish) /\ Gives(TX)
         \/ HostReceive /\ \E d \in Desc :
              Turns(TX, d) /\ buf'[TX] = [buf[TX] EXCEPT ![d] = NoMsg]
         \/ HostProbe
<1>0. /\ RX \in Rings /\ TX \in Rings /\ TX # RX
      /\ avail \in [Rings -> AvailType] /\ used \in [Rings -> UsedType]
      /\ buf \in [Rings -> [Desc -> Msgs \cup {NoMsg, Announcement}]]
      /\ seen \in [Rings -> Index] /\ last \in [Rings -> Index]
  BY RingNames DEF TypeRings
<1>k. \/ HostProbe
      \/ driverOk' = driverOk /\ HostKeeps(TX)' = HostKeeps(TX)
  <2>1. HostProbe \/ driverOk' = driverOk
    BY Steps DEF vars, shared, bells, device, rtos, host, Wake, IsDriverReady,
           Announce, AnnouncePublish, AnnounceBell, DrainDoorbells,
           CheckAvail, Suppress, Take, ReturnBuffer, Recheck, PollBell,
           ReplyCheck, ReplyOpen, ReplyWaitBell, ReplyWaitDrain, ReplyFill,
           ReplyPublish, ReplyBell, KickOn, Unmask, Isr, HostProbe,
           HostDoorbell, HostWork, HostReceive, HostReceiveEnd, HostProbeKick,
           HostSendKick, HostSendBlocks, HostSend
  <2> QED BY <2>1, <1>0 DEF HostKeeps
<1>1. CASE AnnouncePublish \/ ReplyPublish
  <2>1. /\ used' = Published(TX, Filled) /\ avail' = avail /\ seen' = seen
        /\ last' = last /\ Filling /\ ~Filling' /\ driverOk' = driverOk
    BY <1>1 DEF AnnouncePublish, ReplyPublish, host, Filling
  <2>2. Base(TX)' = Next1(Base(TX)) /\ Filled = avail[TX].ring[Slot(Base(TX))]
    <3>1. Base(TX)' = last[TX]
      BY <2>1 DEF Base
    <3> QED BY <3>1, <2>1, BaseFacts
  <2>3. /\ used'[TX].idx = Next1(used[TX].idx)
        /\ used'[TX].ring = [used[TX].ring EXCEPT ![Slot(used[TX].idx)] = Filled]
    BY <2>1, <1>0, DescTypes, PublishedShape
  <2>4. HostKeeps(TX)' = HostKeeps(TX)
    BY <2>1, <1>0 DEF HostKeeps
  <2> QED BY <2>1, <2>2, <2>3, <2>4, <1>1 DEF Gives
<1>2. CASE HostReceive
  <2>1. PICK d : /\ d = used[TX].ring[Slot(seen[TX])]
                 /\ buf' = [buf EXCEPT ![TX][d] = NoMsg]
                 /\ avail' = Offered(TX, d)
    BY <1>2 DEF HostReceive
  <2>2. /\ used' = used /\ last' = last /\ pc' = pc /\ driverOk' = driverOk
        /\ MoreUsed(TX) /\ seen' = [seen EXCEPT ![TX] = Next1(@)]
    BY <1>2 DEF HostReceive, device
  <2>3. d \in Desc
    <3>1. used[TX] \in UsedType /\ seen[TX] \in Index
      BY <1>0
    <3>2. used[TX].ring \in [Desc -> Desc] /\ Slot(seen[TX]) \in Desc
      BY <3>1, IndexFacts, SlotType DEF UsedType
    <3> QED BY <2>1, <3>2
  <2>4. Puts(TX, d)
    BY <2>1, <2>3, <1>0, OfferedShape DEF Puts
  <2>5. SameUsed(TX)
    BY <2>2 DEF SameUsed
  <2>6. Base(TX)' = Base(TX) /\ HostKeeps(TX)' = HostKeeps(TX)
    BY <2>2, <1>0 DEF Base, Filling, HostKeeps
  <2>7. seen'[TX] = Next1(seen[TX]) /\ used[TX].idx # seen[TX]
    BY <2>2, <1>0 DEF MoreUsed
  <2>8. buf'[TX] = [buf[TX] EXCEPT ![d] = NoMsg]
    BY <2>1, <1>0
  <2>9. Turns(TX, d)
    BY <2>1, <2>4, <2>5, <2>6, <2>7 DEF Turns
  <2> QED BY <1>2, <2>3, <2>8, <2>9
<1>3. CASE ~(AnnouncePublish \/ ReplyPublish) /\ ~HostReceive /\ ~HostProbe
  <2>1. avail'[TX] = avail[TX]
    <3>1. ASSUME NEW m \in Msgs, HostSend(m) PROVE avail'[TX] = avail[TX]
      BY <3>1, <1>0 DEF HostSend, Offered
    <3> QED BY <3>1, <1>3, AvailFrame
  <2>2. SameUsed(TX)
    <3>1. CASE ReturnBuffer
      <4>1. used' = Published(RX, NextDesc(RX))
        BY <3>1 DEF ReturnBuffer
      <4>2. NextDesc(RX) \in Desc
        BY <1>0, DescTypes
      <4> QED BY <4>1, <4>2, <1>0, PublishedShape DEF SameUsed
    <3> QED BY <3>1, <1>3, <1>0, UsedMoves DEF SameUsed
  <2>3. seen'[TX] = seen[TX]
    BY <1>3, <1>0, HostFrame DEF HostSend
  <2>5. Base(TX)' = Base(TX)
    BY <1>3, BaseStep
  <2> QED BY <2>1, <2>2, <2>3, <2>5, <1>3, <1>k DEF Still
<1> QED BY <1>1, <1>2, <1>3
-----------------------------------------------------------------------------
(* What each move does to the order of the buffers *)

RoundOf(q) == Round(avail[q], used[q], seen[q], Base(q), HostKeeps(q))

(* One ring has the types the lemmas of the first part ask for.             *)
LEMMA RingTypes ==
  ASSUME TypeRings, NEW q \in Rings
  PROVE  /\ avail[q] \in AvailType /\ used[q] \in UsedType /\ seen[q] \in Index
         /\ HostKeeps(q) \in SUBSET Desc /\ Base(q) \in Index
<1>1. last[q] \in Index
  BY DEF TypeRings
<1>2. Base(q) \in Index
  BY <1>1, PrevFacts DEF Base
<1>3. HostKeeps(q) \in SUBSET Desc
  BY DEF HostKeeps, TypeRings
<1> QED BY <1>2, <1>3 DEF TypeRings

(* The parts of a ring are counted.                                         *)
LEMMA Counts ==
  ASSUME TypeRings, NEW q \in Rings
  PROVE  /\ Unread(q) \in Nat /\ Lent(q) \in Nat /\ All(q) \in Nat
         /\ All(q) = Unread(q) + Lent(q)
         /\ \A k \in Nat : At(q, k) \in Desc
         /\ RoundOf(q) => All(q) <= N
<1>1. /\ avail[q] \in AvailType /\ used[q] \in UsedType /\ seen[q] \in Index
      /\ HostKeeps(q) \in SUBSET Desc /\ Base(q) \in Index
  BY RingTypes
<1>2. All(q) = Unread(q) + Lent(q)
  BY DEF All, Total, Unread, Lent
<1>3. Unread(q) \in Nat /\ Lent(q) \in Nat /\ All(q) \in Nat
      /\ \A k \in Nat : At(q, k) \in Desc
  BY <1>1, FlowFacts DEF Unread, Lent, All, At
<1>4. RoundOf(q) => All(q) <= N
  <2> SUFFICES ASSUME RoundOf(q) PROVE All(q) <= N
    OBVIOUS
  <2>1. All(q) \in 0 .. N
    BY <1>1, RoundSize DEF RoundOf, All
  <2> QED BY <2>1, Sizes
<1> QED BY <1>2, <1>3, <1>4

(* The buffer the host lent last.                                           *)
Newest(q) == At(q, All(q) - 1)

(* No buffer is at two positions.                                           *)
LEMMA Places ==
  ASSUME TypeRings, NEW q \in Rings, RoundOf(q),
         NEW j \in 0 .. All(q) - 1, NEW k \in 0 .. All(q) - 1
  PROVE  /\ At(q, j) \in Desc \ HostKeeps(q)
         /\ At(q, j) = At(q, k) => j = k
BY DEF RoundOf, Round, All, At

(* A ring that stands still keeps all positions.                            *)
LEMMA StillAt ==
  ASSUME TypeRings, TypeRings', NEW q \in Rings, Still(q), RoundOf(q)
  PROVE  /\ RoundOf(q)' /\ All(q)' = All(q)
         /\ Unread(q)' = Unread(q) /\ Lent(q)' = Lent(q)
         /\ \A k \in 0 .. All(q) - 1 : At(q, k)' = At(q, k)
<1>1. /\ avail'[q] = avail[q] /\ used'[q].idx = used[q].idx
      /\ used'[q].ring = used[q].ring /\ seen'[q] = seen[q]
      /\ Base(q)' = Base(q) /\ HostKeeps(q)' = HostKeeps(q)
  BY DEF Still, SameUsed
<1>2. \A k : Flow(avail'[q], used'[q], seen'[q], Base(q)', k)
               = Flow(avail[q], used[q], seen[q], Base(q), k)
  BY <1>1 DEF Flow
<1>3. Total(avail'[q], used'[q], seen'[q], Base(q)')
        = Total(avail[q], used[q], seen[q], Base(q))
  BY <1>1 DEF Total
<1>4. RoundOf(q)'
  BY <1>1, <1>2, <1>3 DEF RoundOf, Round
<1> QED BY <1>1, <1>2, <1>3, <1>4 DEF All, At, Unread, Lent

(* A returned buffer keeps its position; one more is unread.                *)
LEMMA GivesAt ==
  ASSUME TypeRings, TypeRings', NEW q \in Rings, Gives(q), RoundOf(q), Lent(q) # 0
  PROVE  /\ RoundOf(q)' /\ All(q)' = All(q)
         /\ Unread(q)' = Unread(q) + 1 /\ Lent(q)' = Lent(q) - 1
         /\ \A k \in 0 .. All(q) - 1 : At(q, k)' = At(q, k)
<1> DEFINE a == avail[q]   u == used[q]   s == seen[q]   b == Base(q)
           K == HostKeeps(q)   u2 == used'[q]
<1>0. /\ a \in AvailType /\ u \in UsedType /\ s \in Index /\ b \in Index
      /\ K \in SUBSET Desc /\ u2 \in UsedType
  BY RingTypes DEF TypeRings
<1>1. /\ avail'[q] = a /\ seen'[q] = s /\ Base(q)' = Next1(b) /\ HostKeeps(q)' = K
      /\ u2.idx = Next1(u.idx)
      /\ u2.ring = [u.ring EXCEPT ![Slot(u.idx)] = a.ring[Slot(b)]]
  BY DEF Gives
<1>2. Round(a, u, s, b, K) /\ a.idx # b
  <2>1. a.idx \in Index
    BY <1>0 DEF AvailType
  <2>2. Ahead(a.idx, b) # 0
    BY DEF Lent
  <2> QED BY <2>1, <2>2, <1>0, IndexFacts DEF RoundOf
<1>3. Total(a, u, s, b) <= N
  BY Counts DEF All
<1>4. /\ Unread(q)' = Ahead(u2.idx, s) /\ Lent(q)' = Ahead(a.idx, Next1(b))
      /\ All(q)' = Total(a, u2, s, Next1(b))
      /\ \A k : At(q, k)' = Flow(a, u2, s, Next1(b), k)
  BY <1>1 DEF Unread, Lent, All, At
<1>5. RoundOf(q)' = Round(a, u2, s, Next1(b), K)
  BY <1>1 DEF RoundOf
<1>6. /\ Unread(q) = Ahead(u.idx, s) /\ Lent(q) = Ahead(a.idx, b)
      /\ All(q) = Total(a, u, s, b)
      /\ \A k : At(q, k) = Flow(a, u, s, b, k)
  BY DEF Unread, Lent, All, At
<1> HIDE DEF a, u, s, b, K, u2
<1>7. Round(a, u2, s, Next1(b), K)
  BY <1>0, <1>1, <1>2, RoundGive
<1>8. /\ Ahead(u2.idx, s) = Ahead(u.idx, s) + 1
      /\ Ahead(a.idx, Next1(b)) = Ahead(a.idx, b) - 1
      /\ Total(a, u2, s, Next1(b)) = Total(a, u, s, b)
      /\ \A k \in 0 .. Total(a, u, s, b) - 1 :
           Flow(a, u2, s, Next1(b), k) = Flow(a, u, s, b, k)
  BY <1>0, <1>1, <1>2, <1>3, FlowGive
<1> QED BY <1>4, <1>5, <1>6, <1>7, <1>8

(* A newly lent buffer is the last.                                         *)
LEMMA LendsAt ==
  ASSUME TypeRings, TypeRings', NEW q \in Rings, NEW d \in Desc, Lends(q, d), RoundOf(q)
  PROVE  /\ RoundOf(q)' /\ All(q)' = All(q) + 1
         /\ Unread(q)' = Unread(q) /\ Lent(q)' = Lent(q) + 1
         /\ Newest(q)' = d
         /\ \A k \in 0 .. All(q) - 1 : At(q, k)' = At(q, k)
<1> DEFINE a == avail[q]   u == used[q]   s == seen[q]   b == Base(q)
           K == HostKeeps(q)   a2 == avail'[q]   t == All(q)
<1>0. /\ a \in AvailType /\ u \in UsedType /\ s \in Index /\ b \in Index
      /\ K \in SUBSET Desc /\ a2 \in AvailType
  BY RingTypes DEF TypeRings
<1>1. /\ used'[q].idx = u.idx /\ used'[q].ring = u.ring /\ seen'[q] = s
      /\ Base(q)' = b /\ HostKeeps(q)' = K \ {d} /\ d \in K
      /\ a2.idx = Next1(a.idx) /\ a2.ring = [a.ring EXCEPT ![Slot(a.idx)] = d]
  BY DEF Lends, SameUsed, Puts
<1>2. Round(a, u, s, b, K) /\ t = Total(a, u, s, b)
  BY DEF RoundOf, All
<1>4. /\ Unread(q)' = Ahead(u.idx, s) /\ Lent(q)' = Ahead(a2.idx, b)
      /\ All(q)' = Total(a2, u, s, b)
      /\ \A k : At(q, k)' = Flow(a2, u, s, b, k)
  BY <1>1 DEF Unread, Lent, All, At, Flow, Total
<1>5. Round(a2, u, s, b, K \ {d}) => RoundOf(q)'
  BY <1>1 DEF RoundOf, Round, Flow, Total
<1>6. /\ Unread(q) = Ahead(u.idx, s) /\ Lent(q) = Ahead(a.idx, b)
      /\ \A k : At(q, k) = Flow(a, u, s, b, k)
  BY DEF Unread, Lent, At
<1>9. Newest(q)' = Flow(a2, u, s, b, All(q)' - 1)
  BY <1>1 DEF Newest, At, Flow
<1>t. t \in Nat
  BY Counts
<1> HIDE DEF a, u, s, b, K, a2, t
<1>7. Round(a2, u, s, b, K \ {d}) /\ Total(a, u, s, b) < N
  BY <1>0, <1>1, <1>2, RoundOffer
<1>8. /\ Ahead(a2.idx, b) = Ahead(a.idx, b) + 1
      /\ Total(a2, u, s, b) = t + 1
      /\ Flow(a2, u, s, b, t) = d
      /\ \A k \in 0 .. t - 1 : Flow(a2, u, s, b, k) = Flow(a, u, s, b, k)
  BY <1>0, <1>1, <1>2, <1>7, FlowOffer
<1>10. All(q)' = t + 1 /\ All(q)' - 1 = t
  BY <1>t, <1>4, <1>8
<1>11. Newest(q)' = d
  BY <1>8, <1>9, <1>10
<1> QED BY <1>4, <1>5, <1>6, <1>7, <1>8, <1>10, <1>11 DEF t

(* A buffer the host has seen and lent again goes from first to last.       *)
LEMMA TurnsAt ==
  ASSUME TypeRings, TypeRings', NEW q \in Rings, NEW d \in Desc, Turns(q, d), RoundOf(q)
  PROVE  /\ RoundOf(q)' /\ All(q)' = All(q) /\ All(q) > 0
         /\ Unread(q)' = Unread(q) - 1 /\ Lent(q)' = Lent(q) + 1
         /\ At(q, 0) = d /\ Newest(q)' = d
         /\ \A k \in 0 .. All(q) - 2 : At(q, k)' = At(q, k + 1)
<1> DEFINE a == avail[q]   u == used[q]   s == seen[q]   b == Base(q)
           K == HostKeeps(q)   a2 == avail'[q]   t == All(q)   s2 == Next1(s)
<1>0. /\ a \in AvailType /\ u \in UsedType /\ s \in Index /\ b \in Index
      /\ K \in SUBSET Desc /\ a2 \in AvailType
  BY RingTypes DEF TypeRings
<1>1. /\ used'[q].idx = u.idx /\ used'[q].ring = u.ring /\ seen'[q] = s2
      /\ Base(q)' = b /\ HostKeeps(q)' = K
      /\ a2.idx = Next1(a.idx) /\ a2.ring = [a.ring EXCEPT ![Slot(a.idx)] = d]
      /\ u.idx # s /\ d = u.ring[Slot(s)]
  BY DEF Turns, SameUsed, Puts
<1>2. Round(a, u, s, b, K) /\ t = Total(a, u, s, b)
  BY DEF RoundOf, All
<1>4. /\ Unread(q)' = Ahead(u.idx, s2) /\ Lent(q)' = Ahead(a2.idx, b)
      /\ All(q)' = Total(a2, u, s2, b)
      /\ \A k : At(q, k)' = Flow(a2, u, s2, b, k)
  BY <1>1 DEF Unread, Lent, All, At, Flow, Total
<1>5. Round(a2, u, s2, b, K) => RoundOf(q)'
  BY <1>1 DEF RoundOf, Round, Flow, Total
<1>6. /\ Unread(q) = Ahead(u.idx, s) /\ Lent(q) = Ahead(a.idx, b)
      /\ \A k : At(q, k) = Flow(a, u, s, b, k)
  BY DEF Unread, Lent, At
<1>9. Newest(q)' = Flow(a2, u, s2, b, All(q)' - 1)
  BY <1>1 DEF Newest, At, Flow
<1>t. t \in Nat /\ t <= N
  BY Counts
<1> HIDE DEF a, u, s, b, K, a2, t, s2
<1>7. Round(a2, u, s2, b, K)
  BY <1>0, <1>1, <1>2, RoundTurn DEF s2
<1>8. /\ Ahead(u.idx, s2) = Ahead(u.idx, s) - 1
      /\ Ahead(a2.idx, b) = Ahead(a.idx, b) + 1
      /\ Total(a2, u, s2, b) = t
      /\ Flow(a, u, s, b, 0) = d
      /\ Flow(a2, u, s2, b, t - 1) = d
      /\ \A k \in 0 .. t - 2 : Flow(a2, u, s2, b, k) = Flow(a, u, s, b, k + 1)
  BY <1>0, <1>1, <1>2, <1>t, FlowTurn DEF s2
<1>10. t > 0
  BY <1>0, <1>1, <1>2, FlowSee
<1>11. Newest(q)' = d
  BY <1>4, <1>8, <1>9
<1> QED BY <1>4, <1>5, <1>6, <1>7, <1>8, <1>10, <1>11 DEF t

(* The probe lends all reply buffers in order.                              *)
LEMMA ProbeAt ==
  ASSUME TypeRings, TypeRings', TypeFlags, PlaceInv, HostProbe
  PROVE  RoundOf(TX)' /\ Unread(TX)' = 0 /\ Inside(TX)' = 0 /\ ~Filling'
<1> DEFINE r == [s \in Desc |-> s]   a == [idx |-> N, ring |-> r]
<1>1. /\ avail' = [avail EXCEPT ![TX] = a] /\ used' = used /\ seen' = seen
      /\ last' = last /\ pc' = pc /\ ~driverOk /\ driverOk'
  BY DEF HostProbe, device
<1>2. TX \in Rings /\ avail \in [Rings -> AvailType] /\ used[TX] \in UsedType
  BY RingNames DEF TypeRings
<1>3. used[TX].idx = 0 /\ seen[TX] = 0 /\ last[TX] = 0 /\ ~Filling
  <2>1. used[TX].idx = 0 /\ seen[TX] = 0
    BY <1>1, <1>2 DEF PlaceInv
  <2>2. ~ready
    BY <1>1 DEF PlaceInv
  <2>3. last[TX] = 0
    BY <2>2, <1>2 DEF PlaceInv
  <2>4. ~Filling
    BY <2>2 DEF PlaceInv, Filling, Serving, InPoll, InReply
  <2> QED BY <2>1, <2>3, <2>4
<1>4. /\ avail'[TX] = a /\ used'[TX].idx = 0 /\ seen'[TX] = 0 /\ Base(TX)' = 0
      /\ HostKeeps(TX)' = {} /\ ~Filling' /\ Inside(TX)' = 0
  BY <1>1, <1>2, <1>3, RingNames DEF Base, HostKeeps, Filling, Inside
<1>5. a.idx = N /\ a.ring = r
  OBVIOUS
<1> HIDE DEF a
<1>6. Ahead(0, 0) = 0 /\ Ahead(N, 0) = N
  BY Sizes DEF Ahead
<1>7. Total(avail'[TX], used'[TX], seen'[TX], Base(TX)') = N
  BY <1>4, <1>5, <1>6, Sizes DEF Total
<1>8. ASSUME NEW k \in 0 .. N - 1
      PROVE  Flow(avail'[TX], used'[TX], seen'[TX], Base(TX)', k) = k
  <2>1. ~ k < 0 /\ 0 + (k - 0) = k /\ k \in Desc /\ Slot(k) = k
    BY Sizes DEF Slot, Desc
  <2> QED BY <2>1, <1>4, <1>5, <1>6 DEF Flow
<1>9. RoundOf(TX)'
  <2>1. Cardinality({}) = 0
    BY FS_EmptySet
  <2> QED BY <2>1, <1>4, <1>7, <1>8, Sizes DEF RoundOf, Round, Desc
<1>10. Unread(TX)' = 0
  BY <1>4, <1>6 DEF Unread
<1> QED BY <1>4, <1>9, <1>10
-----------------------------------------------------------------------------
(* The rings keep going round *)

(* The buffers of both rings go round, whatever step is taken.              *)
LEMMA RoundStep ==
  ASSUME TypeOK, PlaceInv, RingsRound, [Next]_vars
  PROVE  /\ TypeRings' /\ RingsRound'
         /\ \/ Lent(RX)' = Lent(RX)
            \/ ReturnBuffer /\ Lent(RX)' = Lent(RX) - 1
            \/ ~Firmware /\ Lent(RX)' = Lent(RX) + 1
         /\ \/ Lent(TX)' = Lent(TX)
            \/ (AnnouncePublish \/ ReplyPublish) /\ Lent(TX)' = Lent(TX) - 1
            \/ HostReceive /\ Lent(TX)' = Lent(TX) + 1
            \/ HostProbe
<1>0. TypeRings /\ TypeFlags /\ TypeRings' /\ RX \in Rings /\ TX \in Rings
  BY TypeParts, TypeRingsStep, RingNames
<1>1. RoundOf(RX) /\ RoundOf(TX)
  BY <1>0 DEF RingsRound, RoundOf
<1>2. /\ RoundOf(RX)'
      /\ \/ Lent(RX)' = Lent(RX)
         \/ ReturnBuffer /\ Lent(RX)' = Lent(RX) - 1
         \/ ~Firmware /\ Lent(RX)' = Lent(RX) + 1
  <2>1. CASE Still(RX)
    BY <2>1, <1>0, <1>1, StillAt
  <2>2. CASE ReturnBuffer /\ Gives(RX)
    <3>1. Lent(RX) # 0
      <4>1. 1 <= Pending(RX) /\ Pending(RX) = Lent(RX) /\ Lent(RX) \in Nat
        <5>1. pc \in Reading
          BY <2>2 DEF ReturnBuffer, Reading
        <5>2. 1 <= pending /\ pending <= Pending(RX)
          BY <5>1 DEF PlaceInv
        <5>3. pending \in Nat
          BY <1>0, Sizes DEF TypeFlags
        <5> QED BY <5>2, <5>3, <1>0, BaseFacts
      <4> QED BY <4>1
    <3> QED BY <2>2, <3>1, <1>0, <1>1, GivesAt
  <2>3. ASSUME NEW m \in Msgs, NEW d \in Desc, HostSend(m), Lends(RX, d) \/ Turns(RX, d)
        PROVE  RoundOf(RX)' /\ ~Firmware /\ Lent(RX)' = Lent(RX) + 1
    <3>1. ~Firmware
      BY <2>3 DEF HostSend, Firmware, Poll, Reply, vars, shared, bells,
             device, rtos, host, Wake, IsDriverReady, Announce,
             AnnouncePublish, AnnounceBell, DrainDoorbells, CheckAvail,
             Suppress, Take, ReturnBuffer, Recheck, PollBell, ReplyCheck,
             ReplyOpen, ReplyWaitBell, ReplyWaitDrain, ReplyFill,
             ReplyPublish, ReplyBell, KickOn, Unmask, Isr, HostProbe,
             HostDoorbell, HostWork, HostReceive, HostReceiveEnd,
             HostProbeKick, HostSendKick, HostSendBlocks, HostSend
    <3>2. CASE Lends(RX, d)
      BY <3>1, <3>2, <1>0, <1>1, LendsAt
    <3>3. CASE Turns(RX, d)
      BY <3>1, <3>3, <1>0, <1>1, TurnsAt
    <3> QED BY <2>3, <3>2, <3>3
  <2> QED BY <2>1, <2>2, <2>3, <1>0, RxMoves
<1>3. /\ RoundOf(TX)'
      /\ \/ Lent(TX)' = Lent(TX)
         \/ (AnnouncePublish \/ ReplyPublish) /\ Lent(TX)' = Lent(TX) - 1
         \/ HostReceive /\ Lent(TX)' = Lent(TX) + 1
         \/ HostProbe
  <2>1. CASE Still(TX)
    BY <2>1, <1>0, <1>1, StillAt
  <2>2. CASE (AnnouncePublish \/ ReplyPublish) /\ Gives(TX)
    <3>1. Filling
      BY <2>2 DEF AnnouncePublish, ReplyPublish, Filling
    <3>2. Lent(TX) = Pending(TX) + 1 /\ Pending(TX) \in Nat
      BY <3>1, <1>0, BaseFacts, WaitingType
    <3>3. Lent(TX) # 0
      BY <3>2
    <3> QED BY <2>2, <3>3, <1>0, <1>1, GivesAt
  <2>3. CASE HostReceive /\ \E d \in Desc : Turns(TX, d)
    BY <2>3, <1>0, <1>1, TurnsAt
  <2>4. CASE HostProbe
    BY <2>4, <1>0, ProbeAt
  <2> QED BY <2>1, <2>2, <2>3, <2>4, <1>0, TxMoves
<1>4. RingsRound'
  <2>1. RingsRound' <=> RoundOf(RX)' /\ RoundOf(TX)'
    BY DEF RingsRound, RoundOf, Rings
  <2> QED BY <2>1, <1>2, <1>3
<1> QED BY <1>0, <1>2, <1>3, <1>4

(* No ring error: what is lent is never more than there are buffers.        *)
LEMMA NoRingError ==
  ASSUME TypeRings, PlaceInv, RingsRound, NEW q \in Rings
  PROVE  /\ Pending(q) \in 0 .. N /\ ~RingError(q) /\ Waiting(q) = Pending(q)
<1>1. RoundOf(q)
  BY DEF RingsRound, RoundOf
<1>2. /\ Lent(q) \in Nat /\ Unread(q) \in Nat /\ All(q) <= N
      /\ All(q) = Unread(q) + Lent(q)
  BY <1>1, Counts
<1>3. Pending(q) \in Nat /\ (Lent(q) = Pending(q) \/ Lent(q) = Pending(q) + 1)
  BY BaseFacts, WaitingType DEF Rings
<1>4. Pending(q) \in 0 .. N
  BY <1>2, <1>3, Sizes
<1> QED BY <1>4, Sizes DEF Waiting, RingError

(* The firmware serves the rings only once the driver is there.             *)
LEMMA ReadyStep ==
  ASSUME TypeOK, PlaceInv, [Next]_vars
  PROVE  /\ ready => ready'
         /\ driverOk => driverOk'
         /\ ready' => driverOk'
         /\ pc' \in Serving => ready'
         /\ pc' \in {"kickon", "unmask"} => sleeps'
         /\ ~ready' => last' = [q \in Rings |-> 0]
<1>0. ready \in BOOLEAN /\ driverOk \in BOOLEAN
  BY DEF TypeOK
<1>i. pc \in Serving => ready
  BY DEF PlaceInv
<1>1. ready' = ready \/ IsDriverReady
  BY Steps DEF vars, shared, bells, device, rtos, host, Wake, IsDriverReady,
         Announce, AnnouncePublish, AnnounceBell, DrainDoorbells, CheckAvail,
         Suppress, Take, ReturnBuffer, Recheck, PollBell, ReplyCheck,
         ReplyOpen, ReplyWaitBell, ReplyWaitDrain, ReplyFill, ReplyPublish,
         ReplyBell, KickOn, Unmask, Isr, HostProbe, HostDoorbell, HostWork,
         HostReceive, HostReceiveEnd, HostProbeKick, HostSendKick,
         HostSendBlocks, HostSend
<1>2. driverOk' = driverOk \/ HostProbe
  BY Steps DEF vars, shared, bells, device, rtos, host, Wake, IsDriverReady,
         Announce, AnnouncePublish, AnnounceBell, DrainDoorbells, CheckAvail,
         Suppress, Take, ReturnBuffer, Recheck, PollBell, ReplyCheck,
         ReplyOpen, ReplyWaitBell, ReplyWaitDrain, ReplyFill, ReplyPublish,
         ReplyBell, KickOn, Unmask, Isr, HostProbe, HostDoorbell, HostWork,
         HostReceive, HostReceiveEnd, HostProbeKick, HostSendKick,
         HostSendBlocks, HostSend
<1>3. ready => ready'
  BY <1>1 DEF IsDriverReady
<1>4. driverOk => driverOk'
  BY <1>2 DEF HostProbe
<1>5. ready' => driverOk'
  BY <1>1, <1>4, <1>0 DEF IsDriverReady, PlaceInv
<1>6. pc' \in Serving => ready'
  <2>1. CASE UNCHANGED pc
    BY <2>1, <1>i, <1>3
  <2>2. CASE IsDriverReady
    BY <2>2 DEF IsDriverReady, AfterPoll, Serving, InPoll, InReply, InWait
  <2>3. CASE Firmware /\ ~IsDriverReady
    <3>1. pc' \in Serving => pc \in Serving
      BY <2>3 DEF Firmware, Poll, Reply, AfterPoll, LookAgain, WhenDone, Serving, InPoll,
                  InReply, InWait, vars, shared, bells, device, rtos, host,
                         Wake, IsDriverReady, Announce, AnnouncePublish,
                         AnnounceBell, DrainDoorbells, CheckAvail, Suppress,
                         Take, ReturnBuffer, Recheck, PollBell, ReplyCheck,
                         ReplyOpen, ReplyWaitBell, ReplyWaitDrain, ReplyFill,
                         ReplyPublish, ReplyBell, KickOn, Unmask, Isr,
                         HostProbe, HostDoorbell, HostWork, HostReceive,
                         HostReceiveEnd, HostProbeKick, HostSendKick,
                         HostSendBlocks, HostSend
    <3> QED BY <3>1, <1>i, <1>3
  <2> QED BY <2>1, <2>2, <2>3, PcFrame
<1>7. pc' \in {"kickon", "unmask"} => sleeps'
  <2>1. sleeps' = sleeps
    BY Steps DEF vars, shared, bells, device, rtos, host, Wake, IsDriverReady,
           Announce, AnnouncePublish, AnnounceBell, DrainDoorbells,
           CheckAvail, Suppress, Take, ReturnBuffer, Recheck, PollBell,
           ReplyCheck, ReplyOpen, ReplyWaitBell, ReplyWaitDrain, ReplyFill,
           ReplyPublish, ReplyBell, KickOn, Unmask, Isr, HostProbe,
           HostDoorbell, HostWork, HostReceive, HostReceiveEnd, HostProbeKick,
           HostSendKick, HostSendBlocks, HostSend
  <2>2. CASE UNCHANGED pc
    BY <2>1, <2>2 DEF PlaceInv
  <2>3. CASE Firmware
    BY <2>1, <2>3 DEF PlaceInv, Firmware, Poll, Reply, AfterPoll, LookAgain,
           WhenDone, vars, shared, bells, device, rtos, host, Wake,
           IsDriverReady, Announce, AnnouncePublish, AnnounceBell,
           DrainDoorbells, CheckAvail, Suppress, Take, ReturnBuffer, Recheck,
           PollBell, ReplyCheck, ReplyOpen, ReplyWaitBell, ReplyWaitDrain,
           ReplyFill, ReplyPublish, ReplyBell, KickOn, Unmask, Isr, HostProbe,
           HostDoorbell, HostWork, HostReceive, HostReceiveEnd, HostProbeKick,
           HostSendKick, HostSendBlocks, HostSend
  <2> QED BY <2>2, <2>3, PcFrame
<1>8. ~ready' => last' = [q \in Rings |-> 0]
  <2> SUFFICES ASSUME ~ready' PROVE last' = [q \in Rings |-> 0]
    OBVIOUS
  <2>1. ~ready /\ last = [q \in Rings |-> 0] /\ ~(pc \in Serving)
    BY <1>3, <1>i DEF PlaceInv
  <2>2. ~Announce /\ ~ReplyFill /\ ~ReturnBuffer
    BY <2>1 DEF Announce, ReplyFill, ReturnBuffer, Serving, InPoll, InReply
  <2>3. CASE IsDriverReady
    BY <2>1, <2>3 DEF IsDriverReady
  <2> QED BY <2>1, <2>2, <2>3, LastFrame
<1> QED BY <1>3, <1>4, <1>5, <1>6, <1>7, <1>8
(* poll()'s count of the requests never exceeds what is lent.               *)
LEMMA PendingStep ==
  ASSUME TypeOK, PlaceInv, RingsRound, [Next]_vars
  PROVE  pc' \in Reading => 1 <= pending' /\ pending' <= Pending(RX)'
<1>0. /\ TypeRings /\ TypeRings' /\ TypeFlags /\ RX \in Rings
      /\ pending \in Nat
  BY TypeParts, TypeRingsStep, RingNames, Sizes DEF TypeFlags
<1>1. pc \in Reading => 1 <= pending /\ pending <= Pending(RX)
  BY DEF PlaceInv
<1>2. Lent(RX) = Pending(RX) /\ Pending(RX) \in Nat
  BY <1>0, BaseFacts, WaitingType
<1>3. Lent(RX)' = Pending(RX)'
  BY RingNames DEF Lent, Base, Pending
<1>4. Waiting(RX) # 0 => Waiting(RX) = Pending(RX) /\ Waiting(RX) \in Nat
  BY <1>0, WaitingType, Sizes
<1>5. CASE UNCHANGED <<pc, pending, ready>> /\ ~ReturnBuffer
  <2>1. Pending(RX)' = Pending(RX) \/ Pending(RX)' = Pending(RX) + 1
    BY <1>5, <1>2, <1>3, RoundStep
  <2> QED BY <2>1, <1>5, <1>0, <1>1, <1>2
<1>6. CASE ReturnBuffer
  <2>1. pc \in Reading /\ pending' = pending - 1 /\ (pc' \in Reading => pending # 1)
    BY <1>6 DEF ReturnBuffer, Reading, InReply, InWait
  <2>2. ~(~Firmware)
    BY <1>6 DEF Firmware, Poll
  <2>3. Pending(RX)' = Pending(RX) \/ Pending(RX)' = Pending(RX) - 1
    BY <2>2, <1>2, <1>3, RoundStep
  <2> QED BY <2>1, <2>3, <1>0, <1>1, <1>2
<1>7. CASE Firmware /\ ~ReturnBuffer
  <2>1. Pending(RX)' = Pending(RX)
    BY <1>7, <1>2, <1>3, RoundStep
  <2>2. CASE CheckAvail \/ Recheck
    <3>1. pending' = Waiting(RX) /\ (pc' \in Reading => Waiting(RX) # 0)
      BY <2>2 DEF CheckAvail, Recheck, Reading, InReply, InWait, AfterPoll, WhenDone
    <3> QED BY <3>1, <2>1, <1>4
  <2>3. CASE ~CheckAvail /\ ~Recheck
    <3>1. pending' = pending /\ (pc' \in Reading => pc \in Reading)
      BY <1>7, <2>3 DEF Firmware, Poll, Reply, AfterPoll, LookAgain, WhenDone, Reading,
                        InReply, InWait, vars, shared, bells, device, rtos,
                               host, Wake, IsDriverReady, Announce,
                               AnnouncePublish, AnnounceBell, DrainDoorbells,
                               CheckAvail, Suppress, Take, ReturnBuffer,
                               Recheck, PollBell, ReplyCheck, ReplyOpen,
                               ReplyWaitBell, ReplyWaitDrain, ReplyFill,
                               ReplyPublish, ReplyBell, KickOn, Unmask, Isr,
                               HostProbe, HostDoorbell, HostWork, HostReceive,
                               HostReceiveEnd, HostProbeKick, HostSendKick,
                               HostSendBlocks, HostSend
    <3> QED BY <3>1, <2>1, <1>1
  <2> QED BY <2>2, <2>3
<1>8. ReturnBuffer => Firmware
  BY DEF Firmware, Poll
<1> QED BY <1>5, <1>6, <1>7, <1>8, PcFrame

(* reply() and announce_service() fill a buffer only when one is lent.      *)
LEMMA FillingStep ==
  ASSUME TypeOK, PlaceInv, RingsRound, [Next]_vars
  PROVE  /\ pc' = "fill" => 1 <= Pending(TX)'
         /\ Filling' => Base(TX)' # avail'[TX].idx
<1>0. TypeRings /\ TypeRings' /\ TX \in Rings
  BY TypeParts, TypeRingsStep, RingNames
<1>1. /\ Lent(TX) \in Nat /\ Pending(TX) \in Nat
      /\ ~Filling => Lent(TX) = Pending(TX)
      /\ Filling => Lent(TX) = Pending(TX) + 1
  BY <1>0, BaseFacts, WaitingType
<1>2. ~Filling' => Lent(TX)' = Pending(TX)'
  BY DEF Lent, Base, Pending
<1>3. Lent(TX)' # 0 => Base(TX)' # avail'[TX].idx
  <2>1. Base(TX)' \in Index /\ avail'[TX].idx \in Index
    <3>1. last'[TX] \in Index /\ avail'[TX].idx \in Index
      BY <1>0 DEF TypeRings, AvailType
    <3> QED BY <3>1, PrevFacts DEF Base
  <2> QED BY <2>1, IndexFacts DEF Lent
<1>4. Waiting(TX) # 0 => Pending(TX) >= 1
  BY <1>0, WaitingType
<1>5. pc = "fill" => Pending(TX) >= 1 /\ ready /\ driverOk
  BY DEF PlaceInv, Serving, InPoll, InReply
<1>6. Filling => ready /\ driverOk
  BY DEF PlaceInv, Filling, Serving, InPoll, InReply
<1>7. ASSUME pc' = "fill" PROVE 1 <= Pending(TX)'
  <2>0. ~Filling'
    BY <1>7 DEF Filling
  <2>1. CASE Firmware
    <3>1. ReplyCheck /\ Waiting(TX) # 0
      BY <2>1, <1>7 DEF Firmware, Poll, Reply, AfterPoll, LookAgain, WhenDone,
             vars, shared, bells, device, rtos, host, Wake, IsDriverReady,
             Announce, AnnouncePublish, AnnounceBell, DrainDoorbells,
             CheckAvail, Suppress, Take, ReturnBuffer, Recheck, PollBell,
             ReplyCheck, ReplyOpen, ReplyWaitBell, ReplyWaitDrain, ReplyFill,
             ReplyPublish, ReplyBell, KickOn, Unmask, Isr, HostProbe,
             HostDoorbell, HostWork, HostReceive, HostReceiveEnd,
             HostProbeKick, HostSendKick, HostSendBlocks, HostSend
    <3>2. ~Filling /\ ~AnnouncePublish /\ ~ReplyPublish /\ ~HostReceive /\ ~HostProbe
      BY <3>1 DEF ReplyCheck, Filling, AnnouncePublish, ReplyPublish, HostReceive,
                  HostProbe, device
    <3>3. Lent(TX)' = Lent(TX)
      BY <3>2, RoundStep
    <3> QED BY <3>1, <3>2, <3>3, <2>0, <1>1, <1>2, <1>4
  <2>2. CASE UNCHANGED <<pc, pending, ready>>
    <3>1. pc = "fill" /\ ~Filling /\ ~AnnouncePublish /\ ~ReplyPublish
      BY <2>2, <1>7 DEF Filling, AnnouncePublish, ReplyPublish
    <3>2. ~HostProbe
      BY <3>1, <1>5 DEF HostProbe
    <3>3. Lent(TX)' = Lent(TX) \/ Lent(TX)' = Lent(TX) + 1
      BY <3>1, <3>2, RoundStep
    <3> QED BY <3>1, <3>3, <2>0, <1>1, <1>2, <1>5
  <2> QED BY <2>1, <2>2, PcFrame
<1>8. ASSUME Filling' PROVE Base(TX)' # avail'[TX].idx
  <2>1. CASE Firmware
    <3>1. \/ Announce /\ Waiting(TX) # 0
          \/ ReplyFill
      BY <2>1, <1>8 DEF Filling, Firmware, Poll, Reply, AfterPoll, LookAgain,
             WhenDone, vars, shared, bells, device, rtos, host, Wake,
             IsDriverReady, Announce, AnnouncePublish, AnnounceBell,
             DrainDoorbells, CheckAvail, Suppress, Take, ReturnBuffer,
             Recheck, PollBell, ReplyCheck, ReplyOpen, ReplyWaitBell,
             ReplyWaitDrain, ReplyFill, ReplyPublish, ReplyBell, KickOn,
             Unmask, Isr, HostProbe, HostDoorbell, HostWork, HostReceive,
             HostReceiveEnd, HostProbeKick, HostSendKick, HostSendBlocks,
             HostSend
    <3>2. ~Filling /\ ~AnnouncePublish /\ ~ReplyPublish /\ ~HostReceive /\ ~HostProbe
      BY <3>1 DEF Announce, ReplyFill, Filling, AnnouncePublish, ReplyPublish, HostReceive,
                  HostProbe, device
    <3>3. Lent(TX)' = Lent(TX)
      BY <3>2, RoundStep
    <3>4. Pending(TX) >= 1
      BY <3>1, <1>4, <1>5 DEF ReplyFill
    <3> QED BY <3>2, <3>3, <3>4, <1>1, <1>3
  <2>2. CASE UNCHANGED <<pc, pending, ready>>
    <3>1. Filling /\ ~AnnouncePublish /\ ~ReplyPublish
      BY <2>2, <1>8 DEF Filling, AnnouncePublish, ReplyPublish
    <3>2. ~HostProbe
      BY <3>1, <1>6 DEF HostProbe
    <3>3. Lent(TX)' = Lent(TX) \/ Lent(TX)' = Lent(TX) + 1
      BY <3>1, <3>2, RoundStep
    <3> QED BY <3>1, <3>3, <1>1, <1>3
  <2> QED BY <2>1, <2>2, PcFrame
<1> QED BY <1>7, <1>8

(* Until the host's driver is there no ring has moved.                      *)
LEMMA BeforeProbe ==
  ASSUME TypeOK, PlaceInv, [Next]_vars, ~driverOk'
  PROVE  \A q \in Rings : avail'[q].idx = 0 /\ used'[q].idx = 0 /\ seen'[q] = 0
<1>0. TypeRings
  BY TypeParts
<1>1. ~driverOk /\ ~ready /\ ~(pc \in Serving)
  BY ReadyStep DEF PlaceInv
<1>2. \A q \in Rings : avail[q].idx = 0 /\ used[q].idx = 0 /\ seen[q] = 0
  BY <1>1 DEF PlaceInv
<1>3. ~AnnouncePublish /\ ~ReplyPublish /\ ~ReturnBuffer
  BY <1>1 DEF AnnouncePublish, ReplyPublish, ReturnBuffer, Serving, InPoll, InReply
<1>4. ~HostReceive
  BY <1>2, RingNames DEF HostReceive, MoreUsed
<1>5. ~(\E m \in Msgs : HostSend(m)) /\ ~HostProbe
  BY <1>1 DEF HostSend, HostProbe
<1>6. avail' = avail /\ seen' = seen
  BY <1>4, <1>5, AvailFrame, HostFrame
<1>7. \A q \in Rings : used'[q].idx = used[q].idx
  BY <1>0, <1>3, UsedMoves
<1> QED BY <1>2, <1>6, <1>7

(* The invariant about the places is kept.                                  *)
LEMMA PlaceInvStep ==
  ASSUME TypeOK, PlaceInv, RingsRound, [Next]_vars
  PROVE  PlaceInv'
<1>1. ~driverOk' =>
        \A q \in Rings : avail'[q].idx = 0 /\ used'[q].idx = 0 /\ seen'[q] = 0
  BY BeforeProbe
<1> QED BY <1>1, ReadyStep, PendingStep, FillingStep DEF PlaceInv
-----------------------------------------------------------------------------
(* NO_NOTIFY and the doorbells *)

(* What each step makes of NO_NOTIFY.                                       *)
LEMMA QuietValues ==
  ASSUME TypeRings
  PROVE  /\ Wake => /\ used'[TX] = used[TX]
                    /\ used'[RX].quiet <=> used[RX].quiet \/ (sleeps /\ ready)
         /\ CheckAvail => /\ used'[TX] = used[TX]
                          /\ used'[RX].quiet <=> used[RX].quiet /\ ~RingError(RX)
         /\ Suppress => used'[TX] = used[TX] /\ used'[RX].quiet
         /\ Take => /\ used'[TX] = used[TX]
                    /\ used'[RX].quiet <=> used[RX].quiet
         /\ KickOn => /\ used'[TX] = used[TX]
                      /\ used'[RX].quiet <=> used[RX].quiet /\ ~ready
         /\ ReplyOpen => used'[RX] = used[RX] /\ ~used'[TX].quiet
         /\ ReplyFill => used'[RX] = used[RX] /\ used'[TX].quiet
         /\ IsDriverReady => \/ used' = used /\ (ready' <=> ready)
                             \/ used'[RX].quiet /\ used'[TX].quiet
<1>0. used \in [Rings -> UsedType] /\ RX \in Rings /\ TX \in Rings /\ RX # TX
  BY RingNames DEF TypeRings
<1>d. NextDesc(RX) \in Desc
  BY <1>0, DescTypes
<1>1. ASSUME NEW q \in Rings, NEW v \in BOOLEAN, used' = [used EXCEPT ![q].quiet = v]
      PROVE  used'[q].quiet = v /\ \A p \in Rings : p # q => used'[p] = used[p]
  BY <1>0, <1>1, QuietShape
<1>2. Wake => /\ used'[TX] = used[TX]
              /\ used'[RX].quiet <=> used[RX].quiet \/ (sleeps /\ ready)
  <2> SUFFICES ASSUME Wake
               PROVE  /\ used'[TX] = used[TX]
                      /\ used'[RX].quiet <=> used[RX].quiet \/ (sleeps /\ ready)
    OBVIOUS
  <2>1. CASE sleeps
    <3> DEFINE v == used[RX].quiet \/ ready
    <3>1. used' = [used EXCEPT ![RX].quiet = v] /\ v \in BOOLEAN
      BY Zenon, <2>1 DEF Wake
    <3>2. used'[RX].quiet = v /\ used'[TX] = used[TX]
      <4> HIDE DEF v
      <4> QED BY <3>1, <1>1, <1>0
    <3> QED BY Zenon, <2>1, <3>2
  <2>2. CASE ~sleeps
    BY <2>2 DEF Wake
  <2> QED BY <2>1, <2>2
<1>3. CheckAvail => /\ used'[TX] = used[TX]
                    /\ used'[RX].quiet <=> used[RX].quiet /\ ~RingError(RX)
  <2> SUFFICES ASSUME CheckAvail
               PROVE  /\ used'[TX] = used[TX]
                      /\ used'[RX].quiet <=> used[RX].quiet /\ ~RingError(RX)
    OBVIOUS
  <2> DEFINE v == used[RX].quiet /\ ~RingError(RX)
  <2>1. used' = [used EXCEPT ![RX].quiet = v] /\ v \in BOOLEAN
    BY Zenon DEF CheckAvail
  <2>2. used'[RX].quiet = v /\ used'[TX] = used[TX]
    <3> HIDE DEF v
    <3> QED BY <2>1, <1>1, <1>0
  <2> QED BY Zenon, <2>2
<1>4. Suppress => used'[TX] = used[TX] /\ used'[RX].quiet
  BY <1>0, <1>1 DEF Suppress
<1>5. Take => /\ used'[TX] = used[TX]
              /\ used'[RX].quiet <=> used[RX].quiet
  <2> SUFFICES ASSUME Take
               PROVE  used'[TX] = used[TX] /\ (used'[RX].quiet <=> used[RX].quiet)
    OBVIOUS
  <2> DEFINE v == used[RX].quiet /\ NextDesc(RX) \in Desc
  <2>1. used' = [used EXCEPT ![RX].quiet = v] /\ v \in BOOLEAN
    BY Zenon DEF Take
  <2>2. used'[RX].quiet = v /\ used'[TX] = used[TX]
    <3> HIDE DEF v
    <3> QED BY <2>1, <1>1, <1>0
  <2> QED BY Zenon, <2>2, <1>d
<1>6. KickOn => /\ used'[TX] = used[TX]
                /\ used'[RX].quiet <=> used[RX].quiet /\ ~ready
  <2> SUFFICES ASSUME KickOn
               PROVE  used'[TX] = used[TX] /\ (used'[RX].quiet <=> used[RX].quiet /\ ~ready)
    OBVIOUS
  <2> DEFINE v == used[RX].quiet /\ ~ready
  <2>1. used' = [used EXCEPT ![RX].quiet = v] /\ v \in BOOLEAN
    BY Zenon DEF KickOn
  <2>2. used'[RX].quiet = v /\ used'[TX] = used[TX]
    <3> HIDE DEF v
    <3> QED BY <2>1, <1>1, <1>0
  <2> QED BY Zenon, <2>2
<1>7. ReplyOpen => used'[RX] = used[RX] /\ ~used'[TX].quiet
  BY <1>0, <1>1 DEF ReplyOpen
<1>8. ReplyFill => used'[RX] = used[RX] /\ used'[TX].quiet
  BY <1>0, <1>1 DEF ReplyFill, QuietAgain
<1>9. IsDriverReady => \/ used' = used /\ (ready' <=> ready)
                       \/ used'[RX].quiet /\ used'[TX].quiet
  <2> SUFFICES ASSUME IsDriverReady, ~(used' = used /\ (ready' <=> ready))
               PROVE  used'[RX].quiet /\ used'[TX].quiet
    OBVIOUS
  <2>1. used' = [q \in Rings |-> [used[q] EXCEPT !.quiet = TRUE]]
    BY DEF IsDriverReady
  <2> QED BY <2>1, <1>0 DEF UsedType
<1> QED BY <1>2, <1>3, <1>4, <1>5, <1>6, <1>7, <1>8, <1>9

(* Who turns kicks on and off.                                              *)
LEMMA QuietFrame ==
  ASSUME TypeRings, [Next]_vars
  PROVE  /\ \/ used'[RX].quiet = used[RX].quiet
            \/ Wake \/ IsDriverReady \/ CheckAvail \/ Suppress \/ Take \/ KickOn
         /\ \/ used'[TX].quiet = used[TX].quiet
            \/ IsDriverReady \/ ReplyOpen \/ ReplyFill
<1>0. used \in [Rings -> UsedType] /\ RX \in Rings /\ TX \in Rings /\ RX # TX
      /\ NextDesc(RX) \in Desc /\ Filled \in Desc
  BY RingNames, DescTypes DEF TypeRings
<1>1. ASSUME NEW q \in Rings, NEW d \in Desc, used' = Published(q, d)
      PROVE  \A p \in Rings : used'[p].quiet = used[p].quiet
  <2>1. Published(q, d)[q].quiet = used[q].quiet
    BY <1>0, PublishedShape
  <2>2. \A r \in Rings : r # q => Published(q, d)[r] = used[r]
    BY <1>0, PublishedShape
  <2> QED BY <2>1, <2>2, <1>1
<1>2. CASE AnnouncePublish \/ ReplyPublish \/ ReturnBuffer
  BY <1>0, <1>1, <1>2 DEF AnnouncePublish, ReplyPublish, ReturnBuffer
<1>3. CASE used' = used
  BY <1>3
<1>4. CASE Wake \/ CheckAvail \/ Suppress \/ Take \/ KickOn
  BY <1>4, QuietValues
<1>5. CASE ReplyOpen \/ ReplyFill
  BY <1>5, QuietValues
<1> QED BY <1>2, <1>3, <1>4, <1>5, UsedFrame

(* The invariant about the sleeping worker is kept.                         *)
LEMMA SleepInvStep ==
  ASSUME TypeOK, PlaceInv, SleepInv, [Next]_vars
  PROVE  SleepInv'
<1>0. TypeRings /\ sleeps' = sleeps /\ (ready => ready') /\ RX \in Rings /\ TX \in Rings
      /\ \A q \in Rings : q = RX \/ q = TX
  <2>1. sleeps' = sleeps
    BY Steps DEF vars, shared, bells, device, rtos, host, Wake, IsDriverReady,
           Announce, AnnouncePublish, AnnounceBell, DrainDoorbells,
           CheckAvail, Suppress, Take, ReturnBuffer, Recheck, PollBell,
           ReplyCheck, ReplyOpen, ReplyWaitBell, ReplyWaitDrain, ReplyFill,
           ReplyPublish, ReplyBell, KickOn, Unmask, Isr, HostProbe,
           HostDoorbell, HostWork, HostReceive, HostReceiveEnd, HostProbeKick,
           HostSendKick, HostSendBlocks, HostSend
  <2> QED BY <2>1, TypeParts, ReadyStep, RingNames DEF Rings
<1>i. pc \in Serving => ready
  BY DEF PlaceInv
<1>1. ASSUME sleeps', pc' \in {"unmask", "wait"} PROVE ~used'[RX].quiet
  <2>1. CASE UNCHANGED <<pc, pending, ready, used>>
    BY <2>1, <1>1, <1>0 DEF SleepInv
  <2>2. CASE Firmware
    <3>1. KickOn \/ Unmask
      BY <1>0, <1>1, <2>2 DEF Firmware, Poll, Reply, AfterPoll, LookAgain,
             WhenDone, vars, shared, bells, device, rtos, host, Wake,
             IsDriverReady, Announce, AnnouncePublish, AnnounceBell,
             DrainDoorbells, CheckAvail, Suppress, Take, ReturnBuffer,
             Recheck, PollBell, ReplyCheck, ReplyOpen, ReplyWaitBell,
             ReplyWaitDrain, ReplyFill, ReplyPublish, ReplyBell, KickOn,
             Unmask, Isr, HostProbe, HostDoorbell, HostWork, HostReceive,
             HostReceiveEnd, HostProbeKick, HostSendKick, HostSendBlocks,
             HostSend
    <3>2. CASE KickOn
      BY <3>2, <1>0, QuietValues DEF SleepInv
    <3>3. CASE Unmask
      BY <3>3, <1>0, <1>1 DEF SleepInv, Unmask, shared
    <3> QED BY <3>1, <3>2, <3>3
  <2> QED BY <2>1, <2>2, PcFrame
<1>2. ASSUME sleeps', pc' = "wait", ~notified' PROVE irqOn'
  <2>1. CASE UNCHANGED <<pc, irqOn, notified>>
    BY <2>1, <1>0, <1>2 DEF SleepInv
  <2>2. Unmask \/ UNCHANGED <<pc, irqOn, notified>>
    BY <1>0, <1>2, Steps DEF AfterPoll, LookAgain, WhenDone, vars, shared,
           bells, device, rtos, host, Wake, IsDriverReady, Announce,
           AnnouncePublish, AnnounceBell, DrainDoorbells, CheckAvail,
           Suppress, Take, ReturnBuffer, Recheck, PollBell, ReplyCheck,
           ReplyOpen, ReplyWaitBell, ReplyWaitDrain, ReplyFill, ReplyPublish,
           ReplyBell, KickOn, Unmask, Isr, HostProbe, HostDoorbell, HostWork,
           HostReceive, HostReceiveEnd, HostProbeKick, HostSendKick,
           HostSendBlocks, HostSend
  <2> QED BY <2>1, <2>2 DEF Unmask
<1>3. ASSUME ~ready', NEW q \in Rings PROVE ~used'[q].quiet
  <2>1. ~ready /\ ~used[RX].quiet /\ ~used[TX].quiet
    BY <1>0, <1>3 DEF SleepInv
  <2>2. ~CheckAvail /\ ~Suppress /\ ~Take /\ ~ReplyOpen /\ ~ReplyFill
    BY <2>1, <1>i DEF CheckAvail, Suppress, Take, ReplyOpen, ReplyFill, Serving, InPoll,
                      InReply, InWait
  <2>3. ~used'[RX].quiet
    <3>1. CASE Wake \/ KickOn
      BY <3>1, <2>1, <1>0, QuietValues
    <3>2. CASE IsDriverReady
      BY <3>2, <2>1, <1>3 DEF IsDriverReady
    <3> QED BY <2>1, <2>2, <3>1, <3>2, <1>0, QuietFrame
  <2>4. ~used'[TX].quiet
    <3>1. CASE IsDriverReady
      BY <3>1, <2>1, <1>3 DEF IsDriverReady
    <3> QED BY <2>1, <2>2, <3>1, <1>0, QuietFrame
  <2> QED BY <2>3, <2>4, <1>0
<1> QED BY <1>1, <1>2, <1>3 DEF SleepInv

(* Kicks stay off except for a worker about to sleep and a reply() that     *)
(* waits: no ring error ever turns them on.                                 *)
LEMMA KicksStep ==
  ASSUME TypeOK, PlaceInv, RingsRound, KicksOnlyWhenWanted, [Next]_vars
  PROVE  KicksOnlyWhenWanted'
<1>0. TypeRings /\ sleeps' = sleeps /\ RX \in Rings /\ ~RingError(RX) /\ ~RingError(TX)
  <2>1. sleeps' = sleeps
    BY Steps DEF vars, shared, bells, device, rtos, host, Wake, IsDriverReady,
           Announce, AnnouncePublish, AnnounceBell, DrainDoorbells,
           CheckAvail, Suppress, Take, ReturnBuffer, Recheck, PollBell,
           ReplyCheck, ReplyOpen, ReplyWaitBell, ReplyWaitDrain, ReplyFill,
           ReplyPublish, ReplyBell, KickOn, Unmask, Isr, HostProbe,
           HostDoorbell, HostWork, HostReceive, HostReceiveEnd, HostProbeKick,
           HostSendKick, HostSendBlocks, HostSend
  <2> QED BY <2>1, TypeParts, RingNames, NoRingError
<1>1. IsDriverReady /\ ready' =>
        \/ ready /\ used' = used
        \/ used'[RX].quiet /\ used'[TX].quiet
  BY <1>0, QuietValues
<1>2. ready' => ready \/ IsDriverReady
  BY Steps DEF vars, shared, bells, device, rtos, host, Wake, IsDriverReady,
         Announce, AnnouncePublish, AnnounceBell, DrainDoorbells, CheckAvail,
         Suppress, Take, ReturnBuffer, Recheck, PollBell, ReplyCheck,
         ReplyOpen, ReplyWaitBell, ReplyWaitDrain, ReplyFill, ReplyPublish,
         ReplyBell, KickOn, Unmask, Isr, HostProbe, HostDoorbell, HostWork,
         HostReceive, HostReceiveEnd, HostProbeKick, HostSendKick,
         HostSendBlocks, HostSend
<1>3. ASSUME ready' PROVE used'[RX].quiet \/ (sleeps' /\ pc' \in {"unmask", "wait"})
  <2>1. CASE ~ready
    BY <2>1, <1>1, <1>2, <1>3
  <2>2. CASE ready /\ used[RX].quiet
    <3>1. CASE KickOn
      BY <3>1, <1>0 DEF KickOn, PlaceInv
    <3>2. CASE Wake \/ CheckAvail \/ Suppress \/ Take
      BY <3>2, <2>2, <1>0, QuietValues
    <3>3. CASE IsDriverReady
      BY <3>3, <2>2, <1>1, <1>3
    <3> QED BY <2>2, <3>1, <3>2, <3>3, <1>0, QuietFrame
  <2>3. CASE ready /\ sleeps /\ pc \in {"unmask", "wait"}
    <3>1. CASE UNCHANGED pc
      BY <3>1, <2>3, <1>0
    <3>2. CASE Firmware
      <4>1. Wake \/ Unmask
        BY <3>2, <2>3 DEF Firmware, Poll, Reply, vars, shared, bells, device,
               rtos, host, Wake, IsDriverReady, Announce, AnnouncePublish,
               AnnounceBell, DrainDoorbells, CheckAvail, Suppress, Take,
               ReturnBuffer, Recheck, PollBell, ReplyCheck, ReplyOpen,
               ReplyWaitBell, ReplyWaitDrain, ReplyFill, ReplyPublish,
               ReplyBell, KickOn, Unmask, Isr, HostProbe, HostDoorbell,
               HostWork, HostReceive, HostReceiveEnd, HostProbeKick,
               HostSendKick, HostSendBlocks, HostSend
      <4>2. CASE Wake
        BY <4>2, <2>3, <1>0, QuietValues
      <4>3. CASE Unmask
        BY <4>3, <2>3, <1>0 DEF Unmask
      <4> QED BY <4>1, <4>2, <4>3
    <3> QED BY <3>1, <3>2, PcFrame
  <2> QED BY <2>1, <2>2, <2>3 DEF KicksOnlyWhenWanted
<1>4. ASSUME ready' PROVE used'[TX].quiet \/ pc' \in InWait \cup {"reply", "fill"}
  <2>1. CASE ~ready
    BY <2>1, <1>1, <1>2, <1>4
  <2>2. CASE ready /\ used[TX].quiet
    <3>1. CASE ReplyOpen
      BY <3>1 DEF ReplyOpen, InWait
    <3>2. CASE ReplyFill
      BY <3>2, <1>0, QuietValues
    <3>3. CASE IsDriverReady
      BY <3>3, <2>2, <1>1, <1>4
    <3> QED BY <2>2, <3>1, <3>2, <3>3, <1>0, QuietFrame
  <2>3. CASE ready /\ pc \in InWait \cup {"reply", "fill"}
    <3>1. CASE UNCHANGED pc
      BY <3>1, <2>3
    <3>2. CASE Firmware
      <4>1. ReplyFill \/ pc' \in InWait \cup {"reply", "fill"}
        BY <3>2, <2>3, <1>0 DEF Firmware, Poll, Reply, InWait, LookAgain,
               vars, shared, bells, device, rtos, host, Wake, IsDriverReady,
               Announce, AnnouncePublish, AnnounceBell, DrainDoorbells,
               CheckAvail, Suppress, Take, ReturnBuffer, Recheck, PollBell,
               ReplyCheck, ReplyOpen, ReplyWaitBell, ReplyWaitDrain,
               ReplyFill, ReplyPublish, ReplyBell, KickOn, Unmask, Isr,
               HostProbe, HostDoorbell, HostWork, HostReceive, HostReceiveEnd,
               HostProbeKick, HostSendKick, HostSendBlocks, HostSend
      <4> QED BY <4>1, <1>0, QuietValues
    <3> QED BY <3>1, <3>2, PcFrame
  <2> QED BY <2>1, <2>2, <2>3 DEF KicksOnlyWhenWanted
<1> QED BY <1>3, <1>4 DEF KicksOnlyWhenWanted
-----------------------------------------------------------------------------
(* What the buffers hold *)

(* The oldest request is the first of the firmware's part.                  *)
LEMMA NextIsAt ==
  TypeRings => NextDesc(RX) = At(RX, Unread(RX))
<1> SUFFICES ASSUME TypeRings PROVE NextDesc(RX) = At(RX, Unread(RX))
  OBVIOUS
<1>1. Base(RX) = last[RX] /\ last[RX] \in Nat
  BY RingNames, IndexFacts DEF Base, TypeRings
<1>2. Unread(RX) = Ahead(used[RX].idx, seen[RX]) /\ Unread(RX) \in Nat
  BY Counts, RingNames DEF Unread
<1>3. ~ Unread(RX) < Unread(RX) /\ last[RX] + (Unread(RX) - Unread(RX)) = last[RX]
  BY <1>1, <1>2
<1> QED BY <1>1, <1>2, <1>3 DEF NextDesc, At, Flow

OldestIsNext == NextDesc(RX) = At(RX, Unread(RX))

(* And after a step.                                                        *)
LEMMA NextIsAtThen ==
  TypeRings' => NextDesc(RX)' = At(RX, Unread(RX))'
<1>1. TypeRings => OldestIsNext
  BY NextIsAt DEF OldestIsNext
<1>2. TypeRings' => OldestIsNext'
  BY <1>1, PTL
<1> QED BY <1>2 DEF OldestIsNext

(* So is the buffer reply() or announce_service() is about to fill.         *)
LEMMA FillsAt ==
  ASSUME TypeRings, ~Filling
  PROVE  NextDesc(TX) = At(TX, Unread(TX))
<1>1. Base(TX) = last[TX] /\ last[TX] \in Nat
  BY RingNames, IndexFacts DEF Base, TypeRings
<1>2. Unread(TX) = Ahead(used[TX].idx, seen[TX]) /\ Unread(TX) \in Nat
  BY Counts, RingNames DEF Unread
<1>3. ~ Unread(TX) < Unread(TX) /\ last[TX] + (Unread(TX) - Unread(TX)) = last[TX]
  BY <1>1, <1>2
<1> QED BY <1>1, <1>2, <1>3 DEF NextDesc, At, Flow

(* What is lent on vring1 is a request until its buffer is returned.        *)
LEMMA RequestsStep ==
  ASSUME TypeOK, PlaceInv, RingsRound, ContentInv, [Next]_vars
  PROVE  \A k \in Unread(RX)' .. All(RX)' - 1 : buf'[RX][At(RX, k)'] \in Msgs
<1>0. /\ TypeRings /\ TypeRings' /\ RX \in Rings /\ RoundOf(RX)
      /\ buf[RX] \in [Desc -> Msgs \cup {NoMsg, Announcement}]
  BY TypeParts, TypeRingsStep, RingNames DEF RingsRound, RoundOf, TypeRings
<1> DEFINE n == Unread(RX)   t == All(RX)
<1>1. n \in Nat /\ t \in Nat /\ t = n + Lent(RX) /\ Lent(RX) \in Nat
  BY <1>0, Counts
<1>2. \A k \in n .. t - 1 : buf[RX][At(RX, k)] \in Msgs
  BY DEF ContentInv
<1>3. \A j, k \in 0 .. t - 1 : /\ At(RX, j) \in Desc \ HostKeeps(RX)
                               /\ At(RX, j) = At(RX, k) => j = k
  BY <1>0, Places
<1> HIDE DEF n, t
<1>4. CASE Still(RX) /\ buf'[RX] = buf[RX]
  <2>1. /\ All(RX)' = t /\ Unread(RX)' = n
        /\ \A k \in 0 .. t - 1 : At(RX, k)' = At(RX, k)
    BY <1>0, <1>4, StillAt DEF t, n
  <2> QED BY <2>1, <1>1, <1>2, <1>4
<1>5. CASE ReturnBuffer /\ Gives(RX)
  <2>1. Lent(RX) # 0
    <3>1. pc \in Reading /\ pending \in Nat
      BY <1>5, TypeParts, Sizes DEF ReturnBuffer, Reading, TypeFlags
    <3>2. 1 <= pending /\ pending <= Pending(RX)
      BY <3>1 DEF PlaceInv
    <3>3. Pending(RX) = Lent(RX)
      BY <1>0, BaseFacts
    <3> QED BY <3>1, <3>2, <3>3, <1>1
  <2>2. /\ All(RX)' = t /\ Unread(RX)' = n + 1
        /\ \A k \in 0 .. t - 1 : At(RX, k)' = At(RX, k)
    BY <1>0, <1>5, <2>1, GivesAt DEF t, n
  <2>3. buf'[RX] = [buf[RX] EXCEPT ![At(RX, n)] = NoMsg]
    <3>1. buf' = [buf EXCEPT ![RX][NextDesc(RX)] = NoMsg]
      BY <1>5 DEF ReturnBuffer
    <3>2. NextDesc(RX) = At(RX, n)
      BY <1>0, NextIsAt DEF n
    <3> QED BY <3>1, <3>2, <1>0 DEF TypeRings
  <2>4. ASSUME NEW k \in n + 1 .. t - 1 PROVE buf'[RX][At(RX, k)'] \in Msgs
    <3>1. k \in n .. t - 1 /\ k \in 0 .. t - 1 /\ n \in 0 .. t - 1 /\ k # n
      BY <1>1
    <3>2. At(RX, k)' = At(RX, k) /\ At(RX, k) # At(RX, n) /\ At(RX, k) \in Desc
      BY <2>2, <3>1, <1>3
    <3>3. buf'[RX][At(RX, k)] = buf[RX][At(RX, k)]
      BY <2>3, <3>2, <1>0
    <3> QED BY <3>1, <3>2, <3>3, <1>2
  <2> QED BY <2>2, <2>4
<1>6. ASSUME NEW m \in Msgs, NEW d \in Desc, buf'[RX] = [buf[RX] EXCEPT ![d] = m],
             Lends(RX, d)
      PROVE  \A k \in Unread(RX)' .. All(RX)' - 1 : buf'[RX][At(RX, k)'] \in Msgs
  <2>1. /\ All(RX)' = t + 1 /\ Unread(RX)' = n /\ Newest(RX)' = d
        /\ \A k \in 0 .. t - 1 : At(RX, k)' = At(RX, k)
    BY <1>0, <1>6, LendsAt DEF t, n
  <2>2. d \in HostKeeps(RX)
    BY <1>6 DEF Lends
  <2>3. ASSUME NEW k \in n .. t PROVE buf'[RX][At(RX, k)'] \in Msgs
    <3>1. CASE k = t
      <4>1. All(RX)' - 1 = k
        BY <2>1, <3>1, <1>1
      <4>2. At(RX, k)' = d
        BY <4>1, <2>1 DEF Newest, At
      <4> QED BY <4>2, <1>6, <1>0
    <3>2. CASE k # t
      <4>1. k \in n .. t - 1 /\ k \in 0 .. t - 1
        BY <3>2, <1>1
      <4>2. At(RX, k)' = At(RX, k) /\ At(RX, k) # d /\ At(RX, k) \in Desc
        BY <4>1, <2>1, <2>2, <1>3
      <4>3. buf'[RX][At(RX, k)] = buf[RX][At(RX, k)]
        BY <4>2, <1>6, <1>0
      <4> QED BY <4>1, <4>2, <4>3, <1>2
    <3> QED BY <3>1, <3>2
  <2>4. n .. All(RX)' - 1 = n .. t
    BY <2>1, <1>1
  <2> QED BY <2>1, <2>3, <2>4
<1>7. ASSUME NEW m \in Msgs, NEW d \in Desc, buf'[RX] = [buf[RX] EXCEPT ![d] = m],
             Turns(RX, d)
      PROVE  \A k \in Unread(RX)' .. All(RX)' - 1 : buf'[RX][At(RX, k)'] \in Msgs
  <2>1. /\ All(RX)' = t /\ t > 0 /\ Unread(RX)' = n - 1 /\ Newest(RX)' = d
        /\ At(RX, 0) = d
        /\ \A k \in 0 .. t - 2 : At(RX, k)' = At(RX, k + 1)
    BY <1>0, <1>7, TurnsAt DEF t, n
  <2>2. n >= 1
    <3>1. Unread(RX)' \in Nat
      <4>1. used'[RX].idx \in Index /\ seen'[RX] \in Index
        BY <1>0 DEF TypeRings, UsedType
      <4> QED BY <4>1, IndexFacts DEF Unread
    <3> QED BY <3>1, <2>1, <1>1
  <2>3. ASSUME NEW k \in n - 1 .. t - 1 PROVE buf'[RX][At(RX, k)'] \in Msgs
    <3>1. CASE k = t - 1
      <4>1. All(RX)' - 1 = k
        BY <2>1, <3>1, <1>1
      <4>2. At(RX, k)' = d
        BY <4>1, <2>1 DEF Newest, At
      <4> QED BY <4>2, <1>7, <1>0
    <3>2. CASE k # t - 1
      <4>1. k + 1 \in n .. t - 1 /\ k + 1 \in 0 .. t - 1 /\ k \in 0 .. t - 2
            /\ 0 \in 0 .. t - 1 /\ k + 1 # 0
        BY <3>2, <1>1, <2>1, <2>2
      <4>2. At(RX, k)' = At(RX, k + 1) /\ At(RX, k + 1) # d /\ At(RX, k + 1) \in Desc
        BY <4>1, <2>1, <1>3
      <4>3. buf'[RX][At(RX, k + 1)] = buf[RX][At(RX, k + 1)]
        BY <4>2, <1>7, <1>0
      <4> QED BY <4>1, <4>2, <4>3, <1>2
    <3> QED BY <3>1, <3>2
  <2> QED BY <2>1, <2>3
<1> QED BY <1>0, <1>4, <1>5, <1>6, <1>7, RxMoves
(* The request that reply() copies is the one poll() looked at: the host    *)
(* writes only to buffers it keeps or has been given back.                  *)
LEMMA AskedStep ==
  ASSUME TypeOK, PlaceInv, RingsRound, ContentInv, [Next]_vars
  PROVE  pc' \in InReply => buf'[RX][NextDesc(RX)'] \notin Malformed
<1> SUFFICES ASSUME pc' \in InReply PROVE buf'[RX][NextDesc(RX)'] \notin Malformed
  OBVIOUS
<1>0. /\ TypeRings /\ TypeRings' /\ RX \in Rings /\ RoundOf(RX)
      /\ buf[RX] \in [Desc -> Msgs \cup {NoMsg, Announcement}]
  BY TypeParts, TypeRingsStep, RingNames DEF RingsRound, RoundOf, TypeRings
<1> DEFINE n == Unread(RX)   t == All(RX)
<1>1. CASE Still(RX) /\ buf'[RX] = buf[RX] /\ ~ReturnBuffer
  <2>1. NextDesc(RX)' = NextDesc(RX)
    <3>1. avail'[RX] = avail[RX] /\ last'[RX] = last[RX]
      BY <1>1, RingNames DEF Still, Base
    <3> QED BY <3>1 DEF NextDesc
  <2>2. buf[RX][NextDesc(RX)] \notin Malformed
    <3>1. CASE UNCHANGED <<pc, pending, ready, used>>
      BY <3>1 DEF ContentInv
    <3>2. CASE Firmware
      <4>1. pc \in InReply \/ Take
        BY <3>2, <1>1 DEF Firmware, Poll, Reply, InReply, InWait, AfterPoll,
               LookAgain, WhenDone, vars, shared, bells, device, rtos, host,
               Wake, IsDriverReady, Announce, AnnouncePublish, AnnounceBell,
               DrainDoorbells, CheckAvail, Suppress, Take, Recheck, PollBell,
               ReplyCheck, ReplyOpen, ReplyWaitBell, ReplyWaitDrain,
               ReplyFill, ReplyPublish, ReplyBell, KickOn, Unmask
      <4>2. CASE Take
        BY <4>2 DEF Take, InReply, InWait, AfterPoll
      <4> QED BY <4>1, <4>2 DEF ContentInv
    <3> QED BY <3>1, <3>2, PcFrame
  <2> QED BY <1>1, <2>1, <2>2
<1>2. CASE ReturnBuffer
  BY <1>2 DEF ReturnBuffer, InReply, InWait
<1>3. ASSUME NEW m \in Msgs, NEW d \in Desc, HostSend(m), Lends(RX, d) \/ Turns(RX, d),
             buf'[RX] = [buf[RX] EXCEPT ![d] = m]
      PROVE  buf'[RX][NextDesc(RX)'] \notin Malformed
  <2>1. pc \in InReply /\ pc \in Reading
    <3>1. pc' = pc
      BY <1>3 DEF HostSend, device
    <3> QED BY <3>1 DEF Reading
  <2>2. buf[RX][NextDesc(RX)] \notin Malformed
    BY <2>1 DEF ContentInv
  <2>3. n \in Nat /\ t \in Nat /\ t > n
    <3>1. 1 <= pending /\ pending <= Pending(RX) /\ pending \in Nat
      BY <2>1, TypeParts, Sizes DEF PlaceInv, TypeFlags
    <3>2. Pending(RX) = Lent(RX)
      BY <1>0, BaseFacts
    <3> QED BY <3>1, <3>2, <1>0, Counts
  <2>4. NextDesc(RX) = At(RX, n) /\ NextDesc(RX)' = At(RX, Unread(RX))'
    BY <1>0, NextIsAt, NextIsAtThen
  <2>5. At(RX, Unread(RX))' = At(RX, n) /\ At(RX, n) # d /\ At(RX, n) \in Desc
    <3>0. n \in 0 .. t - 1 /\ 0 \in 0 .. t - 1
      BY <2>3
    <3>1. CASE Lends(RX, d)
      <4>1. Unread(RX)' = n /\ At(RX, n)' = At(RX, n)
        BY <1>0, <3>0, <3>1, LendsAt
      <4>2. At(RX, n) \in Desc \ HostKeeps(RX) /\ d \in HostKeeps(RX)
        BY <1>0, <3>0, <3>1, Places DEF Lends
      <4> QED BY <4>1, <4>2
    <3>2. CASE Turns(RX, d)
      <4>1. /\ Unread(RX)' = n - 1 /\ At(RX, 0) = d
            /\ \A k \in 0 .. t - 2 : At(RX, k)' = At(RX, k + 1)
        BY <1>0, <3>2, TurnsAt
      <4>2. n >= 1
        <5>1. Unread(RX)' \in Nat
          <6>1. used'[RX].idx \in Index /\ seen'[RX] \in Index
            BY <1>0 DEF TypeRings, UsedType
          <6> QED BY <6>1, IndexFacts DEF Unread
        <5> QED BY <5>1, <4>1, <2>3
      <4>3. PICK k \in 0 .. t - 2 : k + 1 = n
        <5>1. n - 1 \in 0 .. t - 2 /\ (n - 1) + 1 = n
          BY <4>2, <2>3
        <5> QED BY <5>1
      <4>4. At(RX, Unread(RX))' = At(RX, n)
        <5>1. Unread(RX)' = k
          BY <4>1, <4>3, <2>3
        <5>2. At(RX, k)' = At(RX, k + 1)
          BY <4>1
        <5> QED BY <5>1, <5>2, <4>3 DEF At
      <4>5. At(RX, n) \in Desc /\ At(RX, n) # At(RX, 0)
        <5>1. n # 0
          BY <4>2
        <5> QED BY <1>0, <3>0, <5>1, Places
      <4> QED BY <4>1, <4>4, <4>5
    <3> QED BY <1>3, <3>1, <3>2
  <2>6. buf'[RX][At(RX, n)] = buf[RX][At(RX, n)]
    BY <2>5, <1>3, <1>0
  <2> QED BY <2>2, <2>4, <2>5, <2>6
<1> QED BY <1>0, <1>1, <1>2, <1>3, RxMoves

Whole(x) == x \notin {NoMsg} \cup Malformed

(* A filled reply buffer holds a whole message until the host has read it.  *)
LEMMA RepliesStep ==
  ASSUME TypeOK, PlaceInv, RingsRound, ContentInv, [Next]_vars
  PROVE  \A k \in 0 .. Unread(TX)' + Inside(TX)' - 1 :
           buf'[TX][At(TX, k)'] \notin {NoMsg} \cup Malformed
<1> DEFINE n == Unread(TX)   t == All(TX)   h == Inside(TX)
<1> SUFFICES \A k \in 0 .. Unread(TX)' + Inside(TX)' - 1 : Whole(buf'[TX][At(TX, k)'])
  BY DEF Whole
<1>0. /\ TypeRings /\ TypeRings' /\ TX \in Rings /\ RX \in Rings /\ TX # RX
      /\ RoundOf(TX) /\ RoundOf(RX)
      /\ buf[TX] \in [Desc -> Msgs \cup {NoMsg, Announcement}]
      /\ buf[RX] \in [Desc -> Msgs \cup {NoMsg, Announcement}]
  BY TypeParts, TypeRingsStep, RingNames DEF RingsRound, RoundOf, TypeRings
<1>1. /\ n \in Nat /\ t \in Nat /\ h \in 0 .. 1 /\ t = n + Lent(TX) /\ Lent(TX) \in Nat
      /\ h <= Lent(TX)
  <2>1. h \in 0 .. 1
    BY DEF Inside
  <2>2. h <= Lent(TX)
    <3>1. CASE Filling
      <4>1. Lent(TX) # 0
        <5>1. avail[TX].idx \in Index /\ Base(TX) \in Index
          BY <1>0, RingTypes DEF AvailType
        <5>2. Base(TX) # avail[TX].idx
          BY <3>1 DEF PlaceInv
        <5> QED BY <5>1, <5>2, IndexFacts DEF Lent
      <4> QED BY <4>1, <2>1, <1>0, Counts
    <3>2. CASE ~Filling
      BY <3>2, <1>0, Counts DEF Inside
    <3> QED BY <3>1, <3>2
  <2> QED BY <2>1, <2>2, <1>0, Counts
<1>2. \A k \in 0 .. n + h - 1 : Whole(buf[TX][At(TX, k)])
  BY DEF ContentInv, Whole
<1>3. \A j, k \in 0 .. t - 1 : At(TX, j) \in Desc /\ (At(TX, j) = At(TX, k) => j = k)
  BY <1>0, Places
<1>4. ASSUME NEW d \in Desc, NEW x, Whole(x), ~Filling, d = NextDesc(TX), Pending(TX) # 0,
             buf'[TX] = [buf[TX] EXCEPT ![d] = x], Still(TX)
      PROVE  \A k \in 0 .. Unread(TX)' + Inside(TX)' - 1 : Whole(buf'[TX][At(TX, k)'])
  <2>1. d = At(TX, n) /\ h = 0 /\ Lent(TX) = Pending(TX)
    BY <1>0, <1>4, FillsAt, BaseFacts
  <2>2. /\ Unread(TX)' = n
        /\ \A k \in 0 .. t - 1 : At(TX, k)' = At(TX, k)
    BY <1>0, <1>4, StillAt
  <2>3. Inside(TX)' \in 0 .. 1
    BY DEF Inside
  <2> HIDE DEF n, t, h
  <2>4. ASSUME NEW k \in 0 .. n PROVE Whole(buf'[TX][At(TX, k)'])
    <3>1. k \in 0 .. t - 1 /\ n \in 0 .. t - 1
      BY <1>1, <1>4, <2>1
    <3>2. At(TX, k)' = At(TX, k) /\ At(TX, k) \in Desc
      BY <2>2, <3>1, <1>3
    <3>3. CASE k = n
      BY <3>2, <3>3, <2>1, <1>4, <1>0
    <3>4. CASE k # n
      <4>1. At(TX, k) # d /\ k \in 0 .. n + h - 1
        BY <3>1, <3>4, <2>1, <1>3, <1>1
      <4>2. buf'[TX][At(TX, k)] = buf[TX][At(TX, k)]
        BY <4>1, <3>2, <1>4, <1>0
      <4> QED BY <4>1, <4>2, <3>2, <1>2
    <3> QED BY <3>3, <3>4
  <2> QED BY <2>2, <2>3, <2>4, <1>1
<1>5. ASSUME Still(TX), buf'[TX] = buf[TX], Inside(TX)' <= h
      PROVE  \A k \in 0 .. Unread(TX)' + Inside(TX)' - 1 : Whole(buf'[TX][At(TX, k)'])
  <2>1. /\ Unread(TX)' = n
        /\ \A k \in 0 .. t - 1 : At(TX, k)' = At(TX, k)
    BY <1>0, <1>5, StillAt
  <2>2. Inside(TX)' \in 0 .. 1
    BY DEF Inside
  <2> HIDE DEF n, t, h
  <2>3. ASSUME NEW k \in 0 .. n + h - 1 PROVE Whole(buf'[TX][At(TX, k)'])
    <3>1. k \in 0 .. t - 1
      BY <1>1
    <3>2. At(TX, k)' = At(TX, k)
      BY <2>1, <3>1
    <3> QED BY <3>2, <1>5, <1>2
  <2> QED BY <2>1, <2>2, <2>3, <1>1, <1>5
<1>6. CASE Still(TX) /\ ~AnnouncePublish /\ ~ReplyPublish /\ ~HostReceive /\ ~HostProbe
  <2>1. CASE buf'[TX] = buf[TX] /\ (Filling' => Filling)
    <3>1. Inside(TX)' <= h
      BY <2>1 DEF Inside
    <3> QED BY <1>5, <1>6, <2>1, <3>1
  <2>2. CASE Announce
    <3>0. ~Filling
      BY <2>2 DEF Announce, Filling
    <3>1. CASE Waiting(TX) = 0
      <4>1. buf' = buf /\ ~Filling'
        BY <2>2, <3>1 DEF Announce, Filling
      <4> QED BY <4>1, <2>1
    <3>2. CASE Waiting(TX) # 0
      <4>1. buf' = [buf EXCEPT ![TX][NextDesc(TX)] = Announcement]
        BY <2>2, <3>2 DEF Announce
      <4>2. buf'[TX] = [buf[TX] EXCEPT ![NextDesc(TX)] = Announcement]
        BY <4>1, <1>0 DEF TypeRings
      <4>3. Whole(Announcement)
        BY RpmsgAssumption DEF Whole
      <4>4. NextDesc(TX) \in Desc /\ Pending(TX) # 0
        <5>1. Waiting(TX) # 0 => Pending(TX) \in 1 .. N
          BY <1>0, WaitingType
        <5> QED BY <5>1, <3>2, <1>0, DescTypes, Sizes
      <4> QED BY <4>2, <4>3, <4>4, <3>0, <1>4, <1>6
    <3> QED BY <3>1, <3>2
  <2>3. CASE ReplyFill
    <3>0. ~Filling /\ pc \in InReply /\ pc \in Reading /\ pc = "fill"
      BY <2>3 DEF ReplyFill, Filling, Reading, InReply
    <3>1. NextDesc(TX) \in Desc /\ NextDesc(RX) \in Desc
      BY <1>0, DescTypes
    <3> DEFINE x == buf[RX][NextDesc(RX)]
    <3>2. buf' = [buf EXCEPT ![TX][NextDesc(TX)] = x]
      BY <2>3, <3>1 DEF ReplyFill
    <3>3. buf'[TX] = [buf[TX] EXCEPT ![NextDesc(TX)] = x]
      BY <3>2, <1>0 DEF TypeRings
    <3>4. Pending(TX) # 0
      <4>1. Pending(TX) \in Nat
        BY <1>0, WaitingType
      <4> QED BY <4>1, <3>0 DEF PlaceInv
    <3>5. x \in Msgs
      <4>1. 1 <= pending /\ pending <= Pending(RX) /\ pending \in Nat
        BY <3>0, TypeParts, Sizes DEF PlaceInv, TypeFlags
      <4>2. Pending(RX) = Lent(RX) /\ NextDesc(RX) = At(RX, Unread(RX))
        BY <1>0, BaseFacts, NextIsAt
      <4>3. Unread(RX) \in Unread(RX) .. All(RX) - 1
        BY <4>1, <4>2, <1>0, Counts
      <4> QED BY <4>2, <4>3 DEF ContentInv
    <3>6. Whole(x)
      BY <3>5, <3>0, RpmsgAssumption DEF ContentInv, Whole
    <3> HIDE DEF x
    <3> QED BY <3>0, <3>1, <3>3, <3>4, <3>6, <1>4, <1>6
  <2>4. Announce \/ ReplyFill \/ (Filling' => Filling)
    <3>1. CASE UNCHANGED <<pc, pending, ready, used>>
      BY <3>1 DEF Filling
    <3>2. CASE Firmware
      BY <3>2, <1>6 DEF Firmware, Poll, Reply, Filling, AfterPoll,
             LookAgain, WhenDone, Wake, IsDriverReady, AnnounceBell,
             DrainDoorbells, CheckAvail, Suppress, Take, ReturnBuffer, Recheck, PollBell,
             ReplyCheck, ReplyOpen, ReplyWaitBell, ReplyWaitDrain, ReplyBell, KickOn, Unmask
    <3> QED BY <3>1, <3>2, PcFrame
  <2>5. Announce \/ ReplyFill \/ buf'[TX] = buf[TX]
    <3>1. CASE ReturnBuffer
      <4>1. buf' = [buf EXCEPT ![RX][NextDesc(RX)] = NoMsg]
        BY <3>1 DEF ReturnBuffer
      <4> QED BY <4>1, <1>0 DEF TypeRings
    <3>2. ASSUME NEW m \in Msgs, HostSend(m) PROVE buf'[TX] = buf[TX]
      <4>1. PICK d \in Desc : buf' = [buf EXCEPT ![RX][d] = m]
        BY <3>2 DEF HostSend
      <4> QED BY <4>1, <1>0 DEF TypeRings
    <3> QED BY <3>1, <3>2, <1>6, BufFrame
  <2> QED BY <2>1, <2>2, <2>3, <2>4, <2>5
<1>7. CASE (AnnouncePublish \/ ReplyPublish) /\ Gives(TX)
  <2>1. h = 1 /\ ~Filling' /\ Inside(TX)' = 0 /\ buf' = buf
    BY <1>7 DEF AnnouncePublish, ReplyPublish, Filling, Inside
  <2>2. Lent(TX) # 0
    BY <1>1, <2>1
  <2>3. /\ Unread(TX)' = n + 1
        /\ \A k \in 0 .. t - 1 : At(TX, k)' = At(TX, k)
    BY <1>0, <1>7, <2>2, GivesAt
  <2> HIDE DEF n, t, h
  <2>4. ASSUME NEW k \in 0 .. n PROVE Whole(buf'[TX][At(TX, k)'])
    <3>1. k \in 0 .. t - 1 /\ k \in 0 .. n + h - 1
      BY <1>1, <2>1
    <3> QED BY <3>1, <2>1, <2>3, <1>2
  <2>5. Unread(TX)' + Inside(TX)' - 1 = n
    BY <2>1, <2>3, <1>1
  <2> QED BY <2>4, <2>5
<1>8. ASSUME HostReceive, NEW d \in Desc, Turns(TX, d),
             buf'[TX] = [buf[TX] EXCEPT ![d] = NoMsg]
      PROVE  \A k \in 0 .. Unread(TX)' + Inside(TX)' - 1 : Whole(buf'[TX][At(TX, k)'])
  <2>1. Inside(TX)' = h
    BY <1>8 DEF HostReceive, device, Inside, Filling
  <2>2. /\ t > 0 /\ Unread(TX)' = n - 1 /\ At(TX, 0) = d
        /\ \A k \in 0 .. t - 2 : At(TX, k)' = At(TX, k + 1)
    BY <1>0, <1>8, TurnsAt
  <2> HIDE DEF n, t, h
  <2>3. ASSUME NEW k \in 0 .. n + h - 2 PROVE Whole(buf'[TX][At(TX, k)'])
    <3>1. k \in 0 .. t - 2 /\ k + 1 \in 0 .. t - 1 /\ 0 \in 0 .. t - 1 /\ k + 1 # 0
          /\ k + 1 \in 0 .. n + h - 1
      BY <1>1, <2>2
    <3>2. At(TX, k)' = At(TX, k + 1) /\ At(TX, k + 1) # d /\ At(TX, k + 1) \in Desc
      BY <2>2, <3>1, <1>3
    <3>3. buf'[TX][At(TX, k + 1)] = buf[TX][At(TX, k + 1)]
      BY <3>2, <1>8, <1>0
    <3> QED BY <3>1, <3>2, <3>3, <1>2
  <2>4. Unread(TX)' + Inside(TX)' - 1 = n + h - 2
    BY <2>1, <2>2, <1>1
  <2> QED BY <2>3, <2>4
<1>9. CASE HostProbe
  <2>1. Unread(TX)' = 0 /\ Inside(TX)' = 0
    BY <1>0, <1>9, TypeParts, ProbeAt
  <2> QED BY <2>1
<1> QED BY <1>0, <1>6, <1>7, <1>8, <1>9, TxMoves
(* The invariant about the contents is kept.                                *)
LEMMA ContentInvStep ==
  ASSUME TypeOK, PlaceInv, RingsRound, ContentInv, [Next]_vars
  PROVE  ContentInv'
BY RequestsStep, AskedStep, RepliesStep DEF ContentInv
-----------------------------------------------------------------------------
(* Doorbells to the host *)

(* A used index moves only where a doorbell or a later one in poll() follows, *)
(* a seen index only where the host is reading.                              *)
LEMMA MoreUsedMoves ==
  ASSUME TypeRings, [Next]_vars
  PROVE  /\ \/ MoreUsed(TX)' => MoreUsed(TX)
            \/ AnnouncePublish \/ ReplyPublish \/ HostReceive
         /\ \/ MoreUsed(RX)' => MoreUsed(RX)
            \/ ReturnBuffer \/ \E m \in Msgs : HostSend(m)
<1>0. used \in [Rings -> UsedType] /\ seen \in [Rings -> Index]
      /\ RX \in Rings /\ TX \in Rings /\ RX # TX /\ NextDesc(RX) \in Desc /\ Filled \in Desc
  BY RingNames, DescTypes DEF TypeRings
<1>1. ASSUME NEW q \in Rings, NEW d \in Desc, used' = Published(q, d), NEW p \in Rings, p # q
      PROVE  used'[p] = used[p]
  <2>1. \A r \in Rings : r # q => Published(q, d)[r] = used[r]
    BY <1>0, PublishedShape
  <2> QED BY <2>1, <1>1
<1>2. AnnouncePublish \/ ReplyPublish => used'[RX] = used[RX]
  BY <1>0, <1>1 DEF AnnouncePublish, ReplyPublish
<1>3. ReturnBuffer => used'[TX] = used[TX]
  BY <1>0, <1>1 DEF ReturnBuffer
<1>4. ASSUME NEW m \in Msgs, HostSend(m) PROVE seen'[TX] = seen[TX]
  BY <1>0, <1>4 DEF HostSend
<1>5. HostReceive => seen'[RX] = seen[RX]
  BY <1>0 DEF HostReceive
<1>6. \/ AnnouncePublish \/ ReplyPublish \/ ReturnBuffer
      \/ used'[RX].idx = used[RX].idx /\ used'[TX].idx = used[TX].idx
  BY <1>0, UsedMoves
<1>7. \/ AnnouncePublish \/ ReplyPublish \/ HostReceive
      \/ used'[TX].idx = used[TX].idx /\ seen'[TX] = seen[TX]
  BY <1>3, <1>4, <1>6, HostFrame
<1>8. \/ ReturnBuffer \/ \E m \in Msgs : HostSend(m)
      \/ used'[RX].idx = used[RX].idx /\ seen'[RX] = seen[RX]
  BY <1>2, <1>5, <1>6, HostFrame
<1> QED BY <1>7, <1>8 DEF MoreUsed

(* A published buffer is rung for, or will be.                              *)
LEMMA HostIsToldStep ==
  ASSUME TypeOK, PlaceInv, HostIsTold, [Next]_vars
  PROVE  HostIsTold'
<1>0. TypeRings /\ toHost \in Nat /\ toHost' \in Nat /\ HostFifo \in Nat
      /\ RX \in Rings /\ TX \in Rings /\ NextDesc(RX) \in Desc
  <2>1. TypeRings /\ toHost \in 0 .. HostFifo /\ toHost' \in 0 .. HostFifo
    BY TypeParts, BellsTypeStep DEF TypeFlags
  <2> QED BY <2>1, RingNames, DescTypes, RpmsgAssumption
<1> SUFFICES ASSUME ~ toHost' > 0, ~ work'
             PROVE  /\ MoreUsed(TX)' => recvPc' = "recv" \/ pc' \in {"annbell", "repbell"}
                    /\ sendPc' = "blocked" /\ MoreUsed(RX)' => pc' \in InPoll
  BY DEF HostIsTold
<1>1. ~AnnounceBell /\ ~PollBell /\ ~ReplyBell /\ ~ReplyWaitBell /\ ~HostDoorbell
  BY <1>0 DEF AnnounceBell, PollBell, ReplyBell, ReplyWaitBell, NotifyHost, HostDoorbell
<1>2. ~ toHost > 0
  BY <1>0, <1>1, Steps DEF vars, shared, bells, device, rtos, host, Wake,
         IsDriverReady, Announce, AnnouncePublish, DrainDoorbells, CheckAvail,
         Suppress, Take, ReturnBuffer, Recheck, ReplyCheck, ReplyOpen,
         ReplyWaitDrain, ReplyFill, ReplyPublish, KickOn, Unmask, Isr,
         HostProbe, HostWork, HostReceive, HostReceiveEnd, HostProbeKick,
         HostSendKick, HostSendBlocks, HostSend
<1>3. CASE HostWork
  BY <1>3 DEF HostWork, MoreUsed, shared
<1>4. CASE ~HostWork
  <2>1. ~work
    BY <1>1, <1>4, Steps DEF vars, shared, bells, device, rtos, host, Wake,
           IsDriverReady, Announce, AnnouncePublish, DrainDoorbells,
           CheckAvail, Suppress, Take, ReturnBuffer, Recheck, ReplyCheck,
           ReplyOpen, ReplyWaitDrain, ReplyFill, ReplyPublish, KickOn, Unmask,
           Isr, HostProbe, HostReceive, HostReceiveEnd, HostProbeKick,
           HostSendKick, HostSendBlocks, HostSend
  <2>2. /\ MoreUsed(TX) => recvPc = "recv" \/ pc \in {"annbell", "repbell"}
        /\ sendPc = "blocked" /\ MoreUsed(RX) => pc \in InPoll
    BY <1>2, <2>1 DEF HostIsTold
  <2>3. ASSUME MoreUsed(TX)' PROVE recvPc' = "recv" \/ pc' \in {"annbell", "repbell"}
    <3>1. CASE AnnouncePublish \/ ReplyPublish
      BY <3>1 DEF AnnouncePublish, ReplyPublish
    <3>2. CASE HostReceive
      BY <3>2 DEF HostReceive
    <3>3. CASE MoreUsed(TX)
      <4>1. ~HostReceiveEnd
        BY <3>3 DEF HostReceiveEnd
      <4>2. ~HostProbe
        BY <3>3, <1>0 DEF HostProbe, PlaceInv, MoreUsed
      <4>3. recvPc = "recv" => recvPc' = "recv"
        BY <4>1, <4>2, <1>4, Steps DEF vars, shared, bells, device, rtos, host,
               Wake, IsDriverReady, Announce, AnnouncePublish, AnnounceBell,
               DrainDoorbells, CheckAvail, Suppress, Take, ReturnBuffer,
               Recheck, PollBell, ReplyCheck, ReplyOpen, ReplyWaitBell,
               ReplyWaitDrain, ReplyFill, ReplyPublish, ReplyBell, KickOn,
               Unmask, Isr, HostDoorbell, HostReceive, HostProbeKick,
               HostSendKick, HostSendBlocks, HostSend
      <4>4. pc \in {"annbell", "repbell"} => pc' = pc
        BY <1>1, PcFrame DEF Firmware, Poll, Reply, Wake, IsDriverReady, Announce,
               AnnouncePublish, DrainDoorbells, CheckAvail, Suppress, Take,
               ReturnBuffer, Recheck, ReplyCheck, ReplyOpen, ReplyWaitDrain,
               ReplyFill, ReplyPublish, KickOn, Unmask
      <4> QED BY <2>2, <3>3, <4>3, <4>4
    <3> QED BY <2>3, <3>1, <3>2, <3>3, <1>0, MoreUsedMoves
  <2>4. ASSUME sendPc' = "blocked", MoreUsed(RX)' PROVE pc' \in InPoll
    <3>1. CASE ReturnBuffer
      BY <3>1 DEF ReturnBuffer, InPoll
    <3>2. ~ \E m \in Msgs : HostSend(m)
      BY <2>4 DEF HostSend
    <3>3. CASE ~ReturnBuffer
      <4>1. MoreUsed(RX)
        BY <2>4, <3>2, <3>3, <1>0, MoreUsedMoves
      <4>2. ~HostSendBlocks
        BY <4>1 DEF HostSendBlocks
      <4>3. sendPc = "blocked"
        BY <2>4, <3>2, <4>2, <1>4, Steps DEF vars, shared, bells, device, rtos,
               host, Wake, IsDriverReady, Announce, AnnouncePublish,
               AnnounceBell, DrainDoorbells, CheckAvail, Suppress, Take,
               ReturnBuffer, Recheck, PollBell, ReplyCheck, ReplyOpen,
               ReplyWaitBell, ReplyWaitDrain, ReplyFill, ReplyPublish,
               ReplyBell, KickOn, Unmask, Isr, HostProbe, HostDoorbell,
               HostReceive, HostReceiveEnd, HostProbeKick, HostSendKick
      <4>4. pc \in InPoll
        BY <2>2, <4>1, <4>3
      <4>5. pc \in InPoll => pc' \in InPoll
        BY <1>0, <1>1, <3>3, PcFrame DEF Firmware, Poll, Reply, Wake, IsDriverReady,
               Announce, AnnouncePublish, DrainDoorbells, CheckAvail, Suppress, Take,
               Recheck, ReplyCheck, ReplyOpen, ReplyWaitDrain, ReplyFill,
               ReplyPublish, KickOn, Unmask, InPoll, InReply, InWait, LookAgain, WhenDone
      <4> QED BY <4>4, <4>5
    <3> QED BY <3>1, <3>3
  <2> QED BY <2>3, <2>4
<1> QED BY <1>3, <1>4

-----------------------------------------------------------------------------
(* The invariant *)

(* The invariant holds after the firmware was loaded ...                    *)
LEMMA RpmsgInvInit ==
  Init => RpmsgInv
<1> SUFFICES ASSUME Init PROVE RpmsgInv
  OBVIOUS
<1>0. /\ 0 \in Index /\ 0 \in Desc /\ 0 \in 0 .. HostFifo /\ 0 \in 0 .. DevFifo
      /\ Ahead(0, 0) = 0 /\ RX \in Rings /\ TX \in Rings
      /\ \A q \in Rings : q = RX \/ q = TX
  <2>1. 0 \in Index /\ 0 \in Desc /\ 0 \in 0 .. HostFifo /\ 0 \in 0 .. DevFifo
    BY Sizes, RpmsgAssumption DEF Index, Desc
  <2> QED BY <2>1, IndexFacts, RingNames DEF Rings
<1>1. /\ avail \in [Rings -> AvailType] /\ used \in [Rings -> UsedType]
      /\ \A q \in Rings : avail[q].idx = 0 /\ used[q].idx = 0 /\ ~used[q].quiet
      /\ seen = [q \in Rings |-> 0] /\ last = [q \in Rings |-> 0]
  BY <1>0 DEF Init, AvailType, UsedType
<1>2. TypeRings
  BY <1>0, <1>1 DEF Init, TypeRings
<1>3. TypeFlags
  <2>1. sleeps \in BOOLEAN
    BY RpmsgAssumption DEF Init
  <2>2. irqOn \in BOOLEAN
    BY <2>1, Zenon DEF Init
  <2>3. 0 \in 0 .. N
    BY Sizes
  <2> QED BY <1>0, <2>1, <2>2, <2>3 DEF Init, TypeFlags, Pcs
<1>4. ~Filling /\ ~ready /\ ~driverOk /\ pc = "wait" /\ toHost = 0
  BY DEF Init, Filling
<1>5. \A q \in Rings : /\ Base(q) = 0 /\ HostKeeps(q) = Desc /\ Inside(q) = 0
                       /\ All(q) = 0 /\ Unread(q) = 0
  BY <1>0, <1>1, <1>4 DEF Base, HostKeeps, Inside, All, Total, Unread, Init
<1>6. RingsRound
  <2>1. ASSUME NEW q \in Rings
        PROVE  Round(avail[q], used[q], seen[q], Base(q), HostKeeps(q))
    <3>1. Total(avail[q], used[q], seen[q], Base(q)) = 0
      BY <1>5 DEF All
    <3>2. Cardinality(HostKeeps(q)) = N
      BY <1>5, DescFinite
    <3> QED BY <3>1, <3>2, Sizes DEF Round
  <2> QED BY <2>1 DEF RingsRound
<1>7. PlaceInv
  BY <1>1, <1>4 DEF PlaceInv, Serving, InPoll, Reading, InReply, InWait
<1>8. ContentInv
  BY <1>0, <1>4, <1>5 DEF ContentInv, InReply, InWait
<1>9. SleepInv /\ HostIsTold /\ KicksOnlyWhenWanted
  <2>1. SleepInv
    BY <1>0, <1>1 DEF SleepInv, Init
  <2>2. HostIsTold
    BY <1>0, <1>1, <1>4 DEF HostIsTold, MoreUsed, Init
  <2> QED BY <2>1, <2>2, <1>4 DEF KicksOnlyWhenWanted
<1> QED BY <1>2, <1>3, <1>6, <1>7, <1>8, <1>9, TypeParts DEF RpmsgInv

(* ... and is kept by every step.                                           *)
LEMMA RpmsgInvStep ==
  RpmsgInv /\ [Next]_vars => RpmsgInv'
<1> SUFFICES ASSUME RpmsgInv, [Next]_vars PROVE RpmsgInv'
  OBVIOUS
<1>1. /\ TypeOK /\ RingsRound /\ PlaceInv /\ ContentInv
      /\ SleepInv /\ HostIsTold /\ KicksOnlyWhenWanted /\ TypeRings /\ TypeFlags
  BY TypeParts DEF RpmsgInv
<1>2. TypeRings' /\ RingsRound'
  BY <1>1, RoundStep
<1>3. TypeFlags'
  BY <1>1, FlagsTypeStep
<1>4. TypeOK'
  <2>1. TypeOK' <=> TypeRings' /\ TypeFlags'
    BY TypeParts, PTL
  <2> QED BY <2>1, <1>2, <1>3
<1>5. PlaceInv'
  BY <1>1, PlaceInvStep
<1>6. ContentInv'
  BY <1>1, ContentInvStep
<1>7. SleepInv'
  BY <1>1, SleepInvStep
<1>8. HostIsTold'
  BY <1>1, HostIsToldStep
<1>9. KicksOnlyWhenWanted'
  BY <1>1, KicksStep
<1> QED BY <1>2, <1>4, <1>5, <1>6, <1>7, <1>8, <1>9 DEF RpmsgInv

(* The invariant above holds in every reachable state of firmware and host, *)
(* whatever the size of the rings, the messages and the doorbell FIFOs      *)
(* (poll(), reply() and announce_service() in rpmsg.cpp, the worker and the *)
(* interrupt handler of testFreeRTOS).                                      *)
THEOREM RpmsgInvariant == Spec => []RpmsgInv
<1>1. Init => RpmsgInv
  BY RpmsgInvInit
<1>2. RpmsgInv /\ [Next]_vars => RpmsgInv'
  BY RpmsgInvStep
<1> QED BY <1>1, <1>2, PTL DEF Spec

(* Every variable has its type: no uint16_t index leaves its range, no      *)
(* descriptor its ring, poll()'s count never exceeds a ring and no doorbell *)
(* FIFO overflows (rpmsg.cpp).                                              *)
THEOREM TypeCorrect == Spec => []TypeOK
<1>1. RpmsgInv => TypeOK
  BY DEF RpmsgInv
<1> QED BY <1>1, RpmsgInvariant, PTL

(* No doorbell is missing and kicks are on exactly where the code depends   *)
(* on one: the order of "publish, then notify_host()" in reply() and        *)
(* poll(), and of "enable kicks, then unmask, then wait" in testFreeRTOS.   *)
THEOREM DoorbellsHold == Spec => []Doorbells
<1>1. RpmsgInv => Doorbells
  <2> SUFFICES ASSUME RpmsgInv PROVE Doorbells
    OBVIOUS
  <2>1. HostIsTold /\ KicksOnlyWhenWanted /\ SleepInv
    BY DEF RpmsgInv
  <2>2. SleeperIsReachable
    BY <2>1 DEF SleepInv, SleeperIsReachable
  <2> QED BY <2>1, <2>2 DEF Doorbells
<1> QED BY <1>1, RpmsgInvariant, PTL

(* The owners' sets, as OneOwner names them, are the parts of the round.    *)
LEMMA Owners ==
  ASSUME TypeRings, PlaceInv, NEW q \in Rings, RoundOf(q)
  PROVE  /\ Cardinality(LentTo(q)) = Pending(q)
         /\ Cardinality(Returned(q)) = Unread(q)
         /\ LentTo(q) \cup Returned(q) \cup HeldInside(q) \cup HostKeeps(q) = Desc
         /\ Pending(q) + Unread(q) + Cardinality(HeldInside(q))
              + Cardinality(HostKeeps(q)) = N
<1> DEFINE a == avail[q]   u == used[q]   s == seen[q]   b == Base(q)
           K == HostKeeps(q)   h == Inside(q)
<1>1. a \in AvailType /\ u \in UsedType /\ s \in Index /\ b \in Index /\ K \in SUBSET Desc
  BY RingTypes
<1>2. h \in 0 .. 1
  BY DEF Inside
<1>3. /\ Lent(q) = Pending(q) + h /\ Pending(q) \in Nat /\ Unread(q) \in Nat
      /\ Lent(q) = Ahead(a.idx, b) /\ Unread(q) = Ahead(u.idx, s)
  <2>1. Lent(q) = Pending(q) + h
    <3>1. Pending(q) \in Nat
      BY WaitingType
    <3>2. CASE h = 0
      <4>1. Lent(q) = Pending(q)
        BY <3>2, BaseFacts, RingNames DEF Inside, Rings
      <4> QED BY <4>1, <3>1, <3>2
    <3>3. CASE h # 0
      <4>1. q = TX /\ Filling /\ h = 1
        BY <3>3 DEF Inside
      <4> QED BY <4>1, BaseFacts
    <3> QED BY <3>2, <3>3
  <2> QED BY <2>1, WaitingType, Counts DEF Lent, Unread
<1>4. ASSUME NEW k \in Nat PROVE Slot(last[q] + k) = Slot(b + (h + k))
  <2>1. last[q] \in Index /\ last[q] \in Nat
    BY IndexFacts DEF TypeRings
  <2>2. CASE h = 0
    <3>1. b = last[q]
      BY <2>2 DEF Inside, Base
    <3> QED BY <3>1, <2>2
  <2>3. CASE h # 0
    <3>1. q = TX /\ Filling /\ h = 1
      BY <2>3 DEF Inside
    <3>2. Next1(b) = last[q]
      BY <3>1, BaseFacts
    <3>3. Slot(Next1(b) + k) = Slot(b + (k + 1))
      BY <1>1, SlotNext
    <3>4. h + k = k + 1
      BY <3>1
    <3> QED BY <3>2, <3>3, <3>4
  <2> QED BY <2>2, <2>3
<1>5. LentTo(q) = LentPart(a, b, h)
  <2> DEFINE P == 0 .. Pending(q) - 1   ring == avail[q].ring   i == last[q]
  <2>1. 0 .. Ahead(a.idx, b) - h - 1 = P
    BY <1>2, <1>3
  <2>2. \A k \in P : Slot(i + k) = Slot(b + (h + k))
    BY <1>3, <1>4
  <2>3. LentTo(q) = {ring[Slot(i + k)] : k \in P}
    BY DEF LentTo
  <2>4. LentPart(a, b, h) = {ring[Slot(b + (h + k))] : k \in P}
    BY <2>1 DEF LentPart
  <2> HIDE DEF P, ring, i, a, b, h
  <2>5. {ring[Slot(i + k)] : k \in P} = {ring[Slot(b + (h + k))] : k \in P}
    BY <2>2
  <2> QED BY <2>3, <2>4, <2>5
<1>6. Returned(q) = UnreadPart(u, s)
  BY DEF Returned, Unread, UnreadPart
<1>7. /\ HeldInside(q) = FilledPart(a, b, h)
      /\ Cardinality(HeldInside(q)) = h
  <2>1. CASE q = TX /\ Filling
    <3>1. h = 1 /\ Filled = a.ring[Slot(b)]
      BY <2>1, BaseFacts
    <3>2. HeldInside(q) = {Filled}
      BY <2>1 DEF HeldInside, Filling
    <3> QED BY <3>1, <3>2, FS_Singleton DEF FilledPart
  <2>2. CASE ~(q = TX /\ Filling)
    <3>1. h = 0
      BY <2>2 DEF Inside
    <3>2. HeldInside(q) = {}
      BY <2>2 DEF HeldInside, Filling
    <3> QED BY <3>1, <3>2, FS_EmptySet DEF FilledPart
  <2> QED BY <2>1, <2>2
<1>8. /\ Round(a, u, s, b, K) /\ Total(a, u, s, b) + Cardinality(K) = N
      /\ Total(a, u, s, b) = Unread(q) + Lent(q) /\ Cardinality(K) \in Nat
  <2>1. Round(a, u, s, b, K)
    BY DEF RoundOf
  <2>2. Total(a, u, s, b) = Unread(q) + Lent(q)
    BY <1>3 DEF Total
  <2>3. Cardinality(K) \in Nat
    BY <1>1, <2>1, RoundSize
  <2> QED BY <2>1, <2>2, <2>3 DEF Round
<1> HIDE DEF a, u, s, b, K, h
<1>9. h <= Ahead(a.idx, b)
  BY <1>2, <1>3
<1>10. /\ Cardinality(LentPart(a, b, h)) = Ahead(a.idx, b) - h
       /\ Cardinality(UnreadPart(u, s)) = Ahead(u.idx, s)
       /\ LentPart(a, b, h) \cup UnreadPart(u, s) \cup FilledPart(a, b, h) \cup K = Desc
  BY <1>1, <1>2, <1>8, <1>9, RoundOwners
<1>11. Cardinality(LentTo(q)) = Pending(q)
  <2>1. Cardinality(LentTo(q)) = Ahead(a.idx, b) - h
    BY <1>5, <1>10
  <2> QED BY <2>1, <1>2, <1>3
<1>12. Cardinality(Returned(q)) = Unread(q)
  BY <1>3, <1>6, <1>10
<1>13. LentTo(q) \cup Returned(q) \cup HeldInside(q) \cup K = Desc
  BY <1>5, <1>6, <1>7, <1>10
<1>14. Pending(q) + Unread(q) + Cardinality(HeldInside(q)) + Cardinality(K) = N
  BY <1>2, <1>3, <1>7, <1>8
<1> QED BY <1>11, <1>12, <1>13, <1>14 DEF K

(* Every buffer of both rings has one owner, none is lost and none is twice *)
(* in a ring, and what the host finds in a returned reply buffer is a whole *)
(* message (last_avail_idx, used->idx and the order of "fill, publish,      *)
(* notify" in poll(), reply() and announce_service()).                      *)
THEOREM BuffersHaveOneOwner == Spec => []OneOwner
<1>1. RpmsgInv => OneOwner
  <2> SUFFICES ASSUME RpmsgInv PROVE OneOwner
    OBVIOUS
  <2>1. TypeRings /\ PlaceInv /\ ContentInv /\ \A q \in Rings : RoundOf(q)
    BY TypeParts DEF RpmsgInv, RingsRound, RoundOf
  <2>2. ASSUME NEW d \in Returned(TX) PROVE buf[TX][d] \notin {NoMsg} \cup Malformed
    <3>1. PICK k \in 0 .. Unread(TX) - 1 : d = used[TX].ring[Slot(seen[TX] + k)]
      BY DEF Returned
    <3>2. Unread(TX) \in Nat /\ Unread(TX) = Ahead(used[TX].idx, seen[TX])
          /\ Inside(TX) \in 0 .. 1
      BY <2>1, Counts, RingNames DEF Unread, Inside
    <3>3. At(TX, k) = d
      BY <3>1, <3>2 DEF At, Flow
    <3>4. k \in 0 .. Unread(TX) + Inside(TX) - 1
      BY <3>2
    <3> QED BY <3>3, <3>4, <2>1 DEF ContentInv
  <2> QED BY <2>1, <2>2, Owners DEF OneOwner
<1> QED BY <1>1, RpmsgInvariant, PTL
-----------------------------------------------------------------------------
(* The well-formed messages of a sequence *)

(* The least element of a set of numbers. *)
LEMMA LeastElement ==
  ASSUME NEW T \in SUBSET Nat, T # {}
  PROVE  \E m \in T : \A k \in T : m <= k
<1> DEFINE R == OpToRel(<, Nat)
<1>1. IsWellFoundedOn(R, Nat)
  BY NatLessThanWellFounded, Zenon
<1>2. \A k, m \in Nat : <<k, m>> \in R <=> k < m
  BY DEF OpToRel
<1> HIDE DEF R
<1>3. PICK m \in T : \A k \in T : ~ (<<k, m>> \in R)
  BY <1>1, WFMin
<1>4. \A k \in T : m <= k
  <2> TAKE k \in T
  <2>1. k \in Nat /\ m \in Nat /\ ~ (k < m)
    BY <1>2, <1>3
  <2> QED BY <2>1
<1> QED BY <1>4

(* Induction over the numbers, for a set instead of a predicate. *)
LEMMA SetInduction ==
  ASSUME NEW S, 0 \in S, \A n \in Nat : n \in S => n + 1 \in S
  PROVE  Nat \subseteq S
<1> SUFFICES ASSUME NEW n \in Nat, n \notin S PROVE FALSE
  OBVIOUS
<1> DEFINE T == {k \in Nat : k \notin S}
<1>1. PICK m \in T : \A k \in T : m <= k
  <2>1. T \in SUBSET Nat /\ T # {} OBVIOUS
  <2> QED BY <2>1, LeastElement
<1>2. m # 0 /\ m - 1 \in Nat
  OBVIOUS
<1>3. m - 1 \in S
  BY <1>1, <1>2
<1> QED BY <1>2, <1>3

(* One turn of the loop, and what the loop has kept after each turn up to n. *)
Keep(k, x) == IF WellFormed(x) THEN Append(k, x) ELSE k
IsKept(g, s, n) ==
  g = [i \in 0 .. n |->
         IF i = 0 THEN << >>
         ELSE IF WellFormed(s[i]) THEN Append(g[i - 1], s[i]) ELSE g[i - 1]]

(* Its equations, one turn at a time. *)
LEMMA KeptTurns ==
  ASSUME NEW g, NEW s, NEW n \in Nat, IsKept(g, s, n)
  PROVE  g[0] = << >> /\ \A i \in 1 .. n : g[i] = Keep(g[i - 1], s[i])
<1>1. 0 \in 0 .. n
  OBVIOUS
<1>2. g[0] = << >>
  BY <1>1 DEF IsKept
<1>3. ASSUME NEW i \in 1 .. n PROVE g[i] = Keep(g[i - 1], s[i])
  <2>1. i \in 0 .. n /\ i # 0
    OBVIOUS
  <2> QED BY <2>1 DEF IsKept, Keep
<1> QED BY <1>2, <1>3

(* There is such a function, one turn after the other. *)
LEMMA KeptExists ==
  ASSUME NEW s, NEW n \in Nat
  PROVE  \E g : IsKept(g, s, n)
<1> DEFINE S == {k \in Nat : \E g : IsKept(g, s, k)}
<1>1. 0 \in S
  <2> DEFINE g == [i \in 0 .. 0 |-> << >>]
  <2>1. IsKept(g, s, 0)
    BY DEF IsKept
  <2> QED BY <2>1
<1>2. ASSUME NEW k \in Nat, k \in S PROVE k + 1 \in S
  <2>1. PICK g : IsKept(g, s, k)
    BY <1>2
  <2> DEFINE h == [i \in 0 .. k + 1 |-> IF i = k + 1 THEN Keep(g[k], s[k + 1]) ELSE g[i]]
  <2>2. ASSUME NEW i \in 0 .. k + 1
        PROVE  h[i] = IF i = 0 THEN << >> ELSE Keep(h[i - 1], s[i])
    <3>1. CASE i = k + 1
      <4>1. k \in 0 .. k + 1 /\ k # k + 1 /\ i # 0 /\ i - 1 = k
        BY <3>1
      <4>2. h[k] = g[k]
        BY <4>1
      <4> QED BY <3>1, <4>1, <4>2
    <3>2. CASE i = 0
      <4>1. 0 \in 0 .. k /\ i # k + 1
        BY <3>2
      <4> QED BY <2>1, <3>2, <4>1, KeptTurns
    <3>3. CASE i \in 1 .. k
      <4>1. i - 1 \in 0 .. k + 1 /\ i - 1 # k + 1 /\ i # 0 /\ i # k + 1
        BY <3>3
      <4>2. g[i] = Keep(g[i - 1], s[i])
        BY <2>1, <3>3, KeptTurns
      <4>3. h[i] = g[i] /\ h[i - 1] = g[i - 1]
        BY <4>1
      <4> QED BY <4>1, <4>2, <4>3
    <3> QED BY <3>1, <3>2, <3>3
  <2>3. IsKept(h, s, k + 1)
    <3> HIDE DEF h
    <3>1. h = [i \in 0 .. k + 1 |-> h[i]]
      BY DEF h
    <3> QED BY <2>2, <3>1 DEF IsKept, Keep
  <2> HIDE DEF h
  <2> QED BY <2>3
<1>3. Nat \subseteq S
  BY <1>1, <1>2, SetInduction
<1> QED BY <1>3

(* Kept() is what the loop has after its last turn. *)
LEMMA KeptIsLoop ==
  ASSUME NEW S, NEW s \in Seq(S)
  PROVE  \E g : IsKept(g, s, Len(s)) /\ Kept(s) = g[Len(s)]
<1> DEFINE n == Len(s)   c == CHOOSE kept : IsKept(kept, s, n)
<1>0. n \in Nat
  OBVIOUS
<1>1. \E g : IsKept(g, s, n)
  BY <1>0, KeptExists
<1>2. IsKept(c, s, n)
  BY <1>1
<1>3. Kept(s) = c[n]
  BY DEF Kept, IsKept
<1> QED BY <1>2, <1>3

(* What is kept after some turns depends on the messages up to there alone. *)
LEMMA KeptAgree ==
  ASSUME NEW g, NEW h, NEW s, NEW t, NEW n \in Nat, NEW m \in Nat, n <= m,
         IsKept(g, s, n), IsKept(h, t, m), \A i \in 1 .. n : s[i] = t[i]
  PROVE  g[n] = h[n]
<1> DEFINE S == {k \in Nat : k <= n => g[k] = h[k]}
<1>1. 0 \in S
  BY KeptTurns
<1>2. ASSUME NEW k \in Nat, k \in S PROVE k + 1 \in S
  <2> SUFFICES ASSUME k + 1 <= n PROVE g[k + 1] = h[k + 1]
    OBVIOUS
  <2>1. k + 1 \in 1 .. n /\ k + 1 \in 1 .. m /\ (k + 1) - 1 = k /\ k <= n
    OBVIOUS
  <2>2. g[k + 1] = Keep(g[k], s[k + 1]) /\ h[k + 1] = Keep(h[k], t[k + 1])
    BY <2>1, KeptTurns
  <2>3. g[k] = h[k] /\ s[k + 1] = t[k + 1]
    BY <1>2, <2>1
  <2> QED BY <2>2, <2>3
<1>3. Nat \subseteq S
  BY <1>1, <1>2, SetInduction
<1> QED BY <1>3

(* Nothing is kept of nothing. *)
LEMMA KeptEmpty == Kept(<< >>) = << >>
<1>1. << >> \in Seq({}) /\ Len(<< >>) = 0
  OBVIOUS
<1>2. PICK g : IsKept(g, << >>, 0) /\ Kept(<< >>) = g[0]
  BY <1>1, KeptIsLoop
<1> QED BY <1>2, KeptTurns

(* One more message is one more turn. *)
LEMMA KeptAppend ==
  ASSUME NEW S, NEW s \in Seq(S), NEW x \in S
  PROVE  Kept(Append(s, x)) = Keep(Kept(s), x)
<1> DEFINE n == Len(s)   t == Append(s, x)
<1>1. n \in Nat /\ t \in Seq(S) /\ Len(t) = n + 1 /\ t[n + 1] = x
      /\ \A i \in 1 .. n : s[i] = t[i]
  OBVIOUS
<1>2. PICK g : IsKept(g, s, n) /\ Kept(s) = g[n]
  BY KeptIsLoop
<1> HIDE DEF n, t
<1>3. PICK h : IsKept(h, t, n + 1) /\ Kept(t) = h[n + 1]
  BY <1>1, KeptIsLoop
<1>4. g[n] = h[n]
  <2>1. n + 1 \in Nat /\ n <= n + 1
    BY <1>1
  <2> QED BY <1>1, <1>2, <1>3, <2>1, KeptAgree
<1>5. h[n + 1] = Keep(h[n], t[n + 1])
  <2>1. n + 1 \in 1 .. n + 1 /\ (n + 1) - 1 = n /\ n + 1 \in Nat
    BY <1>1
  <2> QED BY <1>3, <2>1, KeptTurns
<1> QED BY <1>1, <1>2, <1>3, <1>4, <1>5 DEF t

(* A sequence is empty or a shorter one and its last message. *)
LEMMA LastApart ==
  ASSUME NEW S, NEW s \in Seq(S), NEW n \in Nat, Len(s) = n + 1
  PROVE  /\ SubSeq(s, 1, n) \in Seq(S) /\ s[n + 1] \in S /\ Len(SubSeq(s, 1, n)) = n
         /\ s = Append(SubSeq(s, 1, n), s[n + 1])
<1> DEFINE t == SubSeq(s, 1, n)   x == s[n + 1]
<1>1. t \in Seq(S) /\ Len(t) = n /\ x \in S /\ \A i \in 1 .. n : t[i] = s[i]
  OBVIOUS
<1> HIDE DEF t, x
<1>2. /\ Append(t, x) \in Seq(S) /\ Len(Append(t, x)) = n + 1
      /\ \A i \in 1 .. n + 1 : Append(t, x)[i] = s[i]
  BY <1>1 DEF x
<1>3. s = Append(t, x)
  BY <1>2, SeqEqual
<1> QED BY <1>1, <1>3 DEF t, x

(* Well-formed messages are kept, and no more than there are. *)
LEMMA KeptType ==
  ASSUME NEW S, NEW s \in Seq(S)
  PROVE  Kept(s) \in Seq(Msgs \ Malformed) /\ Len(Kept(s)) <= Len(s)
<1> DEFINE T == {n \in Nat : \A t \in Seq(S) : Len(t) = n =>
                    Kept(t) \in Seq(Msgs \ Malformed) /\ Len(Kept(t)) <= n}
<1>1. 0 \in T
  <2> SUFFICES ASSUME NEW t \in Seq(S), Len(t) = 0
               PROVE  Kept(t) \in Seq(Msgs \ Malformed) /\ Len(Kept(t)) <= 0
    OBVIOUS
  <2>1. t = << >>
    BY EmptySeq
  <2>2. << >> \in Seq(Msgs \ Malformed) /\ Len(<< >>) = 0
    OBVIOUS
  <2>3. Kept(t) = << >>
    BY <2>1, KeptEmpty
  <2> QED BY <2>2, <2>3
<1>2. ASSUME NEW n \in Nat, n \in T PROVE n + 1 \in T
  <2> SUFFICES ASSUME NEW t \in Seq(S), Len(t) = n + 1
               PROVE  Kept(t) \in Seq(Msgs \ Malformed) /\ Len(Kept(t)) <= n + 1
    OBVIOUS
  <2> HIDE DEF T
  <2>0. /\ SubSeq(t, 1, n) \in Seq(S) /\ t[n + 1] \in S /\ Len(SubSeq(t, 1, n)) = n
        /\ t = Append(SubSeq(t, 1, n), t[n + 1])
    BY LastApart
  <2>1. PICK u \in Seq(S), x \in S : Len(u) = n /\ t = Append(u, x)
    BY <2>0
  <2>2. Kept(u) \in Seq(Msgs \ Malformed) /\ Len(Kept(u)) <= n
    BY <1>2, <2>1 DEF T
  <2>3. Kept(t) = Keep(Kept(u), x)
    BY <2>1, KeptAppend
  <2> QED BY <2>2, <2>3 DEF Keep, WellFormed
<1>3. Nat \subseteq T
  BY <1>1, <1>2, SetInduction
<1> QED BY <1>3

(* Adding to the second of two sequences.                                   *)
LEMMA ConcatAppend ==
  ASSUME NEW S, NEW s \in Seq(S), NEW t \in Seq(S), NEW x \in S
  PROVE  s \o Append(t, x) = Append(s \o t, x)
<1>1. <<x>> \in Seq(S) /\ s \o t \in Seq(S)
  OBVIOUS
<1>2. Append(t, x) = t \o <<x>> /\ Append(s \o t, x) = (s \o t) \o <<x>>
  BY <1>1, AppendIsConcat
<1>3. (s \o t) \o <<x>> = s \o (t \o <<x>>)
  BY <1>1, ConcatAssociative
<1> QED BY <1>2, <1>3

(* What is kept of two sequences one after the other. *)
LEMMA KeptConcat ==
  ASSUME NEW S, NEW s \in Seq(S), NEW t \in Seq(S)
  PROVE  Kept(s \o t) = Kept(s) \o Kept(t)
<1> DEFINE T == {n \in Nat : \A u \in Seq(S) :
                    Len(u) = n => Kept(s \o u) = Kept(s) \o Kept(u)}
<1>0. Kept(s) \in Seq(Msgs \ Malformed)
  BY KeptType
<1>1. 0 \in T
  <2> SUFFICES ASSUME NEW u \in Seq(S), Len(u) = 0 PROVE Kept(s \o u) = Kept(s) \o Kept(u)
    OBVIOUS
  <2>1. u = << >>
    BY EmptySeq
  <2>2. s \o u = s /\ Kept(s) \o << >> = Kept(s)
    BY <1>0, <2>1, ConcatEmptySeq
  <2> QED BY <2>1, <2>2, KeptEmpty
<1>2. ASSUME NEW n \in Nat, n \in T PROVE n + 1 \in T
  <2> SUFFICES ASSUME NEW u \in Seq(S), Len(u) = n + 1 PROVE Kept(s \o u) = Kept(s) \o Kept(u)
    OBVIOUS
  <2> HIDE DEF T
  <2>0. /\ SubSeq(u, 1, n) \in Seq(S) /\ u[n + 1] \in S /\ Len(SubSeq(u, 1, n)) = n
        /\ u = Append(SubSeq(u, 1, n), u[n + 1])
    BY LastApart
  <2>1. PICK v \in Seq(S), x \in S : Len(v) = n /\ u = Append(v, x)
    BY <2>0
  <2>2. Kept(s \o v) = Kept(s) \o Kept(v)
    BY <1>2, <2>1 DEF T
  <2>3. s \o u = Append(s \o v, x) /\ s \o v \in Seq(S)
    <3>1. u = v \o <<x>> /\ Append(s \o v, x) = (s \o v) \o <<x>> /\ <<x>> \in Seq(S)
          /\ s \o v \in Seq(S)
      BY <2>1, AppendIsConcat
    <3>2. s \o (v \o <<x>>) = (s \o v) \o <<x>>
      BY <3>1, ConcatAssociative
    <3> QED BY <3>1, <3>2
  <2>4. Kept(s \o u) = Keep(Kept(s) \o Kept(v), x) /\ Kept(u) = Keep(Kept(v), x)
    BY <2>1, <2>2, <2>3, KeptAppend
  <2>5. Kept(v) \in Seq(Msgs \ Malformed)
    BY KeptType
  <2>6. WellFormed(x) => Append(Kept(s) \o Kept(v), x) = Kept(s) \o Append(Kept(v), x)
    <3> SUFFICES ASSUME x \in Msgs \ Malformed
                 PROVE  Append(Kept(s) \o Kept(v), x) = Kept(s) \o Append(Kept(v), x)
      BY DEF WellFormed
    <3> DEFINE a == Kept(s)   b == Kept(v)   M == Msgs \ Malformed
    <3>1. a \in Seq(M) /\ b \in Seq(M) /\ x \in M
      BY <1>0, <2>5
    <3> HIDE DEF a, b, M
    <3>2. a \o Append(b, x) = Append(a \o b, x)
      BY <3>1, ConcatAppend
    <3> QED BY <3>2 DEF a, b
  <2> QED BY <2>4, <2>6 DEF Keep
<1>3. Nat \subseteq T
  BY <1>1, <1>2, SetInduction
<1> QED BY <1>3

(* A sequence is its first message and the rest. *)
LEMMA HeadApart ==
  ASSUME NEW S, NEW s \in Seq(S), s # << >>
  PROVE  /\ Head(s) \in S /\ Tail(s) \in Seq(S) /\ <<Head(s)>> \in Seq(S)
         /\ s = <<Head(s)>> \o Tail(s)
<1>1. Head(s) \in S /\ Tail(s) \in Seq(S) /\ Len(Tail(s)) = Len(s) - 1 /\ Len(s) \in Nat
      /\ Len(s) > 0
  BY HeadTailProperties, EmptySeq
<1>2. \A i \in 1 .. Len(s) - 1 : Tail(s)[i] = s[i + 1]
  OBVIOUS
<1> DEFINE t == <<Head(s)>> \o Tail(s)
<1>3. t \in Seq(S) /\ Len(t) = Len(s)
  BY <1>1
<1>4. ASSUME NEW i \in 1 .. Len(s) PROVE t[i] = s[i]
  <2>1. CASE i = 1
    BY <1>1, <2>1
  <2>2. CASE i # 1
    <3>1. i - 1 \in 1 .. Len(s) - 1 /\ (i - 1) + 1 = i
      BY <1>1, <2>2
    <3>2. t[i] = Tail(s)[i - 1]
      BY <1>1, <2>2
    <3> QED BY <1>2, <3>1, <3>2
  <2> QED BY <2>1, <2>2
<1>5. s = t
  <2> HIDE DEF t
  <2> QED BY <1>1, <1>3, <1>4, SeqEqual
<1> QED BY <1>1, <1>5

(* What is kept without the first message. *)
LEMMA KeptTail ==
  ASSUME NEW S, NEW s \in Seq(S), s # << >>
  PROVE  /\ WellFormed(Head(s)) => Kept(s) # << >> /\ Kept(Tail(s)) = Tail(Kept(s))
         /\ ~WellFormed(Head(s)) => Kept(Tail(s)) = Kept(s)
<1> DEFINE x == Head(s)   t == Tail(s)
<1>1. x \in S /\ t \in Seq(S) /\ <<x>> \in Seq(S) /\ s = <<x>> \o t
  BY HeadApart
<1> HIDE DEF x, t
<1>2. Kept(s) = Kept(<<x>>) \o Kept(t)
  BY <1>1, KeptConcat
<1>3. Kept(<<x>>) = Keep(<< >>, x)
  <2>1. << >> \in Seq(S) /\ <<x>> = Append(<< >>, x)
    BY <1>1
  <2> QED BY <1>1, <2>1, KeptAppend, KeptEmpty
<1>4. Kept(t) \in Seq(Msgs \ Malformed)
  BY <1>1, KeptType
<1>5. CASE ~WellFormed(x)
  <2>1. Kept(s) = << >> \o Kept(t)
    BY <1>2, <1>3, <1>5 DEF Keep
  <2> QED BY <1>4, <1>5, <2>1, ConcatEmptySeq DEF x, t
<1>6. CASE WellFormed(x)
  <2>1. x \in Msgs \ Malformed /\ Kept(s) = <<x>> \o Kept(t)
    <3>1. Keep(<< >>, x) = <<x>>
      BY <1>6 DEF Keep
    <3> QED BY <1>2, <1>3, <1>6, <3>1 DEF WellFormed
  <2>2. <<x>> \o Kept(t) # << >> /\ Tail(<<x>> \o Kept(t)) = Kept(t)
    <3> DEFINE b == Kept(t)   M == Msgs \ Malformed   c == <<x>> \o b
    <3>1. b \in Seq(M) /\ c \in Seq(M) /\ Len(c) = Len(b) + 1 /\ Len(b) \in Nat
          /\ \A i \in 1 .. Len(b) : c[i + 1] = b[i]
      BY <1>4, <2>1
    <3> HIDE DEF b, c, M
    <3>2. c # << >>
      BY <3>1
    <3>3. Tail(c) \in Seq(M) /\ Len(Tail(c)) = Len(b) /\ \A i \in 1 .. Len(b) : Tail(c)[i] = b[i]
      BY <3>1, <3>2
    <3>4. Tail(c) = b
      BY <3>1, <3>3, SeqEqual
    <3> QED BY <3>2, <3>4 DEF b, c
  <2> QED BY <1>6, <2>1, <2>2 DEF x, t
<1> QED BY <1>5, <1>6 DEF x
-----------------------------------------------------------------------------
(* The two sequences of the mapping, by position *)

Texts == Msgs \cup {NoMsg, Announcement}

Shape ==
  /\ Replies \in Seq(Texts) /\ Len(Replies) = Unread(TX) /\ Len(Replies) <= N
  /\ \A k \in 1 .. Unread(TX) : Replies[k] = buf[TX][At(TX, k - 1)]
  /\ Requested \in Seq(Msgs) /\ Len(Requested) = Lent(RX) /\ Len(Requested) <= N
  /\ \A k \in 1 .. Lent(RX), j \in Nat :
       j = Unread(RX) + k - 1 => Requested[k] = buf[RX][At(RX, j)]
  /\ Requested # << >> => AskedAt(0) = Requested[1]
  /\ AskedAt(0) = buf[RX][NextDesc(RX)]
  /\ Filling => Filled = At(TX, Unread(TX)) /\ Lent(TX) # 0
  /\ pc \in Reading => Requested # << >>

(* Positions in the two halves of a ring. *)
LEMMA FlowParts ==
  ASSUME TypeRings, NEW q \in Rings, NEW k \in Nat
  PROVE  /\ k < Unread(q) => At(q, k) = used[q].ring[Slot(seen[q] + k)]
         /\ At(q, Unread(q) + k) = avail[q].ring[Slot(Base(q) + k)]
<1>1. Unread(q) = Ahead(used[q].idx, seen[q]) /\ Unread(q) \in Nat
  BY Counts DEF Unread
<1>2. ~ Unread(q) + k < Unread(q) /\ (Unread(q) + k) - Unread(q) = k
  BY <1>1
<1> QED BY <1>1, <1>2 DEF At, Flow

(* Replies and requests are the messages at these positions. *)
LEMMA ShapeHolds == RpmsgInv => Shape
<1> SUFFICES ASSUME RpmsgInv PROVE Shape
  OBVIOUS
<1>0. /\ TypeOK /\ TypeRings /\ TypeFlags /\ PlaceInv /\ RingsRound /\ ContentInv
      /\ TX \in Rings /\ RX \in Rings /\ RoundOf(TX) /\ RoundOf(RX)
      /\ buf \in [Rings -> [Desc -> Texts]]
      /\ last[RX] \in Nat /\ seen[TX] \in Nat
  BY TypeParts, RingNames, IndexFacts DEF RpmsgInv, RingsRound, RoundOf, TypeRings, Texts
<1>1. \A q \in Rings : /\ Unread(q) \in Nat /\ Lent(q) \in Nat /\ Unread(q) + Lent(q) <= N
                       /\ \A k \in Nat : At(q, k) \in Desc
  <2> TAKE q \in Rings
  <2>1. RoundOf(q)
    BY <1>0 DEF RingsRound, RoundOf
  <2> QED BY <1>0, <2>1, Counts
<1>2. Base(RX) = last[RX] /\ Lent(RX) = Pending(RX)
  BY <1>0, BaseFacts
<1> DEFINE u == Unread(TX)   p == Pending(RX)   r == Unread(RX)
<1>n. u \in Nat /\ p \in Nat /\ r \in Nat /\ N \in Nat /\ u <= N /\ p <= N
  <2>1. Unread(TX) + Lent(TX) <= N /\ Unread(RX) + Lent(RX) <= N
    BY <1>0, <1>1
  <2> QED BY <1>0, <1>1, <1>2, <2>1, Sizes
<1>3. ASSUME NEW k \in 1 .. u
      PROVE  /\ buf[TX][used[TX].ring[Slot(seen[TX] + k - 1)]] = buf[TX][At(TX, k - 1)]
             /\ buf[TX][At(TX, k - 1)] \in Texts
  <2>1. k - 1 \in Nat /\ k - 1 < u /\ seen[TX] + k - 1 = seen[TX] + (k - 1)
    BY <1>0, <1>n
  <2>2. At(TX, k - 1) = used[TX].ring[Slot(seen[TX] + (k - 1))]
    BY <1>0, <2>1, FlowParts
  <2>3. At(TX, k - 1) \in Desc
    BY <1>0, <1>1, <2>1
  <2> QED BY <1>0, <2>1, <2>2, <2>3
<1>4. ASSUME NEW k \in 1 .. p
      PROVE  /\ AskedAt(k - 1) = buf[RX][At(RX, r + k - 1)]
             /\ AskedAt(k - 1) \in Msgs
  <2>1. k - 1 \in Nat /\ r + k - 1 = r + (k - 1)
        /\ r + k - 1 \in r .. (r + p) - 1
    BY <1>n
  <2>2. At(RX, r + (k - 1)) = avail[RX].ring[Slot(last[RX] + (k - 1))]
    BY <1>0, <1>2, <2>1, FlowParts
  <2>3. All(RX) = r + p
    BY <1>0, <1>2, Counts
  <2>4. buf[RX][At(RX, r + k - 1)] \in Msgs
    BY <1>0, <2>1, <2>3 DEF ContentInv
  <2> QED BY <2>1, <2>2, <2>4 DEF AskedAt
<1>5. /\ Replies \in Seq(Texts) /\ Len(Replies) = u
      /\ \A k \in 1 .. u : Replies[k] = buf[TX][At(TX, k - 1)]
  <2>1. Replies = [k \in 1 .. u |-> buf[TX][At(TX, k - 1)]]
    BY <1>3 DEF Replies
  <2> HIDE DEF u
  <2> QED BY <1>3, <1>n, <2>1
<1>6. /\ Requested \in Seq(Msgs) /\ Len(Requested) = p
      /\ \A k \in 1 .. p : Requested[k] = buf[RX][At(RX, r + k - 1)]
      /\ \A k \in 1 .. p : Requested[k] = AskedAt(k - 1)
  <2>1. Requested = [k \in 1 .. p |-> AskedAt(k - 1)]
    BY DEF Requested
  <2> HIDE DEF p, r
  <2> QED BY <1>4, <1>n, <2>1
<1>7. Requested # << >> => AskedAt(0) = Requested[1]
  <2> SUFFICES ASSUME Requested # << >> PROVE AskedAt(0) = Requested[1]
    OBVIOUS
  <2>1. p # 0
    BY <1>6
  <2>2. 1 \in 1 .. p /\ 1 - 1 = 0
    BY <1>n, <2>1
  <2> QED BY <1>6, <2>2
<1>8. AskedAt(0) = buf[RX][NextDesc(RX)]
  <2>1. last[RX] + 0 = last[RX]
    BY <1>0
  <2> QED BY <2>1 DEF AskedAt, NextDesc
<1>9. Filling => Filled = At(TX, u) /\ Lent(TX) # 0
  <2> SUFFICES ASSUME Filling PROVE Filled = At(TX, u) /\ Lent(TX) # 0
    OBVIOUS
  <2>1. Filled = avail[TX].ring[Slot(Base(TX))] /\ Lent(TX) = Pending(TX) + 1
        /\ Base(TX) \in Nat /\ Pending(TX) \in Nat
    BY <1>0, BaseFacts, IndexFacts, NoRingError
  <2>2. At(TX, u + 0) = avail[TX].ring[Slot(Base(TX) + 0)]
    BY <1>0, FlowParts
  <2>3. u + 0 = u /\ Base(TX) + 0 = Base(TX)
    BY <1>n, <2>1
  <2> QED BY <2>1, <2>2, <2>3
<1>10. pc \in Reading => Requested # << >>
  <2> SUFFICES ASSUME pc \in Reading PROVE Requested # << >>
    OBVIOUS
  <2>1. 1 <= pending /\ pending <= p /\ pending \in Nat
    BY <1>0, Sizes DEF PlaceInv, TypeFlags
  <2>2. p # 0
    BY <1>n, <2>1
  <2> QED BY <1>6, <2>2
<1> QED BY <1>2, <1>5, <1>6, <1>7, <1>8, <1>9, <1>10, <1>n DEF Shape

(* And after a step. *)
LEMMA ShapeThen == RpmsgInv' => Shape'
BY ShapeHolds, PTL
-----------------------------------------------------------------------------
(* What a step does to the two sequences *)

(* A sequence with one message more at its end. *)
LEMMA LongerByOne ==
  ASSUME NEW S, NEW s \in Seq(S), NEW t \in Seq(S), Len(t) = Len(s) + 1,
         \A k \in 1 .. Len(s) : t[k] = s[k]
  PROVE  t = Append(s, t[Len(s) + 1])
<1> DEFINE n == Len(s)   x == t[n + 1]
<1>1. n \in Nat /\ x \in S
  OBVIOUS
<1> HIDE DEF x
<1>2. Append(s, x) \in Seq(S) /\ Len(Append(s, x)) = n + 1
      /\ \A k \in 1 .. n + 1 : Append(s, x)[k] = t[k]
  BY <1>1 DEF x
<1>3. t = Append(s, x)
  BY <1>2, SeqEqual
<1> QED BY <1>3 DEF x

(* And one with the first message less. *)
LEMMA ShorterByOne ==
  ASSUME NEW S, NEW s \in Seq(S), NEW t \in Seq(S), Len(s) = Len(t) + 1,
         \A k \in 1 .. Len(t) : t[k] = s[k + 1]
  PROVE  s # << >> /\ t = Tail(s)
<1> DEFINE n == Len(t)
<1>1. n \in Nat /\ s # << >>
  OBVIOUS
<1>2. Tail(s) \in Seq(S) /\ Len(Tail(s)) = n /\ \A k \in 1 .. n : Tail(s)[k] = s[k + 1]
  BY <1>1
<1>3. t = Tail(s)
  BY <1>2, SeqEqual
<1> QED BY <1>1, <1>3

(* Requests are added at the end and taken from the front. *)
LEMMA RequestedMoves ==
  ASSUME RpmsgInv, RpmsgInv', [Next]_vars
  PROVE  \/ Requested' = Requested /\ ~ReturnBuffer
         \/ ReturnBuffer /\ Requested # << >> /\ Requested' = Tail(Requested)
         \/ \E m \in Msgs : /\ HostSend(m) /\ Requested' = Append(Requested, m)
                            /\ Len(Requested) < N
<1> DEFINE n == Unread(RX)   p == Lent(RX)   t == All(RX)
<1>0. /\ TypeRings /\ TypeRings' /\ PlaceInv /\ RX \in Rings /\ RoundOf(RX)
      /\ buf[RX] \in [Desc -> Texts]
  BY TypeParts, TypeRingsStep, RingNames DEF RpmsgInv, RingsRound, RoundOf, TypeRings, Texts
<1>1. /\ Requested \in Seq(Msgs) /\ Len(Requested) = p
      /\ \A k \in 1 .. p, j \in Nat : j = n + k - 1 => Requested[k] = buf[RX][At(RX, j)]
      /\ pc \in Reading => Requested # << >>
  BY ShapeHolds DEF Shape
<1>2. /\ Requested' \in Seq(Msgs) /\ Len(Requested') = Lent(RX)' /\ Len(Requested') <= N
      /\ \A k \in 1 .. Lent(RX)', j \in Nat :
           j = Unread(RX)' + k - 1 => Requested'[k] = buf'[RX][At(RX, j)']
  BY ShapeThen DEF Shape
<1>3. n \in Nat /\ t \in Nat /\ t = n + p /\ p \in Nat /\ N \in Nat
  BY <1>0, Counts, Sizes
<1>4. \A j, k \in 0 .. t - 1 : /\ At(RX, j) \in Desc \ HostKeeps(RX)
                               /\ At(RX, j) = At(RX, k) => j = k
  BY <1>0, Places
<1> HIDE DEF n, p, t
<1>5. CASE Still(RX) /\ buf'[RX] = buf[RX] /\ ~ReturnBuffer
  <2>1. /\ Unread(RX)' = n /\ Lent(RX)' = p
        /\ \A k \in 0 .. t - 1 : At(RX, k)' = At(RX, k)
    BY <1>0, <1>5, StillAt DEF n, p, t
  <2>2. ASSUME NEW k \in 1 .. p PROVE Requested'[k] = Requested[k]
    <3>1. PICK j \in 0 .. t - 1 : j = n + k - 1
      BY <1>3
    <3>2. Requested'[k] = buf'[RX][At(RX, j)'] /\ Requested[k] = buf[RX][At(RX, j)]
      BY <1>1, <1>2, <2>1, <3>1
    <3> QED BY <1>5, <2>1, <3>2
  <2>3. Requested' = Requested
    BY <1>1, <1>2, <2>1, <2>2, SeqEqual
  <2> QED BY <1>5, <2>3
<1>6. CASE ReturnBuffer /\ Gives(RX)
  <2>0. p # 0
    <3>1. pc \in Reading
      BY <1>6 DEF ReturnBuffer, Reading
    <3> QED BY <1>1, <3>1
  <2>1. /\ Unread(RX)' = n + 1 /\ Lent(RX)' = p - 1
        /\ \A k \in 0 .. t - 1 : At(RX, k)' = At(RX, k)
    BY <1>0, <1>6, <2>0, GivesAt DEF n, p, t
  <2>2. buf'[RX] = [buf[RX] EXCEPT ![At(RX, n)] = NoMsg]
    <3>1. buf' = [buf EXCEPT ![RX][NextDesc(RX)] = NoMsg]
      BY <1>6 DEF ReturnBuffer
    <3>2. NextDesc(RX) = At(RX, n)
      BY <1>0, NextIsAt DEF n
    <3> QED BY <3>1, <3>2, <1>0 DEF TypeRings
  <2>3. ASSUME NEW k \in 1 .. p - 1 PROVE Requested'[k] = Requested[k + 1]
    <3>0. PICK j \in 0 .. t - 1 : j = n + k
      BY <1>3
    <3>1. /\ n \in 0 .. t - 1 /\ j # n /\ k + 1 \in 1 .. p
          /\ j = (n + 1) + k - 1 /\ j = n + (k + 1) - 1
      BY <1>3, <3>0
    <3>2. At(RX, j)' = At(RX, j) /\ At(RX, j) # At(RX, n) /\ At(RX, j) \in Desc
      BY <1>4, <2>1, <3>1
    <3>4. buf'[RX][At(RX, j)] = buf[RX][At(RX, j)]
      BY <1>0, <2>2, <3>2
    <3>5. Requested'[k] = buf'[RX][At(RX, j)']
      BY <1>2, <2>1, <3>1
    <3>6. Requested[k + 1] = buf[RX][At(RX, j)]
      BY <1>1, <3>1
    <3>7. Requested'[k] = Requested[k + 1]
      BY <3>2, <3>4, <3>5, <3>6
    <3> QED BY <3>7
  <2>4. Len(Requested) = Len(Requested') + 1 /\ Len(Requested') = p - 1
    BY <1>1, <1>2, <1>3, <2>0, <2>1
  <2>5. Requested # << >> /\ Requested' = Tail(Requested)
    BY <1>1, <1>2, <2>3, <2>4, ShorterByOne
  <2> QED BY <1>6, <2>5
<1>7. ASSUME NEW m \in Msgs, NEW d \in Desc, HostSend(m), Lends(RX, d) \/ Turns(RX, d),
             buf'[RX] = [buf[RX] EXCEPT ![d] = m]
      PROVE  HostSend(m) /\ Requested' = Append(Requested, m) /\ Len(Requested) < N
  <2>1. /\ Lent(RX)' = p + 1
        /\ \A k \in 1 .. p, j \in Nat, i \in Nat :
             j = Unread(RX)' + k - 1 /\ i = n + k - 1
               => At(RX, j)' = At(RX, i) /\ At(RX, i) # d /\ At(RX, i) \in Desc
        /\ \E j \in Nat : j = Unread(RX)' + (p + 1) - 1 /\ At(RX, j)' = d
    <3>1. CASE Lends(RX, d)
      <4>1. /\ All(RX)' = t + 1 /\ Unread(RX)' = n /\ Lent(RX)' = p + 1 /\ Newest(RX)' = d
            /\ \A k \in 0 .. t - 1 : At(RX, k)' = At(RX, k)
        BY <1>0, <3>1, LendsAt DEF t, n, p
      <4>2. ASSUME NEW k \in 1 .. p, NEW j \in Nat, j = n + k - 1
            PROVE  At(RX, j)' = At(RX, j) /\ At(RX, j) # d /\ At(RX, j) \in Desc
        <5>1. j \in 0 .. t - 1
          BY <1>3, <4>2
        <5>2. d \in HostKeeps(RX)
          BY <3>1 DEF Lends
        <5> QED BY <1>4, <4>1, <5>1, <5>2
      <4>3. PICK j \in Nat : j = t
        BY <1>3
      <4>4. j = n + (p + 1) - 1 /\ All(RX)' - 1 = j
        BY <1>3, <4>1, <4>3
      <4>5. At(RX, j)' = d
        BY <4>1, <4>4 DEF Newest, At
      <4> QED BY <4>1, <4>2, <4>4, <4>5
    <3>2. CASE Turns(RX, d)
      <4>1. /\ All(RX)' = t /\ t > 0 /\ Unread(RX)' = n - 1 /\ Lent(RX)' = p + 1
            /\ Newest(RX)' = d /\ At(RX, 0) = d
            /\ \A k \in 0 .. t - 2 : At(RX, k)' = At(RX, k + 1)
        BY <1>0, <3>2, TurnsAt DEF t, n, p
      <4>0. n >= 1
        <5>1. Unread(RX)' \in Nat
          <6>1. used'[RX].idx \in Index /\ seen'[RX] \in Index
            BY <1>0 DEF TypeRings, UsedType
          <6> QED BY <6>1, IndexFacts DEF Unread
        <5> QED BY <5>1, <4>1, <1>3
      <4>2. ASSUME NEW k \in 1 .. p, NEW j \in Nat, NEW i \in Nat,
                   j = (n - 1) + k - 1, i = n + k - 1
            PROVE  At(RX, j)' = At(RX, i) /\ At(RX, i) # d /\ At(RX, i) \in Desc
        <5>1. /\ j \in 0 .. t - 2 /\ j + 1 = i
              /\ i \in 0 .. t - 1 /\ 0 \in 0 .. t - 1 /\ i # 0
          BY <1>3, <4>0, <4>2
        <5>2. At(RX, j)' = At(RX, i)
          BY <4>1, <5>1
        <5>3. At(RX, i) # At(RX, 0) /\ At(RX, i) \in Desc
          BY <1>4, <5>1
        <5> QED BY <4>1, <5>2, <5>3
      <4>3. PICK j \in Nat : j = t - 1
        BY <1>3, <4>1
      <4>4. j = (n - 1) + (p + 1) - 1 /\ All(RX)' - 1 = j
        BY <1>3, <4>1, <4>3
      <4>5. At(RX, j)' = d
        BY <4>1, <4>4 DEF Newest, At
      <4> QED BY <4>1, <4>2, <4>4, <4>5
    <3> QED BY <1>7, <3>1, <3>2
  <2>a. Unread(RX)' \in Nat
    <3>1. used'[RX].idx \in Index /\ seen'[RX] \in Index
      BY <1>0 DEF TypeRings, UsedType
    <3> QED BY <3>1, IndexFacts DEF Unread
  <2>2. ASSUME NEW k \in 1 .. p PROVE Requested'[k] = Requested[k]
    <3>0. PICK i \in Nat : i = n + k - 1
      BY <1>3
    <3>1. PICK j \in Nat : j = Unread(RX)' + k - 1
      BY <2>a
    <3>2. k \in 1 .. p + 1
      BY <1>3
    <3>3. Requested'[k] = buf'[RX][At(RX, j)']
      BY <1>2, <2>1, <3>1, <3>2
    <3>4. At(RX, j)' = At(RX, i) /\ At(RX, i) # d /\ At(RX, i) \in Desc
      BY <2>1, <3>0, <3>1
    <3>5. buf'[RX][At(RX, i)] = buf[RX][At(RX, i)]
      BY <1>0, <1>7, <3>4
    <3>6. Requested[k] = buf[RX][At(RX, i)]
      BY <1>1, <3>0
    <3> QED BY <3>3, <3>4, <3>5, <3>6
  <2>3. Requested'[p + 1] = m
    <3>1. p + 1 \in 1 .. p + 1
      BY <1>3
    <3>2. PICK j \in Nat : j = Unread(RX)' + (p + 1) - 1 /\ At(RX, j)' = d
      BY <2>1
    <3>3. Requested'[p + 1] = buf'[RX][At(RX, j)']
      BY <1>2, <2>1, <3>1, <3>2
    <3> QED BY <1>0, <1>7, <3>2, <3>3
  <2>4. Len(Requested') = Len(Requested) + 1
    BY <1>1, <1>2, <2>1
  <2>5. Requested' = Append(Requested, Requested'[p + 1])
    BY <1>1, <1>2, <2>2, <2>4, LongerByOne
  <2>6. Len(Requested) < N
    BY <1>1, <1>2, <1>3, <2>4
  <2> QED BY <1>7, <2>3, <2>5, <2>6
<1> QED BY <1>0, <1>5, <1>6, <1>7, RxMoves

(* The oldest request stays what it is until its buffer is returned. *)
LEMMA OldestStays ==
  ASSUME RpmsgInv, RpmsgInv', [Next]_vars, ~ReturnBuffer, Requested # << >>
  PROVE  Requested' # << >> /\ AskedAt(0)' = AskedAt(0)
<1>1. Requested \in Seq(Msgs) /\ AskedAt(0) = Requested[1]
  BY ShapeHolds DEF Shape
<1>2. Requested' # << >> => AskedAt(0)' = Requested'[1]
  BY ShapeThen DEF Shape
<1>3. ASSUME NEW m \in Msgs, Requested' = Append(Requested, m)
      PROVE  Requested' # << >> /\ Requested'[1] = Requested[1]
  <2>1. Len(Requested) \in Nat /\ Len(Requested) > 0
    BY <1>1, EmptySeq
  <2> DEFINE r == Requested
  <2>2. r \in Seq(Msgs) /\ Len(r) > 0
    BY <1>1, <2>1
  <2> HIDE DEF r
  <2>3. Append(r, m) # << >> /\ Append(r, m)[1] = r[1]
    BY <2>2
  <2> QED BY <1>3, <2>3 DEF r
<1> QED BY <1>1, <1>2, <1>3, RequestedMoves

(* Where the firmware puts a message, or moves to where it has put one.     *)
Fills(x) ==
  /\ ~Filling /\ Lent(TX) # 0
  /\ buf'[TX] = [buf[TX] EXCEPT ![At(TX, Unread(TX))] = x]
  /\ \/ pc' = "announced" /\ x = Announcement
     \/ pc' = "filled" /\ pc \in Reading /\ x = AskedAt(0)

(* Nothing else writes a reply buffer.                                      *)
LEMMA FillMoves ==
  ASSUME RpmsgInv, [Next]_vars, Still(TX), ~HostReceive
  PROVE  \/ buf'[TX] = buf[TX] /\ (Filling' => Filling /\ pc' = pc)
         \/ \E x : Fills(x)
<1>0. /\ TypeRings /\ PlaceInv /\ TX \in Rings /\ RX \in Rings /\ TX # RX
      /\ RingsRound /\ RoundOf(TX)
      /\ buf \in [Rings -> [Desc -> Texts]]
  BY TypeParts, RingNames DEF RpmsgInv, RingsRound, RoundOf, TypeRings, Texts
<1>1. Waiting(TX) = Pending(TX) /\ Pending(TX) \in Nat /\ (~Filling => Lent(TX) = Pending(TX))
  BY <1>0, NoRingError, BaseFacts
<1>2. CASE Announce
  <2>0. ~Filling
    BY <1>2 DEF Announce, Filling
  <2>1. CASE Waiting(TX) = 0
    <3>1. buf' = buf /\ ~Filling'
      BY <1>2, <2>1 DEF Announce, Filling
    <3> QED BY <3>1
  <2>2. CASE Waiting(TX) # 0
    <3>1. buf' = [buf EXCEPT ![TX][NextDesc(TX)] = Announcement] /\ pc' = "announced"
      BY <1>2, <2>2 DEF Announce
    <3>2. buf'[TX] = [buf[TX] EXCEPT ![NextDesc(TX)] = Announcement]
      BY <1>0, <3>1
    <3>3. NextDesc(TX) = At(TX, Unread(TX))
      BY <1>0, <2>0, FillsAt
    <3>4. Fills(Announcement)
      BY <1>1, <2>0, <2>2, <3>1, <3>2, <3>3 DEF Fills
    <3> QED BY <3>4
  <2> QED BY <2>1, <2>2
<1>3. CASE ReplyFill
  <2>0. ~Filling /\ pc \in Reading /\ pc = "fill"
    BY <1>3 DEF ReplyFill, Filling, Reading, InReply
  <2>1. NextDesc(TX) \in Desc /\ NextDesc(TX) = At(TX, Unread(TX))
    BY <1>0, <2>0, DescTypes, FillsAt
  <2>2. buf' = [buf EXCEPT ![TX][NextDesc(TX)] = buf[RX][NextDesc(RX)]] /\ pc' = "filled"
    BY <1>3, <2>1 DEF ReplyFill
  <2>3. buf'[TX] = [buf[TX] EXCEPT ![NextDesc(TX)] = buf[RX][NextDesc(RX)]]
    BY <1>0, <2>2
  <2>4. AskedAt(0) = buf[RX][NextDesc(RX)]
    BY ShapeHolds DEF Shape
  <2>5. Pending(TX) # 0
    BY <1>0, <1>1, <2>0 DEF PlaceInv
  <2>6. Fills(AskedAt(0))
    BY <1>1, <2>0, <2>1, <2>2, <2>3, <2>4, <2>5 DEF Fills
  <2> QED BY <2>6
<1>4. CASE ~Announce /\ ~ReplyFill
  <2>1. Filling' => Filling /\ pc' = pc
    <3>1. CASE UNCHANGED <<pc, pending, ready, used>>
      BY <3>1 DEF Filling
    <3>2. CASE Firmware
      BY <3>2, <1>4 DEF Firmware, Poll, Reply, Filling, AfterPoll,
             LookAgain, WhenDone, Wake, IsDriverReady, AnnounceBell, AnnouncePublish,
             DrainDoorbells, CheckAvail, Suppress, Take, ReturnBuffer, Recheck, PollBell,
             ReplyCheck, ReplyOpen, ReplyWaitBell, ReplyWaitDrain, ReplyBell,
             ReplyPublish, KickOn, Unmask
    <3> QED BY <3>1, <3>2, PcFrame
  <2>2. buf'[TX] = buf[TX]
    <3>1. CASE ReturnBuffer
      <4>1. buf' = [buf EXCEPT ![RX][NextDesc(RX)] = NoMsg]
        BY <3>1 DEF ReturnBuffer
      <4> QED BY <4>1, <1>0
    <3>2. ASSUME NEW m \in Msgs, HostSend(m) PROVE buf'[TX] = buf[TX]
      <4>1. PICK d \in Desc : buf' = [buf EXCEPT ![RX][d] = m]
        BY <3>2 DEF HostSend
      <4> QED BY <4>1, <1>0
    <3> QED BY <3>1, <3>2, <1>4, BufFrame
  <2> QED BY <2>1, <2>2
<1> QED BY <1>2, <1>3, <1>4

(* Replies are added at the end and taken from the front, and the buffer    *)
(* that is being filled keeps its content.                                  *)
LEMMA RepliesMoves ==
  ASSUME RpmsgInv, RpmsgInv', [Next]_vars
  PROVE  /\ \/ Replies' = Replies /\ ~AnnouncePublish /\ ~ReplyPublish /\ ~HostReceive
            \/ /\ AnnouncePublish \/ ReplyPublish
               /\ Replies' = Append(Replies, buf[TX][Filled])
            \/ HostReceive /\ Replies # << >> /\ Replies' = Tail(Replies)
         /\ Filling' => \/ /\ Filling /\ pc' = pc
                           /\ buf'[TX][Filled'] = buf[TX][Filled]
                        \/ pc' = "announced" /\ buf'[TX][Filled'] = Announcement
                        \/ /\ pc' = "filled" /\ pc \in Reading /\ ~ReturnBuffer
                           /\ buf'[TX][Filled'] = AskedAt(0)
<1> DEFINE n == Unread(TX)   p == Lent(TX)   t == All(TX)   R == Replies'
<1>0. /\ TypeRings /\ TypeRings' /\ TypeFlags /\ PlaceInv /\ TX \in Rings /\ RoundOf(TX)
      /\ buf[TX] \in [Desc -> Texts]
  BY TypeParts, TypeRingsStep, RingNames DEF RpmsgInv, RingsRound, RoundOf, TypeRings, Texts
<1>1. /\ Replies \in Seq(Texts) /\ Len(Replies) = n
      /\ \A k \in 1 .. n : Replies[k] = buf[TX][At(TX, k - 1)]
      /\ Filling => Filled = At(TX, n) /\ p # 0
  BY ShapeHolds DEF Shape
<1>2. /\ R \in Seq(Texts) /\ Len(R) = Unread(TX)'
      /\ \A k \in 1 .. Unread(TX)' : R[k] = buf'[TX][At(TX, k - 1)']
      /\ \A j \in Nat : Filling' /\ j = Unread(TX)' => Filled' = At(TX, j)'
  <2>1. Filling' => Filled' = At(TX, Unread(TX))'
    BY ShapeThen DEF Shape
  <2>2. \A j \in Nat : j = Unread(TX)' => At(TX, Unread(TX))' = At(TX, j)'
    BY DEF At
  <2>3. /\ R \in Seq(Texts) /\ Len(R) = Unread(TX)'
        /\ \A k \in 1 .. Unread(TX)' : R[k] = buf'[TX][At(TX, k - 1)']
    BY ShapeThen DEF Shape, Texts
  <2> HIDE DEF R
  <2> QED BY <2>1, <2>2, <2>3
<1>3. n \in Nat /\ t \in Nat /\ t = n + p /\ p \in Nat
  BY <1>0, Counts
<1>4. \A j, k \in 0 .. t - 1 : At(TX, j) \in Desc /\ (At(TX, j) = At(TX, k) => j = k)
  BY <1>0, Places
<1>5. PICK m \in Nat : m = n
  BY <1>3
<1> HIDE DEF n, p, t, R
<1>6. CASE Still(TX) /\ ~AnnouncePublish /\ ~ReplyPublish /\ ~HostReceive
  <2>1. /\ Unread(TX)' = n
        /\ \A k \in 0 .. t - 1 : At(TX, k)' = At(TX, k)
    BY <1>0, <1>6, StillAt DEF n, t
  <2>2. ASSUME \A k \in 1 .. n : buf'[TX][At(TX, k - 1)] = buf[TX][At(TX, k - 1)]
        PROVE  R = Replies
    <3>1. ASSUME NEW k \in 1 .. n PROVE R[k] = Replies[k]
      <4>1. PICK j \in 0 .. t - 1 : j = k - 1
        BY <1>3
      <4>2. R[k] = buf'[TX][At(TX, j)'] /\ Replies[k] = buf[TX][At(TX, j)]
        BY <1>1, <1>2, <2>1, <4>1
      <4> QED BY <2>1, <2>2, <4>1, <4>2
    <3>2. Len(R) = Len(Replies) /\ Len(Replies) = n
      BY <1>1, <1>2, <2>1
    <3> QED BY <1>1, <1>2, <3>1, <3>2, SeqEqual
  <2>3. CASE buf'[TX] = buf[TX] /\ (Filling' => Filling /\ pc' = pc)
    <3>1. R = Replies
      BY <2>2, <2>3
    <3>2. ASSUME Filling' PROVE buf'[TX][Filled'] = buf[TX][Filled]
      <4>1. Filling /\ p # 0 /\ Filled = At(TX, n)
        BY <1>1, <2>3, <3>2
      <4>2. m \in 0 .. t - 1
        BY <1>3, <1>5, <4>1
      <4>3. Filled' = At(TX, m)'
        BY <1>2, <1>5, <2>1, <3>2
      <4>4. At(TX, m)' = At(TX, m)
        BY <2>1, <4>2
      <4> QED BY <1>5, <2>3, <4>1, <4>3, <4>4
    <3> QED BY <1>6, <2>3, <3>1, <3>2 DEF R
  <2>4. ASSUME NEW x, Fills(x)
        PROVE  /\ R = Replies
               /\ Filling' => \/ pc' = "announced" /\ buf'[TX][Filled'] = Announcement
                              \/ /\ pc' = "filled" /\ pc \in Reading /\ ~ReturnBuffer
                                 /\ buf'[TX][Filled'] = AskedAt(0)
    <3>1. /\ p # 0 /\ buf'[TX] = [buf[TX] EXCEPT ![At(TX, n)] = x]
          /\ \/ pc' = "announced" /\ x = Announcement
             \/ pc' = "filled" /\ pc \in Reading /\ x = AskedAt(0)
      BY <2>4 DEF Fills, p, n
    <3>2. m \in 0 .. t - 1 /\ At(TX, m) \in Desc
      BY <1>3, <1>4, <1>5, <3>1
    <3>3. ASSUME NEW k \in 1 .. n
          PROVE  buf'[TX][At(TX, k - 1)] = buf[TX][At(TX, k - 1)]
      <4>1. k - 1 \in 0 .. t - 1 /\ k - 1 # m
        BY <1>3, <1>5
      <4>2. At(TX, k - 1) # At(TX, m) /\ At(TX, k - 1) \in Desc
        BY <1>4, <3>2, <4>1
      <4> QED BY <1>0, <1>5, <3>1, <4>2
    <3>4. R = Replies
      BY <2>2, <3>3
    <3>5. ASSUME Filling' PROVE buf'[TX][Filled'] = x
      <4>1. Filled' = At(TX, m)'
        BY <1>2, <1>5, <2>1, <3>5
      <4>2. At(TX, m)' = At(TX, m)
        BY <2>1, <3>2
      <4> QED BY <1>0, <1>5, <3>1, <3>2, <4>1, <4>2
    <3>6. pc' = "filled" => ~ReturnBuffer
      BY DEF ReturnBuffer
    <3> QED BY <3>1, <3>4, <3>5, <3>6
  <2>5. (buf'[TX] = buf[TX] /\ (Filling' => Filling /\ pc' = pc)) \/ \E x : Fills(x)
    BY <1>6, FillMoves
  <2> QED BY <1>6, <2>3, <2>4, <2>5 DEF R
<1>7. CASE (AnnouncePublish \/ ReplyPublish) /\ Gives(TX)
  <2>1. Filling /\ ~Filling' /\ buf' = buf
    BY <1>7 DEF AnnouncePublish, ReplyPublish, Filling
  <2>2. p # 0 /\ Filled = At(TX, n)
    BY <1>1, <2>1
  <2>3. /\ Unread(TX)' = n + 1
        /\ \A k \in 0 .. t - 1 : At(TX, k)' = At(TX, k)
    BY <1>0, <1>7, <2>2, GivesAt DEF n, p, t
  <2>4. ASSUME NEW k \in 1 .. n + 1 PROVE R[k] = buf[TX][At(TX, k - 1)]
    <3>1. PICK j \in 0 .. t - 1 : j = k - 1
      BY <1>3, <2>2
    <3>2. R[k] = buf'[TX][At(TX, j)']
      BY <1>2, <2>3, <3>1
    <3> QED BY <2>1, <2>3, <3>1, <3>2
  <2>5. Len(R) = Len(Replies) + 1 /\ \A k \in 1 .. Len(Replies) : R[k] = Replies[k]
    <3>1. \A k \in 1 .. n : k \in 1 .. n + 1
      BY <1>3
    <3> QED BY <1>1, <1>2, <1>3, <2>3, <2>4, <3>1
  <2>6. R = Append(Replies, R[n + 1])
    BY <1>1, <1>2, <2>5, LongerByOne
  <2>7. R[n + 1] = buf[TX][Filled]
    <3>1. n + 1 \in 1 .. n + 1 /\ (n + 1) - 1 = n
      BY <1>3
    <3> QED BY <2>2, <2>4, <3>1
  <2> QED BY <1>7, <2>1, <2>6, <2>7 DEF R
<1>8. ASSUME HostReceive, NEW d \in Desc, Turns(TX, d),
             buf'[TX] = [buf[TX] EXCEPT ![d] = NoMsg]
      PROVE  /\ Replies # << >> /\ R = Tail(Replies)
             /\ Filling' => Filling /\ pc' = pc /\ buf'[TX][Filled'] = buf[TX][Filled]
  <2>1. /\ t > 0 /\ Unread(TX)' = n - 1 /\ At(TX, 0) = d
        /\ \A k \in 0 .. t - 2 : At(TX, k)' = At(TX, k + 1)
    BY <1>0, <1>8, TurnsAt DEF n, t
  <2>2. Unread(TX)' \in Nat
    <3>1. used'[TX].idx \in Index /\ seen'[TX] \in Index
      BY <1>0 DEF TypeRings, UsedType
    <3> QED BY <3>1, IndexFacts DEF Unread
  <2>3. n >= 1
    BY <1>3, <2>1, <2>2
  <2>4. ASSUME NEW j \in 0 .. t - 2
        PROVE  buf'[TX][At(TX, j)'] = buf[TX][At(TX, j + 1)]
    <3>1. j + 1 \in 0 .. t - 1 /\ 0 \in 0 .. t - 1 /\ j + 1 # 0
      BY <1>3, <2>1
    <3>2. At(TX, j + 1) # d /\ At(TX, j + 1) \in Desc
      BY <1>4, <2>1, <3>1
    <3> QED BY <1>0, <1>8, <2>1, <3>2
  <2>5. ASSUME NEW k \in 1 .. n - 1 PROVE R[k] = Replies[k + 1]
    <3>1. PICK j \in 0 .. t - 2 : j = k - 1
      BY <1>3, <2>3
    <3>2. R[k] = buf'[TX][At(TX, j)']
      BY <1>2, <2>1, <3>1
    <3>3. k + 1 \in 1 .. n /\ (k + 1) - 1 = j + 1
      BY <1>3, <3>1
    <3> QED BY <1>1, <2>4, <3>2, <3>3
  <2>6. Len(Replies) = Len(R) + 1 /\ Len(R) = n - 1
    BY <1>1, <1>2, <1>3, <2>1
  <2>7. Replies # << >> /\ R = Tail(Replies)
    BY <1>1, <1>2, <2>5, <2>6, ShorterByOne
  <2>8. pc' = pc
    BY <1>8 DEF HostReceive, device
  <2>9. ASSUME Filling' PROVE Filling /\ buf'[TX][Filled'] = buf[TX][Filled]
    <3>1. Filling /\ p # 0 /\ Filled = At(TX, n)
      BY <1>1, <2>8, <2>9 DEF Filling
    <3>2. PICK j \in 0 .. t - 2 : j = n - 1
      BY <1>3, <2>3, <3>1
    <3>3. Filled' = At(TX, j)' /\ j + 1 = n
      BY <1>2, <1>3, <2>1, <2>9, <3>2
    <3> QED BY <2>4, <3>1, <3>2, <3>3
  <2> QED BY <2>7, <2>8, <2>9
<1>9. CASE HostProbe
  <2>1. Unread(TX)' = 0 /\ ~Filling'
    BY <1>0, <1>9, ProbeAt
  <2>2. n = 0
    <3>1. used[TX].idx = 0 /\ seen[TX] = 0
      BY <1>0, <1>9 DEF HostProbe, PlaceInv
    <3> QED BY <3>1, Sizes DEF n, Unread, Ahead
  <2>3. R = Replies
    BY <1>1, <1>2, <2>1, <2>2, EmptySeq
  <2>4. ~AnnouncePublish /\ ~ReplyPublish /\ ~HostReceive
    BY <1>0, <1>9 DEF HostProbe, AnnouncePublish, ReplyPublish, HostReceive, device, PlaceInv,
           Serving, InPoll, InReply, shared
  <2> QED BY <2>1, <2>3, <2>4 DEF R
<1> QED BY <1>0, <1>6, <1>7, <1>8, <1>9, TxMoves DEF R
-----------------------------------------------------------------------------
(* The firmware implements the echo service *)

(* What the firmware copies is the oldest request, or its announcement.     *)
CopyInv ==
  /\ pc = "filled" => buf[TX][Filled] = AskedAt(0)
  /\ pc = "announced" => buf[TX][Filled] = Announcement

(* It holds at the start ...                                                *)
LEMMA CopyInvInit == Init => CopyInv
BY DEF Init, CopyInv

(* ... and after every step: the request copied is still the oldest one.    *)
LEMMA CopyInvStep ==
  RpmsgInv /\ RpmsgInv' /\ CopyInv /\ [Next]_vars => CopyInv'
<1> SUFFICES ASSUME RpmsgInv, RpmsgInv', CopyInv, [Next]_vars PROVE CopyInv'
  OBVIOUS
<1>1. pc \in Reading => Requested # << >>
  BY ShapeHolds DEF Shape
<1>2. ASSUME Filling' PROVE CopyInv'
  <2>1. CASE Filling /\ pc' = pc /\ buf'[TX][Filled'] = buf[TX][Filled]
    <3>1. CASE pc = "filled"
      <4>1. Requested # << >> /\ ~ReturnBuffer
        BY <1>1, <3>1 DEF Reading, InReply, ReturnBuffer
      <4>2. AskedAt(0)' = AskedAt(0)
        BY <4>1, OldestStays
      <4> QED BY <2>1, <3>1, <4>2 DEF CopyInv
    <3>2. CASE pc = "announced"
      BY <2>1, <3>2 DEF CopyInv
    <3> QED BY <2>1, <3>1, <3>2 DEF Filling
  <2>2. CASE pc' = "announced" /\ buf'[TX][Filled'] = Announcement
    BY <2>2 DEF CopyInv
  <2>3. CASE /\ pc' = "filled" /\ pc \in Reading /\ ~ReturnBuffer
             /\ buf'[TX][Filled'] = AskedAt(0)
    <3>1. AskedAt(0)' = AskedAt(0)
      BY <1>1, <2>3, OldestStays
    <3> QED BY <2>3, <3>1 DEF CopyInv
  <2> QED BY <1>2, <2>1, <2>2, <2>3, RepliesMoves
<1>3. CASE ~Filling'
  BY <1>3 DEF Filling, CopyInv
<1> QED BY <1>2, <1>3

(* When a request becomes answered, and when its answer is behind it.       *)
LEMMA AnsweredMoves ==
  ASSUME RpmsgInv, [Next]_vars
  PROVE  \/ Answered' = Answered /\ ~ReplyPublish /\ ~ReturnBuffer
         \/ ReplyPublish /\ ~Answered /\ Answered'
         \/ ReturnBuffer /\ Answered /\ ~Answered'
         \/ Take /\ ~Answered /\ AskedAt(0) \in Malformed
<1>0. TypeRings /\ TypeFlags /\ PlaceInv /\ RingsRound /\ RX \in Rings /\ TX \in Rings
  BY TypeParts, RingNames DEF RpmsgInv
<1>1. AskedAt(0) = buf[RX][NextDesc(RX)] /\ NextDesc(RX) \in Desc /\ NextDesc(TX) \in Desc
      /\ ~RingError(TX)
  BY <1>0, ShapeHolds, DescTypes, NoRingError DEF Shape
<1>2. CASE ReplyPublish
  BY <1>2 DEF ReplyPublish, Answered
<1>3. CASE ReturnBuffer
  BY <1>3 DEF ReturnBuffer, Answered
<1>4. CASE Take
  BY <1>1, <1>4 DEF Take, Answered, ReplyPublish, ReturnBuffer
<1>5. CASE ~ReplyPublish /\ ~ReturnBuffer /\ ~Take
  <2>1. CASE UNCHANGED <<pc, pending, ready, used>>
    BY <1>5, <2>1 DEF Answered
  <2>2. CASE Firmware
    BY <1>1, <1>5, <2>2 DEF Firmware, Poll, Reply, Answered, AfterPoll,
           LookAgain, WhenDone, Wake, IsDriverReady, Announce, AnnounceBell,
           AnnouncePublish, DrainDoorbells, CheckAvail, Suppress, Recheck, PollBell,
           ReplyCheck, ReplyOpen, ReplyWaitBell, ReplyWaitDrain, ReplyFill, ReplyBell,
           KickOn, Unmask
  <2> QED BY <2>1, <2>2, PcFrame
<1> QED BY <1>2, <1>3, <1>4, <1>5

(* A message added at the end, and the first one taken. *)
LEMMA TailAppend ==
  ASSUME NEW S, NEW s \in Seq(S), s # << >>, NEW x \in S
  PROVE  Tail(Append(s, x)) = Append(Tail(s), x) /\ Len(Tail(s)) < Len(s)
<1> DEFINE n == Len(s)   t == Append(s, x)   r == Tail(s)
<1>1. n \in Nat /\ n > 0 /\ r \in Seq(S) /\ Len(r) = n - 1
      /\ \A k \in 1 .. n - 1 : r[k] = s[k + 1]
  BY HeadTailProperties, EmptySeq
<1>2. t \in Seq(S) /\ Len(t) = n + 1 /\ t[n + 1] = x /\ \A k \in 1 .. n : t[k] = s[k]
  BY <1>1
<1>3. t # << >>
  BY <1>1, <1>2, EmptySeq
<1> HIDE DEF n, t, r
<1>4. Tail(t) \in Seq(S) /\ Len(Tail(t)) = n /\ \A k \in 1 .. n : Tail(t)[k] = t[k + 1]
  BY <1>1, <1>2, <1>3
<1>5. Append(r, x) \in Seq(S) /\ Len(Append(r, x)) = n /\ Append(r, x)[n] = x
      /\ \A k \in 1 .. n - 1 : Append(r, x)[k] = r[k]
  BY <1>1
<1>6. ASSUME NEW k \in 1 .. n PROVE Tail(t)[k] = Append(r, x)[k]
  <2>1. CASE k = n
    BY <1>1, <1>2, <1>4, <1>5, <2>1
  <2>2. CASE k # n
    <3>1. k \in 1 .. n - 1 /\ k + 1 \in 1 .. n
      BY <1>1, <2>2
    <3> QED BY <1>1, <1>2, <1>4, <1>5, <3>1
  <2> QED BY <2>1, <2>2
<1>7. Tail(t) = Append(r, x)
  BY <1>4, <1>5, <1>6, SeqEqual
<1> QED BY <1>1, <1>7 DEF n, t, r

(* Open requests are added at the end and leave when they are answered; a   *)
(* malformed one leaves when its buffer is returned.                        *)
LEMMA OpenMoves ==
  ASSUME RpmsgInv, RpmsgInv', [Next]_vars
  PROVE  \/ Open' = Open /\ ~ReplyPublish
         \/ /\ ReplyPublish /\ Open # << >> /\ Open' = Tail(Open)
            /\ Head(Open) = AskedAt(0) /\ WellFormed(Head(Open))
         \/ /\ ReturnBuffer /\ Open # << >> /\ Open' = Tail(Open)
            /\ ~WellFormed(Head(Open))
         \/ \E m \in Msgs : HostSend(m) /\ Open' = Append(Open, m) /\ Len(Open) < N
<1>1. /\ Requested \in Seq(Msgs) /\ (Requested # << >> => AskedAt(0) = Requested[1])
      /\ (pc \in Reading => Requested # << >>)
      /\ AskedAt(0) = buf[RX][NextDesc(RX)]
  BY ShapeHolds DEF Shape
<1>2. Answered => Requested # << >>
  BY <1>1 DEF Answered, Reading, InReply
<1>3. Requested # << >> => Head(Requested) = AskedAt(0) /\ AskedAt(0) \in Msgs
  <2> SUFFICES ASSUME Requested # << >>
               PROVE  Head(Requested) = AskedAt(0) /\ AskedAt(0) \in Msgs
    OBVIOUS
  <2> DEFINE s == Requested
  <2>1. s \in Seq(Msgs) /\ s # << >>
    BY <1>1
  <2> HIDE DEF s
  <2>2. Head(s) = s[1] /\ s[1] \in Msgs
    BY <2>1
  <2> QED BY <1>1, <2>2 DEF s
<1>4. CASE ReplyPublish
  <2>1. /\ pc = "filled" /\ pc' = "repbell" /\ ~Answered /\ Answered' /\ ~ReturnBuffer
        /\ pc \in Reading
    BY <1>4 DEF ReplyPublish, Answered, ReturnBuffer, Reading, InReply
  <2>2. Requested' = Requested
    <3>1. \A m \in Msgs : ~HostSend(m)
      BY <2>1 DEF HostSend, device
    <3> QED BY <2>1, <3>1, RequestedMoves
  <2>3. AskedAt(0) \notin Malformed /\ Requested # << >> /\ AskedAt(0)' = AskedAt(0)
    <3>1. ContentInv
      BY DEF RpmsgInv
    <3> QED BY <1>1, <2>1, <3>1, OldestStays DEF ContentInv, InReply
  <2>4. Open = Requested /\ Open' = Tail(Requested)
    BY <2>1, <2>2, <2>3 DEF Open
  <2> QED BY <1>3, <1>4, <2>3, <2>4 DEF WellFormed
<1>5. CASE ReturnBuffer
  <2>1. Answered /\ ~Answered' /\ ~ReplyPublish
    BY <1>5 DEF ReturnBuffer, Answered, ReplyPublish
  <2>2. Requested # << >> /\ Requested' = Tail(Requested)
    <3>1. \A m \in Msgs : ~HostSend(m)
      BY <1>5, <2>1 DEF HostSend, device, Answered
    <3> QED BY <1>5, <3>1, RequestedMoves
  <2>3. Open' = Tail(Requested)
    BY <2>1, <2>2 DEF Open
  <2>4. CASE AskedAt(0) \notin Malformed
    BY <2>1, <2>3, <2>4 DEF Open
  <2>5. CASE AskedAt(0) \in Malformed
    <3>1. Open = Requested
      BY <2>5 DEF Open
    <3> QED BY <1>3, <1>5, <2>2, <2>3, <2>5, <3>1 DEF WellFormed
  <2> QED BY <2>4, <2>5
<1>6. CASE ~ReplyPublish /\ ~ReturnBuffer
  <2>1. Requested # << >> => AskedAt(0)' = AskedAt(0)
    BY <1>6, OldestStays
  <2>2. CASE Take /\ ~Answered /\ AskedAt(0) \in Malformed
    <3>1. Requested # << >> /\ \A m \in Msgs : ~HostSend(m)
      BY <1>1, <2>2 DEF Take, Reading, InReply, HostSend, device, AfterPoll, Answered
    <3>2. Requested' = Requested
      BY <1>6, <3>1, RequestedMoves
    <3> QED BY <1>6, <2>1, <2>2, <3>1, <3>2 DEF Open
  <2>3. CASE Answered' = Answered
    <3>1. CASE Requested' = Requested
      BY <1>2, <1>6, <2>1, <2>3, <3>1 DEF Open
    <3>2. ASSUME NEW m \in Msgs, HostSend(m), Requested' = Append(Requested, m),
                 Len(Requested) < N
          PROVE  Open' = Append(Open, m) /\ Len(Open) < N
      <4>1. CASE Answered /\ AskedAt(0) \notin Malformed
        <5>1. Open = Tail(Requested) /\ Open' = Tail(Append(Requested, m))
          BY <1>2, <2>1, <2>3, <3>2, <4>1 DEF Open
        <5> DEFINE s == Requested
        <5>2. s \in Seq(Msgs) /\ s # << >> /\ Len(s) < N /\ N \in Nat
          BY <1>1, <1>2, <3>2, <4>1, Sizes
        <5> HIDE DEF s
        <5>3. Tail(Append(s, m)) = Append(Tail(s), m) /\ Len(Tail(s)) < N
          BY <5>2, TailAppend
        <5> QED BY <5>1, <5>3 DEF s
      <4>2. CASE ~(Answered /\ AskedAt(0) \notin Malformed)
        <5>1. Answered => AskedAt(0)' = AskedAt(0)
          BY <1>2, <2>1
        <5>2. Open = Requested /\ Open' = Requested'
          BY <2>3, <4>2, <5>1 DEF Open
        <5> QED BY <3>2, <5>2
      <4> QED BY <4>1, <4>2
    <3> QED BY <1>6, <3>1, <3>2, RequestedMoves
  <2> QED BY <1>6, <2>2, <2>3, AnsweredMoves
<1> QED BY <1>4, <1>5, <1>6

(* Taking the first of two sequences, and adding to the second.             *)
LEMMA TailConcat ==
  ASSUME NEW S, NEW s \in Seq(S), NEW t \in Seq(S), s # << >>
  PROVE  s \o t # << >> /\ Tail(s \o t) = Tail(s) \o t
<1>1. /\ Head(s) \in S /\ Tail(s) \in Seq(S) /\ <<Head(s)>> \in Seq(S)
      /\ s = <<Head(s)>> \o Tail(s)
  BY HeadApart
<1> DEFINE x == Head(s)   r == Tail(s) \o t
<1>2. s \o t = <<x>> \o r /\ r \in Seq(S) /\ x \in S
  BY <1>1, ConcatAssociative
<1> HIDE DEF x, r
<1>3. <<x>> \o r # << >> /\ Tail(<<x>> \o r) = r
  <2> DEFINE u == <<x>> \o r
  <2>1. u \in Seq(S) /\ Len(u) = Len(r) + 1 /\ \A k \in 1 .. Len(r) : r[k] = u[k + 1]
    BY <1>2
  <2> HIDE DEF u
  <2>2. u # << >> /\ r = Tail(u)
    BY <1>2, <2>1, ShorterByOne
  <2> QED BY <2>2 DEF u
<1> QED BY <1>2, <1>3 DEF x, r

(* At the start nothing is asked for.                                       *)
LEMMA EchoStart == Init => Echo!EchoInit
<1> SUFFICES ASSUME Init PROVE Kept(Replies \o Open) = << >>
  BY DEF Echo!EchoInit
<1>1. RpmsgInv /\ ~Answered
  BY RpmsgInvInit DEF Init, Answered
<1>2. Unread(TX) = 0 /\ Pending(RX) = 0
  <2>1. 0 \in Index /\ Ahead(0, 0) = 0
    BY Sizes, IndexFacts DEF Index
  <2> QED BY <2>1, RingNames DEF Init, Unread, Pending
<1>3. Replies = << >> /\ Requested = << >>
  BY <1>2 DEF Replies, Requested
<1>4. Replies \o Open = << >>
  BY <1>1, <1>3 DEF Open
<1> QED BY <1>4, KeptEmpty

(* Every step answers the oldest request out, or adds one, or neither.      *)
LEMMA EchoStep ==
  RpmsgInv /\ RpmsgInv' /\ CopyInv /\ [Next]_vars
    => [Echo!EchoNext]_(Kept(Replies \o Open))
<1> SUFFICES ASSUME RpmsgInv, RpmsgInv', CopyInv, [Next]_vars
             PROVE  \/ Echo!EchoNext
                    \/ Kept(Replies \o Open)' = Kept(Replies \o Open)
  OBVIOUS
<1> DEFINE R == Replies   O == Open   RR == Replies'   OO == Open'
<1>1. /\ Replies \in Seq(Texts) /\ Len(Replies) <= N /\ Replies' \in Seq(Texts)
      /\ Requested \in Seq(Msgs) /\ Requested' \in Seq(Msgs)
  BY ShapeHolds, ShapeThen DEF Shape, Texts
<1>2. R \in Seq(Texts) /\ O \in Seq(Texts) /\ RR \in Seq(Texts) /\ OO \in Seq(Texts)
  <2>1. ASSUME NEW s \in Seq(Msgs) PROVE s \in Seq(Texts)
    BY DEF Texts
  <2>2. Answered => Requested # << >>
    BY ShapeHolds DEF Shape, Answered, Reading, InReply
  <2>3. Answered' => Requested' # << >>
    BY ShapeThen DEF Shape, Answered, Reading, InReply
  <2>4. O \in Seq(Msgs)
    BY <1>1, <2>2, HeadTailProperties DEF Open
  <2>5. OO \in Seq(Msgs)
    BY <1>1, <2>3, HeadTailProperties DEF Open
  <2> QED BY <1>1, <2>1, <2>4, <2>5
<1>3. Len(R) <= N
  BY <1>1
<1>4. N \in Nat
  BY Sizes
<1> HIDE DEF R, O, RR, OO
<1>5. /\ Kept(R \o O) = Kept(R) \o Kept(O) /\ Kept(RR \o OO) = Kept(RR) \o Kept(OO)
      /\ Kept(R) \in Seq(Msgs \ Malformed) /\ Kept(O) \in Seq(Msgs \ Malformed)
      /\ Len(Kept(R)) <= Len(R) /\ Len(Kept(O)) <= Len(O)
  BY <1>2, KeptConcat, KeptType
<1>6. /\ Echo!Answer <=> Kept(R \o O) # << >> /\ Kept(RR \o OO) = Tail(Kept(R \o O))
      /\ \A m : Echo!Ask(m) <=> /\ Len(Kept(R \o O)) < 2 * N
                               /\ Kept(RR \o OO) = Append(Kept(R \o O), m)
  BY DEF Echo!Answer, Echo!Ask, R, O, RR, OO
<1> SUFFICES \/ Kept(RR \o OO) = Kept(R \o O)
             \/ Kept(R \o O) # << >> /\ Kept(RR \o OO) = Tail(Kept(R \o O))
             \/ \E m \in Msgs \ Malformed : /\ Len(Kept(R \o O)) < 2 * N
                                           /\ Kept(RR \o OO) = Append(Kept(R \o O), m)
  BY <1>6 DEF Echo!EchoNext, R, O, RR, OO
<1>7. CASE HostReceive
  <2>1. R # << >> /\ RR = Tail(R)
    BY <1>7, RepliesMoves DEF R, RR, HostReceive, AnnouncePublish, ReplyPublish, device
  <2>2. OO = O
    <3>1. ~ReplyPublish /\ ~ReturnBuffer /\ \A m \in Msgs : ~HostSend(m)
      BY <1>7 DEF HostReceive, ReplyPublish, ReturnBuffer, HostSend, device
    <3> QED BY <3>1, OpenMoves DEF O, OO
  <2>3. CASE WellFormed(Head(R))
    <3>1. Kept(R) # << >> /\ Kept(RR) = Tail(Kept(R))
      BY <1>2, <2>1, <2>3, KeptTail
    <3>2. Kept(R) \o Kept(O) # << >>
          /\ Tail(Kept(R) \o Kept(O)) = Tail(Kept(R)) \o Kept(O)
      BY <1>5, <3>1, TailConcat
    <3> QED BY <1>5, <2>2, <3>1, <3>2
  <2>4. CASE ~WellFormed(Head(R))
    <3>1. Kept(RR) = Kept(R)
      BY <1>2, <2>1, <2>4, KeptTail
    <3> QED BY <1>5, <2>2, <3>1
  <2> QED BY <2>3, <2>4
<1>8. CASE AnnouncePublish
  <2>1. RR = Append(R, Announcement)
    <3>1. buf[TX][Filled] = Announcement
      BY <1>8 DEF AnnouncePublish, CopyInv
    <3>2. ~HostReceive
      BY <1>8 DEF AnnouncePublish, HostReceive, device
    <3> QED BY <1>8, <3>1, <3>2, RepliesMoves DEF R, RR
  <2>2. OO = O
    <3>1. ~ReplyPublish /\ ~ReturnBuffer /\ \A m \in Msgs : ~HostSend(m)
      BY <1>8 DEF AnnouncePublish, ReplyPublish, ReturnBuffer, HostSend, device
    <3> QED BY <3>1, OpenMoves DEF O, OO
  <2>3. Kept(RR) = Kept(R)
    <3>1. ~WellFormed(Announcement) /\ Announcement \in Texts
      BY RpmsgAssumption DEF WellFormed, Texts
    <3>2. Kept(RR) = Keep(Kept(R), Announcement)
      BY <1>2, <2>1, <3>1, KeptAppend
    <3> QED BY <3>1, <3>2 DEF Keep
  <2> QED BY <1>5, <2>2, <2>3
<1>9. CASE ReplyPublish
  <2>1. RR = Append(R, AskedAt(0))
    <3>1. buf[TX][Filled] = AskedAt(0)
      BY <1>9 DEF ReplyPublish, CopyInv
    <3>2. ~HostReceive
      BY <1>9 DEF ReplyPublish, HostReceive, device
    <3> QED BY <1>9, <3>1, <3>2, RepliesMoves DEF R, RR
  <2>2. O # << >> /\ OO = Tail(O) /\ Head(O) = AskedAt(0)
    <3>1. ~ReturnBuffer /\ \A m \in Msgs : ~HostSend(m)
      BY <1>9 DEF ReplyPublish, ReturnBuffer, HostSend, device
    <3> QED BY <1>9, <3>1, OpenMoves DEF O, OO
  <2>3. /\ O = <<Head(O)>> \o Tail(O) /\ Head(O) \in Texts
        /\ Tail(O) \in Seq(Texts) /\ <<Head(O)>> \in Seq(Texts)
    BY <1>2, <2>2, HeadApart
  <2>4. Append(R, Head(O)) = R \o <<Head(O)>>
    BY <1>2, <2>3, AppendIsConcat
  <2>5. (R \o <<Head(O)>>) \o Tail(O) = R \o (<<Head(O)>> \o Tail(O))
    <3> DEFINE h == <<Head(O)>>   r == Tail(O)
    <3>1. R \in Seq(Texts) /\ h \in Seq(Texts) /\ r \in Seq(Texts)
      BY <1>2, <2>3
    <3> HIDE DEF h, r
    <3>2. (R \o h) \o r = R \o (h \o r)
      BY <3>1, ConcatAssociative
    <3> QED BY <3>2 DEF h, r
  <2>6. RR \o OO = R \o O
    BY <2>1, <2>2, <2>3, <2>4, <2>5
  <2> QED BY <2>6
<1>10. CASE ~HostReceive /\ ~AnnouncePublish /\ ~ReplyPublish
  <2>1. RR = R
    BY <1>10, RepliesMoves DEF R, RR
  <2>2. CASE OO = O
    BY <2>1, <2>2
  <2>3. CASE O # << >> /\ OO = Tail(O) /\ ~WellFormed(Head(O))
    <3>1. Kept(OO) = Kept(O)
      BY <1>2, <2>3, KeptTail
    <3> QED BY <1>5, <2>1, <3>1
  <2>4. ASSUME NEW m \in Msgs, OO = Append(O, m), Len(O) < N
        PROVE  \/ Kept(RR \o OO) = Kept(R \o O)
               \/ \E x \in Msgs \ Malformed : /\ Len(Kept(R \o O)) < 2 * N
                                             /\ Kept(RR \o OO) = Append(Kept(R \o O), x)
    <3>1. Kept(OO) = Keep(Kept(O), m)
      <4>1. m \in Texts
        BY DEF Texts
      <4> QED BY <1>2, <2>4, <4>1, KeptAppend
    <3>2. CASE ~WellFormed(m)
      <4>1. Kept(OO) = Kept(O)
        BY <3>1, <3>2 DEF Keep
      <4> QED BY <1>5, <2>1, <4>1
    <3>3. CASE WellFormed(m)
      <4>1. Kept(OO) = Append(Kept(O), m) /\ m \in Msgs \ Malformed
        BY <3>1, <3>3 DEF Keep, WellFormed
      <4>2. Kept(R) \o Append(Kept(O), m) = Append(Kept(R) \o Kept(O), m)
        <5> DEFINE a == Kept(R)   b == Kept(O)   M == Msgs \ Malformed
        <5>1. a \in Seq(M) /\ b \in Seq(M) /\ m \in M
          BY <1>5, <4>1
        <5> HIDE DEF a, b, M
        <5>2. a \o Append(b, m) = Append(a \o b, m)
          BY <5>1, ConcatAppend
        <5> QED BY <5>2 DEF a, b
      <4>3. Len(Kept(R) \o Kept(O)) < 2 * N
        BY <1>2, <1>3, <1>4, <1>5, <2>4
      <4> QED BY <1>5, <2>1, <4>1, <4>2, <4>3
    <3> QED BY <3>2, <3>3
  <2> QED BY <1>10, <2>1, <2>2, <2>3, <2>4, OpenMoves DEF O, OO
<1> QED BY <1>7, <1>8, <1>9, <1>10

(* The rings, indices and doorbells of rpmsg.cpp do what EchoService says:  *)
(* every well-formed request is answered once, with its own content and in  *)
(* order, whatever the sizes and however host and firmware interleave       *)
(* (poll() and reply() in rpmsg.cpp, the callbacks of both programs).       *)
THEOREM EchoImplemented == Spec => EchoesInOrder
<1>1. Init => Echo!EchoInit /\ CopyInv
  BY EchoStart, CopyInvInit
<1>2. RpmsgInv /\ RpmsgInv' /\ CopyInv /\ [Next]_vars => CopyInv'
  BY CopyInvStep
<1>3. RpmsgInv /\ RpmsgInv' /\ CopyInv /\ [Next]_vars
        => [Echo!EchoNext]_(Kept(Replies \o Open))
  BY EchoStep
<1> QED BY <1>1, <1>2, <1>3, RpmsgInvariant, PTL DEF Spec, EchoesInOrder, Echo!EchoSpec
=============================================================================
