--------------------------- MODULE LruStoreProofs ---------------------------
(* Proofs about LruLevel and LruStore, for every set of keys and values,   *)
(* every capacity, budget and number of buckets.                           *)
EXTENDS LruStore, FiniteSetTheorems, WellFoundedInduction, TLAPS

(* A function on 1..n with values in S is a sequence of length n.          *)
LEMMA FunIsSeq ==
    ASSUME NEW S, NEW n \in Nat, NEW f \in [1..n -> S]
    PROVE  f \in Seq(S) /\ Len(f) = n
OBVIOUS

(* adjust keeps the slots of a level: it only reorders them.               *)
LEMMA ToFrontShape ==
    ASSUME NEW S, NEW q \in Seq(S), NEW i \in 1..Len(q), NEW s \in S
    PROVE  /\ ToFront(q, i, s) \in Seq(S)
           /\ Len(ToFront(q, i, s)) = Len(q)
           /\ \A j \in 1..Len(q) : ToFront(q, i, s)[j] =
                  IF j = 1 THEN s ELSE IF j <= i THEN q[j - 1] ELSE q[j]
<1>1. Len(q) \in Nat
  OBVIOUS
<1>2. ToFront(q, i, s) \in [1..Len(q) -> S]
  BY <1>1 DEF ToFront
<1>3. QED
  BY <1>1, <1>2, FunIsSeq DEF ToFront

LEMMA ToBackShape ==
    ASSUME NEW S, NEW q \in Seq(S), NEW i \in 1..Len(q), NEW s \in S
    PROVE  /\ ToBack(q, i, s) \in Seq(S)
           /\ Len(ToBack(q, i, s)) = Len(q)
           /\ \A j \in 1..Len(q) : ToBack(q, i, s)[j] =
                  IF j = Len(q) THEN s ELSE IF j >= i THEN q[j + 1] ELSE q[j]
<1>1. Len(q) \in Nat
  OBVIOUS
<1>2. ToBack(q, i, s) \in [1..Len(q) -> S]
  BY <1>1 DEF ToBack
<1>3. QED
  BY <1>1, <1>2, FunIsSeq DEF ToBack

LEMMA PushFrontShape ==
    ASSUME NEW S, NEW q \in Seq(S), NEW s \in S
    PROVE  /\ PushFront(q, s) \in Seq(S)
           /\ Len(PushFront(q, s)) = Len(q) + 1
           /\ \A j \in 1..(Len(q) + 1) :
                  PushFront(q, s)[j] = IF j = 1 THEN s ELSE q[j - 1]
<1>1. Len(q) \in Nat
  OBVIOUS
<1>2. PushFront(q, s) \in [1..(Len(q) + 1) -> S]
  BY <1>1 DEF PushFront
<1>3. QED
  BY <1>1, <1>2, FunIsSeq DEF PushFront

-----------------------------------------------------------------------------
(* What every operation keeps of one level of bucket b.                    *)
GoodLevel(c, cap, b) ==
    /\ c \in Level
    /\ SlotTypes(c)
    /\ Len(c.slots) <= cap
    /\ UniqueKeys(c)
    /\ InBucket(c, b)

LEMMA EntryBytesInt ==
    ASSUME NEW k \in Keys, NEW v \in Values
    PROVE  entryBytes(k, v) \in Int
BY LruLevelAssumption DEF entryBytes

LEMMA PosOfHeld ==
    ASSUME NEW c, NEW k, Held(c, k)
    PROVE  PosOf(c, k) \in Positions(c) /\ c.slots[PosOf(c, k)].k = k
BY DEF Held, PosOf

(* The only slot of a key is the one PosOf finds.                          *)
LEMMA LiveSlot ==
    ASSUME NEW c, NEW k, UniqueKeys(c), LiveIn(c, k)
    PROVE  /\ PosOf(c, k) \in Positions(c)
           /\ SlotOf(c, k) = c.slots[PosOf(c, k)]
           /\ SlotOf(c, k).k = k
           /\ IsLive(SlotOf(c, k))
<1>1. PICK i \in Positions(c) : c.slots[i].k = k /\ IsLive(c.slots[i])
  BY DEF LiveIn
<1>2. PosOf(c, k) \in Positions(c) /\ c.slots[PosOf(c, k)].k = k
  BY <1>1, PosOfHeld DEF Held
<1>3. PosOf(c, k) = i
  BY <1>1, <1>2 DEF UniqueKeys
<1>4. QED
  BY <1>1, <1>2, <1>3 DEF SlotOf

(* evictOldest finds a live slot whenever there is one: the last of them.  *)
LEMMA OldestLiveExists ==
    ASSUME NEW c \in Level, AnyLive(c)
    PROVE  OldestLive(c) \in Positions(c) /\ IsLive(c.slots[OldestLive(c)])
<1> DEFINE n == Len(c.slots)
           D == {d \in Nat : n - d \in Positions(c) /\ IsLive(c.slots[n - d])}
<1>1. n \in Nat
  BY DEF Level
<1>2. PICK i \in Positions(c) : IsLive(c.slots[i])
  BY DEF AnyLive
<1>3. n - i \in D
  BY <1>1, <1>2 DEF Positions
<1>4. PICK m \in D : \A d \in D : m <= d
  <2> DEFINE R == OpToRel(<, Nat)
  <2>1. D \subseteq Nat /\ D # {}
    BY <1>3
  <2>2. \A x, y \in Nat : x < y => <<x, y>> \in R
    BY DEF OpToRel
  <2>3. IsWellFoundedOn(R, Nat)
    BY NatLessThanWellFounded
  <2> HIDE DEF D, R
  <2>4. PICK m \in D : \A d \in D : ~(<<d, m>> \in R)
    BY <2>1, <2>3, WFMin
  <2>5. ASSUME NEW d \in D PROVE m <= d
    <3>1. d \in Nat /\ m \in Nat
      BY <2>1
    <3>2. ~(d < m)
      BY <3>1, <2>2, <2>4, Zenon
    <3>3. QED
      BY <3>1, <3>2
  <2>6. QED
    BY <2>5
<1>5. \A j \in Positions(c) : j > n - m => ~IsLive(c.slots[j])
  <2>1. SUFFICES ASSUME NEW j \in Positions(c), j > n - m, IsLive(c.slots[j])
                 PROVE  FALSE
    OBVIOUS
  <2>2. n - j \in Nat /\ n - (n - j) = j
    BY <1>1 DEF Positions
  <2>3. n - j \in D
    BY <2>1, <2>2
  <2>4. m \in Nat /\ m <= n - j
    BY <1>4, <2>3
  <2>5. QED
    BY <1>1, <2>1, <2>4 DEF Positions
<1>6. QED
  BY <1>4, <1>5 DEF OldestLive

-----------------------------------------------------------------------------
(* Every operation rebuilds the list from the old slots in their old order *)
(* and one slot s at position j0, whose key no other slot of the new list  *)
(* has: slot j # j0 of the new list is slot f[j] of the old one.  Such a   *)
(* list is as good as the old one, and if s is live and in front, or dead  *)
(* and at the back, the dead slots stay last.                              *)
Rebuilt(c, new, j0, f) ==
    /\ f \in [Positions(new) -> Int]
    /\ \A j \in Positions(new) \ {j0} :
          /\ f[j] \in Positions(c)
          /\ new.slots[j] = c.slots[f[j]]
          /\ new.slots[j].k # new.slots[j0].k
    /\ \A j, l \in Positions(new) \ {j0} : j < l => f[j] < f[l]

LEMMA RebuiltGood ==
    ASSUME NEW cap, NEW b, NEW c, GoodLevel(c, cap, b),
           NEW new \in Level, Len(new.slots) <= cap,
           NEW j0 \in Positions(new), NEW f, Rebuilt(c, new, j0, f),
           BucketOf[new.slots[j0].k] = b,
           IsLive(new.slots[j0]) => new.slots[j0].v \in Values
    PROVE  GoodLevel(new, cap, b)
<1> DEFINE P == Positions(new)
           nq == new.slots
           q == c.slots
<1>1. \A j \in P \ {j0} : f[j] \in Positions(c) /\ nq[j] = q[f[j]] /\ nq[j].k # nq[j0].k
  BY DEF Rebuilt
<1>2. \A j, l \in P \ {j0} : j < l => f[j] < f[l]
  BY DEF Rebuilt
<1>3. P \subseteq Int /\ Positions(c) \subseteq Int
  BY DEF Positions
<1>4. /\ \A x \in Positions(c) : IsLive(q[x]) => q[x].v \in Values
      /\ \A x \in Positions(c) : BucketOf[q[x].k] = b
      /\ \A x, y \in Positions(c) : q[x].k = q[y].k => x = y
  BY DEF GoodLevel, SlotTypes, InBucket, UniqueKeys
<1> HIDE DEF P, nq, q
<1>5. \A j, l \in P : nq[j].k = nq[l].k => j = l
  <2> SUFFICES ASSUME NEW j \in P, NEW l \in P, nq[j].k = nq[l].k, j # l
               PROVE  FALSE
    OBVIOUS
  <2>1. j # j0 /\ l # j0
    BY <1>1
  <2>2. f[j] = f[l] /\ f[j] \in Int /\ f[l] \in Int
    BY <1>1, <1>3, <1>4, <2>1
  <2>3. j < l \/ l < j
    BY <1>3
  <2>4. QED
    BY <1>2, <2>1, <2>2, <2>3
<1>6. \A j \in P : BucketOf[nq[j].k] = b
  BY <1>1, <1>4 DEF nq
<1>7. \A j \in P : IsLive(nq[j]) => nq[j].v \in Values
  BY <1>1, <1>4 DEF nq
<1>8. QED
  BY <1>5, <1>6, <1>7 DEF GoodLevel, SlotTypes, InBucket, UniqueKeys, P, nq

LEMMA RebuiltDeadLast ==
    ASSUME NEW c \in Level, NEW new \in Level, DeadLast(c),
           NEW j0 \in Positions(new), NEW f, Rebuilt(c, new, j0, f),
           \/ j0 = 1 /\ IsLive(new.slots[j0])
           \/ j0 = Len(new.slots) /\ ~IsLive(new.slots[j0])
    PROVE  DeadLast(new)
<1> SUFFICES ASSUME NEW j \in Positions(new), NEW l \in Positions(new), j < l,
                    IsLive(new.slots[l])
             PROVE  IsLive(new.slots[j])
  BY DEF DeadLast
<1>1. Len(new.slots) \in Nat /\ Positions(new) = 1..Len(new.slots)
  BY DEF Level, Positions
<1>2. CASE j = j0
  BY <1>1, <1>2
<1>3. CASE j # j0
  <2>1. l # j0
    BY <1>1, <1>3
  <2>2. /\ f[j] \in Positions(c) /\ f[l] \in Positions(c) /\ f[j] < f[l]
        /\ new.slots[j] = c.slots[f[j]] /\ new.slots[l] = c.slots[f[l]]
    BY <1>3, <2>1 DEF Rebuilt
  <2>3. QED
    BY <2>2 DEF DeadLast
<1>4. QED
  BY <1>2, <1>3

LEMMA RebuiltLive ==
    ASSUME NEW c, NEW new, NEW j0 \in Positions(new), NEW f,
           Rebuilt(c, new, j0, f)
    PROVE  \A k \in LiveKeys(new) :
              IF k = new.slots[j0].k THEN IsLive(new.slots[j0]) ELSE k \in LiveKeys(c)
<1> SUFFICES ASSUME NEW k \in LiveKeys(new)
             PROVE  IF k = new.slots[j0].k THEN IsLive(new.slots[j0])
                    ELSE k \in LiveKeys(c)
  OBVIOUS
<1>1. PICK j \in Positions(new) : new.slots[j].k = k /\ IsLive(new.slots[j])
  BY DEF LiveKeys, LiveIn
<1>2. CASE j = j0
  BY <1>1, <1>2
<1>3. CASE j # j0
  <2>1. /\ f[j] \in Positions(c) /\ new.slots[j] = c.slots[f[j]]
        /\ new.slots[j].k # new.slots[j0].k
    BY <1>3 DEF Rebuilt
  <2>2. k \in LiveKeys(c)
    BY <1>1, <2>1 DEF LiveKeys, LiveIn
  <2>3. QED
    BY <1>1, <2>1, <2>2
<1>4. QED
  BY <1>2, <1>3

-----------------------------------------------------------------------------
(* adjust with p, n: slot i of the list is replaced by s in front.         *)
LEMMA ToFrontRebuilt ==
    ASSUME NEW c, NEW i \in Positions(c), c.slots \in Seq(Slot),
           NEW s \in Slot, \A x \in Positions(c) \ {i} : c.slots[x].k # s.k,
           NEW new, new.slots = ToFront(c.slots, i, s)
    PROVE  \E f : Rebuilt(c, new, 1, f)
<1> DEFINE q == c.slots
           n == Len(q)
           f == [j \in 1..n |-> IF j <= i THEN j - 1 ELSE j]
<1>1. n \in Nat /\ i \in 1..n /\ Positions(c) = 1..n
  BY DEF Positions
<1>2. /\ Len(new.slots) = n
      /\ \A j \in 1..n : new.slots[j] =
            IF j = 1 THEN s ELSE IF j <= i THEN q[j - 1] ELSE q[j]
  <2>1. /\ Len(ToFront(q, i, s)) = n
        /\ \A j \in 1..n : ToFront(q, i, s)[j] = new.slots[j]
    BY <1>1, ToFrontShape
  <2>2. QED
    BY <1>1, <2>1 DEF ToFront
<1>3. Positions(new) = 1..n
  BY <1>2 DEF Positions
<1>4. \A x \in 1..n : x # i => q[x].k # s.k
  BY <1>1
<1> HIDE DEF q, n
<1>5. f \in [1..n -> Int]
  BY <1>1
<1>6. ASSUME NEW j \in (1..n) \ {1}
      PROVE  /\ f[j] \in 1..n /\ f[j] # i /\ new.slots[j] = q[f[j]]
             /\ new.slots[j].k # new.slots[1].k
  <2>1. f[j] \in 1..n /\ f[j] # i /\ new.slots[j] = q[f[j]]
    BY <1>1, <1>2
  <2>2. 1 \in 1..n /\ new.slots[1] = s
    BY <1>1, <1>2
  <2> HIDE DEF f
  <2>3. QED
    BY <1>1, <1>4, <2>1, <2>2
<1>7. \A j, l \in (1..n) \ {1} : j < l => f[j] < f[l]
  BY <1>1
<1> HIDE DEF f
<1>8. QED
  BY <1>1, <1>3, <1>5, <1>6, <1>7 DEF Rebuilt, q

(* adjust with n, p: slot i of the list is replaced by s at the back.      *)
LEMMA ToBackRebuilt ==
    ASSUME NEW c, NEW i \in Positions(c), c.slots \in Seq(Slot),
           NEW s \in Slot, \A x \in Positions(c) \ {i} : c.slots[x].k # s.k,
           NEW new, new.slots = ToBack(c.slots, i, s)
    PROVE  \E f : Rebuilt(c, new, Len(new.slots), f)
<1> DEFINE q == c.slots
           n == Len(q)
           f == [j \in 1..n |-> IF j >= i THEN j + 1 ELSE j]
<1>1. n \in Nat /\ i \in 1..n /\ Positions(c) = 1..n
  BY DEF Positions
<1>2. /\ Len(new.slots) = n
      /\ \A j \in 1..n : new.slots[j] =
            IF j = n THEN s ELSE IF j >= i THEN q[j + 1] ELSE q[j]
  <2>1. /\ Len(ToBack(q, i, s)) = n
        /\ \A j \in 1..n : ToBack(q, i, s)[j] = new.slots[j]
    BY <1>1, ToBackShape
  <2>2. QED
    BY <1>1, <2>1 DEF ToBack
<1>3. Positions(new) = 1..n
  BY <1>2 DEF Positions
<1>4. \A x \in 1..n : x # i => q[x].k # s.k
  BY <1>1
<1> HIDE DEF q, n
<1>5. f \in [1..n -> Int]
  BY <1>1
<1>6. ASSUME NEW j \in (1..n) \ {n}
      PROVE  /\ f[j] \in 1..n /\ f[j] # i /\ new.slots[j] = q[f[j]]
             /\ new.slots[j].k # new.slots[n].k
  <2>1. f[j] \in 1..n /\ f[j] # i /\ new.slots[j] = q[f[j]]
    BY <1>1, <1>2
  <2>2. n \in 1..n /\ new.slots[n] = s
    BY <1>1, <1>2
  <2> HIDE DEF f
  <2>3. QED
    BY <1>1, <1>4, <2>1, <2>2
<1>7. \A j, l \in (1..n) \ {n} : j < l => f[j] < f[l]
  BY <1>1
<1> HIDE DEF f
<1>8. QED
  BY <1>1, <1>2, <1>3, <1>5, <1>6, <1>7 DEF Rebuilt, q

LEMMA PushFrontRebuilt ==
    ASSUME NEW c, c.slots \in Seq(Slot), NEW s \in Slot,
           \A x \in Positions(c) : c.slots[x].k # s.k,
           NEW new, new.slots = PushFront(c.slots, s)
    PROVE  \E f : Rebuilt(c, new, 1, f)
<1> DEFINE q == c.slots
           n == Len(q)
           f == [j \in 1..(n + 1) |-> j - 1]
<1>1. n \in Nat /\ Positions(c) = 1..n
  BY DEF Positions
<1>2. /\ Len(new.slots) = n + 1
      /\ \A j \in 1..(n + 1) : new.slots[j] = IF j = 1 THEN s ELSE q[j - 1]
  <2>1. Len(PushFront(q, s)) = n + 1
    <3>1. q \in Seq(Slot) /\ s \in Slot
      OBVIOUS
    <3> HIDE DEF q
    <3>2. QED
      BY <3>1, PushFrontShape
  <2>2. QED
    BY <1>1, <2>1 DEF PushFront
<1>3. Positions(new) = 1..(n + 1)
  BY <1>2 DEF Positions
<1>4. \A x \in 1..n : q[x].k # s.k
  BY <1>1
<1> HIDE DEF q, n
<1>5. f \in [1..(n + 1) -> Int]
  BY <1>1
<1>6. ASSUME NEW j \in (1..(n + 1)) \ {1}
      PROVE  /\ f[j] \in 1..n /\ new.slots[j] = q[f[j]]
             /\ new.slots[j].k # new.slots[1].k
  <2>1. f[j] \in 1..n /\ new.slots[j] = q[f[j]]
    BY <1>1, <1>2
  <2>2. new.slots[1] = s
    BY <1>1, <1>2
  <2> HIDE DEF f
  <2>3. QED
    BY <1>4, <2>1, <2>2
<1>7. \A j, l \in (1..(n + 1)) \ {1} : j < l => f[j] < f[l]
  BY <1>1
<1> HIDE DEF f
<1>8. QED
  BY <1>1, <1>3, <1>5, <1>6, <1>7 DEF Rebuilt, q

-----------------------------------------------------------------------------
(* What put, del and evictOldest do to a level, as far as the invariants   *)
(* of the store need to know.                                              *)

LEMMA EmptyLevelGood ==
    ASSUME NEW cap \in Nat, NEW b
    PROVE  GoodLevel(EmptyLevel, cap, b) /\ DeadLast(EmptyLevel) /\ LiveKeys(EmptyLevel) = {}
<1>1. EmptyLevel.slots = << >> /\ Len(EmptyLevel.slots) = 0 /\ EmptyLevel \in Level
  BY DEF EmptyLevel, Level
<1>2. Positions(EmptyLevel) = {}
  BY <1>1 DEF Positions
<1>3. QED
  BY <1>1, <1>2 DEF GoodLevel, SlotTypes, UniqueKeys, InBucket, DeadLast, LiveKeys, LiveIn

LEMMA SlotFacts ==
    ASSUME NEW cap, NEW b, NEW c, GoodLevel(c, cap, b), NEW i \in Positions(c)
    PROVE  /\ c.slots \in Seq(Slot) /\ c.bytes \in Int
           /\ Len(c.slots) \in Nat /\ i \in 1..Len(c.slots)
           /\ c.slots[i] \in Slot /\ c.slots[i].k \in Keys
           /\ BucketOf[c.slots[i].k] = b
           /\ IsLive(c.slots[i]) => c.slots[i].v \in Values
           /\ \A x \in Positions(c) \ {i} : c.slots[x].k # c.slots[i].k
<1>1. c.slots \in Seq(Slot) /\ c.bytes \in Int
  BY DEF GoodLevel, Level
<1>2. Len(c.slots) \in Nat /\ i \in 1..Len(c.slots)
  BY <1>1 DEF Positions
<1>3. c.slots[i] \in Slot
  BY <1>1, <1>2
<1>4. c.slots[i].k \in Keys
  BY <1>3 DEF Slot
<1>5. QED
  BY <1>1, <1>2, <1>3, <1>4 DEF GoodLevel, SlotTypes, InBucket, UniqueKeys

LEMMA LiveValue ==
    ASSUME NEW cap, NEW b, NEW c, GoodLevel(c, cap, b), NEW k, LiveIn(c, k)
    PROVE  SlotOf(c, k).v \in Values /\ SlotOf(c, k).exp \in Int /\ SlotOf(c, k).exp > 0
<1>1. /\ PosOf(c, k) \in Positions(c) /\ SlotOf(c, k) = c.slots[PosOf(c, k)]
      /\ IsLive(SlotOf(c, k))
  BY LiveSlot DEF GoodLevel
<1>2. SlotOf(c, k) \in Slot /\ SlotOf(c, k).v \in Values
  BY <1>1, SlotFacts
<1>3. QED
  BY <1>1, <1>2 DEF Slot, IsLive

LEMMA KillAtGood ==
    ASSUME NEW cap \in Nat, NEW b, NEW c, GoodLevel(c, cap, b),
           NEW i \in Positions(c), IsLive(c.slots[i])
    PROVE  /\ GoodLevel(KillAt(c, i), cap, b)
           /\ DeadLast(c) => DeadLast(KillAt(c, i))
           /\ LiveKeys(KillAt(c, i)) \subseteq LiveKeys(c) \ {c.slots[i].k}
<1> DEFINE s == SlotFor(c.slots[i].k, NoValue, 0)
           new == KillAt(c, i)
           j0 == Len(new.slots)
<1>1. /\ c.slots \in Seq(Slot) /\ c.bytes \in Int
      /\ Len(c.slots) \in Nat /\ i \in 1..Len(c.slots)
      /\ c.slots[i] \in Slot /\ c.slots[i].k \in Keys /\ c.slots[i].v \in Values
      /\ BucketOf[c.slots[i].k] = b
      /\ \A x \in Positions(c) \ {i} : c.slots[x].k # c.slots[i].k
  BY SlotFacts
<1>2. s \in Slot /\ s.k = c.slots[i].k /\ ~IsLive(s)
  BY <1>1 DEF SlotFor, Slot, IsLive
<1>3. new.slots = ToBack(c.slots, i, s)
  BY DEF KillAt
<1>4. /\ new.slots \in Seq(Slot) /\ Len(new.slots) = Len(c.slots)
      /\ j0 \in Positions(new) /\ new.slots[j0] = s
  <2>1. ToBack(c.slots, i, s) \in Seq(Slot) /\ Len(ToBack(c.slots, i, s)) = Len(c.slots)
    <3> DEFINE q == c.slots
    <3>1. q \in Seq(Slot) /\ i \in 1..Len(q) /\ s \in Slot
      BY <1>1, <1>2
    <3> HIDE DEF q, s
    <3>2. ToBack(q, i, s) \in Seq(Slot) /\ Len(ToBack(q, i, s)) = Len(q)
      BY <3>1, ToBackShape
    <3>3. QED
      BY <3>2 DEF q
  <2>2. ToBack(c.slots, i, s)[Len(c.slots)] = s
    BY <1>1 DEF ToBack
  <2>3. QED
    BY <1>1, <1>3, <2>1, <2>2 DEF Positions
<1>5. new \in Level
  <2>1. entryBytes(c.slots[i].k, c.slots[i].v) \in Int
    BY <1>1, EntryBytesInt
  <2>2. new.bytes \in Int /\ new = [slots |-> new.slots, bytes |-> new.bytes]
    BY <1>1, <2>1 DEF KillAt
  <2>3. QED
    BY <1>4, <2>2 DEF Level
<1>6. \A x \in Positions(c) \ {i} : c.slots[x].k # s.k
  BY <1>1, <1>2
<1> HIDE DEF s, new
<1>7. PICK f : Rebuilt(c, new, j0, f)
  BY <1>1, <1>2, <1>3, <1>6, ToBackRebuilt
<1>8. GoodLevel(new, cap, b)
  <2>1. Len(new.slots) <= cap /\ BucketOf[new.slots[j0].k] = b /\ ~IsLive(new.slots[j0])
    BY <1>1, <1>2, <1>4 DEF GoodLevel
  <2> HIDE DEF j0
  <2>2. QED
    BY <1>4, <1>5, <1>7, <2>1, RebuiltGood
<1>9. DeadLast(c) => DeadLast(new)
  BY <1>2, <1>4, <1>5, <1>7, RebuiltDeadLast DEF GoodLevel
<1>10. LiveKeys(new) \subseteq LiveKeys(c) \ {c.slots[i].k}
  BY <1>2, <1>4, <1>7, RebuiltLive
<1>11. QED
  BY <1>8, <1>9, <1>10 DEF new

LEMMA DelGood ==
    ASSUME NEW cap \in Nat, NEW b, NEW c, GoodLevel(c, cap, b), NEW k
    PROVE  /\ GoodLevel(Del(c, k), cap, b)
           /\ DeadLast(c) => DeadLast(Del(c, k))
           /\ LiveKeys(Del(c, k)) \subseteq LiveKeys(c) \ {k}
<1>1. CASE LiveIn(c, k)
  <2>1. /\ PosOf(c, k) \in Positions(c) /\ c.slots[PosOf(c, k)].k = k
        /\ IsLive(c.slots[PosOf(c, k)])
    BY <1>1, LiveSlot DEF GoodLevel
  <2>2. QED
    BY <1>1, <2>1, KillAtGood DEF Del
<1>2. CASE ~LiveIn(c, k)
  BY <1>2 DEF Del, LiveKeys
<1>3. QED
  BY <1>1, <1>2

LEMMA EvictOldestGood ==
    ASSUME NEW cap \in Nat, NEW b, NEW c, GoodLevel(c, cap, b), AnyLive(c)
    PROVE  /\ GoodLevel(EvictOldest(c), cap, b)
           /\ DeadLast(c) => DeadLast(EvictOldest(c))
           /\ LiveKeys(EvictOldest(c)) \subseteq LiveKeys(c)
           /\ EvictCalls(c) \in Seq(Keys \X Values)
<1>1. OldestLive(c) \in Positions(c) /\ IsLive(c.slots[OldestLive(c)])
  BY OldestLiveExists DEF GoodLevel
<1>2. c.slots[OldestLive(c)].k \in Keys /\ c.slots[OldestLive(c)].v \in Values
  BY <1>1, SlotFacts
<1>3. EvictCalls(c) \in Seq(Keys \X Values)
  BY <1>2 DEF EvictCalls
<1>4. QED
  BY <1>1, <1>3, KillAtGood DEF EvictOldest

(* A live slot s put in front of the list, in the place of slot i.         *)
LEMMA FrontGood ==
    ASSUME NEW cap \in Nat, NEW b, NEW c, GoodLevel(c, cap, b),
           NEW i \in Positions(c), NEW s \in Slot, s.v \in Values,
           BucketOf[s.k] = b, \A x \in Positions(c) \ {i} : c.slots[x].k # s.k,
           NEW new \in Level, new.slots = ToFront(c.slots, i, s)
    PROVE  /\ GoodLevel(new, cap, b)
           /\ DeadLast(c) /\ IsLive(s) => DeadLast(new)
           /\ LiveKeys(new) \subseteq LiveKeys(c) \cup {s.k}
<1>1. c.slots \in Seq(Slot) /\ Len(c.slots) \in Nat /\ i \in 1..Len(c.slots)
  BY SlotFacts
<1>2. Len(new.slots) = Len(c.slots) /\ 1 \in Positions(new) /\ new.slots[1] = s
  <2>1. Len(ToFront(c.slots, i, s)) = Len(c.slots)
    <3> DEFINE q == c.slots
    <3>1. q \in Seq(Slot) /\ i \in 1..Len(q)
      BY <1>1
    <3> HIDE DEF q
    <3>2. Len(ToFront(q, i, s)) = Len(q)
      BY <3>1, ToFrontShape
    <3>3. QED
      BY <3>2 DEF q
  <2>2. ToFront(c.slots, i, s)[1] = s
    BY <1>1 DEF ToFront
  <2>3. QED
    BY <1>1, <2>1, <2>2 DEF Positions
<1>3. PICK f : Rebuilt(c, new, 1, f)
  BY <1>1, ToFrontRebuilt
<1>4. GoodLevel(new, cap, b)
  <2>1. Len(new.slots) <= cap
    BY <1>2 DEF GoodLevel
  <2>2. QED
    BY <1>2, <1>3, <2>1, RebuiltGood
<1>5. DeadLast(c) /\ IsLive(s) => DeadLast(new)
  BY <1>2, <1>3, RebuiltDeadLast DEF GoodLevel
<1>6. LiveKeys(new) \subseteq LiveKeys(c) \cup {s.k}
  BY <1>2, <1>3, RebuiltLive
<1>7. QED
  BY <1>4, <1>5, <1>6

LEMMA PutGood ==
    ASSUME NEW cap \in Nat \ {0}, NEW b, NEW c, GoodLevel(c, cap, b),
           NEW k \in Keys, BucketOf[k] = b, NEW v \in Values, NEW e \in Int
    PROVE  /\ GoodLevel(Put(c, cap, k, v, e), cap, b)
           /\ DeadLast(c) /\ e > 0 => DeadLast(Put(c, cap, k, v, e))
           /\ LiveKeys(Put(c, cap, k, v, e)) \subseteq LiveKeys(c) \cup {k}
           /\ PutCalls(c, cap, k) \in Seq(Keys \X Values)
<1> DEFINE s == SlotFor(k, v, e)
<1>1. s \in Slot /\ s.k = k /\ s.v = v /\ (IsLive(s) <=> e > 0)
  BY DEF SlotFor, Slot, IsLive
<1>2. c.slots \in Seq(Slot) /\ c.bytes \in Int /\ Len(c.slots) \in Nat /\ Len(c.slots) <= cap
  BY DEF GoodLevel, Level
<1>3. entryBytes(k, v) \in Int
  BY EntryBytesInt
<1>4. ASSUME NEW i \in Positions(c), \A x \in Positions(c) \ {i} : c.slots[x].k # k,
             NEW new, new.slots = ToFront(c.slots, i, s),
             new = [slots |-> new.slots, bytes |-> c.bytes + entryBytes(k, v)
                     - (IF IsLive(c.slots[i])
                        THEN entryBytes(c.slots[i].k, c.slots[i].v) ELSE 0)]
      PROVE  /\ GoodLevel(new, cap, b)
             /\ DeadLast(c) /\ e > 0 => DeadLast(new)
             /\ LiveKeys(new) \subseteq LiveKeys(c) \cup {k}
  <2>1. /\ i \in 1..Len(c.slots) /\ c.slots[i].k \in Keys
        /\ IsLive(c.slots[i]) => c.slots[i].v \in Values
    BY SlotFacts
  <2>2. IsLive(c.slots[i]) => entryBytes(c.slots[i].k, c.slots[i].v) \in Int
    BY <2>1, EntryBytesInt
  <2>3. new.bytes \in Int
    BY <1>2, <1>3, <1>4, <2>2
  <2>4. new.slots \in Seq(Slot)
    <3> DEFINE q == c.slots
    <3>1. q \in Seq(Slot) /\ i \in 1..Len(q)
      BY <1>2, <2>1
    <3> HIDE DEF q, s
    <3>2. ToFront(q, i, s) \in Seq(Slot)
      BY <1>1, <3>1, ToFrontShape
    <3>3. QED
      BY <1>4, <3>2 DEF q
  <2>5. new \in Level
    BY <1>4, <2>3, <2>4 DEF Level
  <2> HIDE DEF s
  <2>6. QED
    BY <1>1, <1>4, <2>5, FrontGood
<1>5. CASE Held(c, k)
  <2>1. PosOf(c, k) \in Positions(c) /\ c.slots[PosOf(c, k)].k = k
    BY <1>5, PosOfHeld
  <2>2. \A x \in Positions(c) \ {PosOf(c, k)} : c.slots[x].k # k
    BY <2>1 DEF GoodLevel, UniqueKeys
  <2>3. Put(c, cap, k, v, e) = PutHeld(c, k, v, e) /\ PutCalls(c, cap, k) = << >>
    BY <1>5 DEF Put, PutCalls
  <2>4. QED
    BY <1>4, <2>1, <2>2, <2>3 DEF PutHeld
<1>6. CASE ~Held(c, k) /\ Len(c.slots) = cap
  <2>1. Len(c.slots) \in Positions(c)
    BY <1>2, <1>6 DEF Positions
  <2>2. \A x \in Positions(c) : c.slots[x].k # k
    BY <1>6 DEF Held
  <2>3. Put(c, cap, k, v, e) = PutRecycle(c, k, v, e)
    BY <1>6 DEF Put
  <2>4. PutCalls(c, cap, k) \in Seq(Keys \X Values)
    <3>1. /\ c.slots[Len(c.slots)].k \in Keys
          /\ IsLive(c.slots[Len(c.slots)]) => c.slots[Len(c.slots)].v \in Values
      BY <2>1, SlotFacts
    <3> DEFINE t == c.slots[Len(c.slots)]
    <3>2. CASE IsLive(t)
      <4>1. <<t.k, t.v>> \in Keys \X Values
        BY <3>1, <3>2
      <4>2. PutCalls(c, cap, k) = << <<t.k, t.v>> >>
        BY <1>6, <3>2 DEF PutCalls
      <4>3. QED
        BY <4>1, <4>2
    <3>3. CASE ~IsLive(t)
      BY <3>3 DEF PutCalls
    <3>4. QED
      BY <3>2, <3>3
  <2>5. QED
    BY <1>4, <2>1, <2>2, <2>3, <2>4 DEF PutRecycle
<1>7. CASE ~Held(c, k) /\ Len(c.slots) # cap
  <2> DEFINE new == PutFresh(c, k, v, e)
  <2>1. Put(c, cap, k, v, e) = new /\ PutCalls(c, cap, k) = << >>
    BY <1>7 DEF Put, PutCalls
  <2>2. \A x \in Positions(c) : c.slots[x].k # s.k
    BY <1>1, <1>7 DEF Held
  <2>3. new.slots = PushFront(c.slots, s)
    BY DEF PutFresh
  <2>4. /\ new.slots \in Seq(Slot) /\ Len(new.slots) = Len(c.slots) + 1
        /\ new.slots[1] = s
    <3> DEFINE q == c.slots
    <3>1. q \in Seq(Slot)
      BY <1>2
    <3> HIDE DEF q, s
    <3>2. PushFront(q, s) \in Seq(Slot) /\ Len(PushFront(q, s)) = Len(q) + 1
      BY <1>1, <3>1, PushFrontShape
    <3>3. PushFront(q, s)[1] = s
      BY <1>2 DEF PushFront, q
    <3>4. QED
      BY <2>3, <3>2, <3>3 DEF q
  <2>5. new \in Level /\ Len(new.slots) <= cap /\ 1 \in Positions(new)
    BY <1>2, <1>3, <1>7, <2>4 DEF PutFresh, Level, Positions
  <2> HIDE DEF s, new
  <2>6. PICK f : Rebuilt(c, new, 1, f)
    BY <1>1, <1>2, <2>2, <2>3, PushFrontRebuilt
  <2>7. GoodLevel(new, cap, b)
    BY <1>1, <2>4, <2>5, <2>6, RebuiltGood
  <2>8. DeadLast(c) /\ e > 0 => DeadLast(new)
    BY <1>1, <2>4, <2>5, <2>6, RebuiltDeadLast DEF GoodLevel
  <2>9. LiveKeys(new) \subseteq LiveKeys(c) \cup {k}
    BY <1>1, <2>4, <2>5, <2>6, RebuiltLive
  <2>10. QED
    BY <2>1, <2>7, <2>8, <2>9
<1>8. QED
  BY <1>5, <1>6, <1>7

(* A hit in level 2 only reorders it.                                      *)
LEMMA TouchGood ==
    ASSUME NEW cap \in Nat, NEW b, NEW c, GoodLevel(c, cap, b), NEW k, LiveIn(c, k)
    PROVE  /\ GoodLevel(Touch(c, k), cap, b)
           /\ DeadLast(c) => DeadLast(Touch(c, k))
           /\ LiveKeys(Touch(c, k)) \subseteq LiveKeys(c)
<1> DEFINE i == PosOf(c, k)
           s == SlotOf(c, k)
           new == Touch(c, k)
<1>1. i \in Positions(c) /\ s = c.slots[i] /\ s.k = k /\ IsLive(s)
  BY LiveSlot DEF GoodLevel
<1>2. /\ c.slots \in Seq(Slot) /\ i \in 1..Len(c.slots) /\ s \in Slot
      /\ s.v \in Values /\ BucketOf[s.k] = b
      /\ \A x \in Positions(c) \ {i} : c.slots[x].k # s.k
  BY <1>1, SlotFacts
<1>3. new.slots = ToFront(c.slots, i, s) /\ new.bytes = c.bytes /\ DOMAIN new = DOMAIN c
  BY DEF Touch, GoodLevel, Level
<1>4. new \in Level
  <2>1. new.slots \in Seq(Slot)
    <3> DEFINE q == c.slots
    <3>1. q \in Seq(Slot) /\ i \in 1..Len(q) /\ s \in Slot
      BY <1>2
    <3> HIDE DEF q, s, i
    <3>2. ToFront(q, i, s) \in Seq(Slot)
      BY <3>1, ToFrontShape
    <3>3. QED
      BY <1>3, <3>2 DEF q
  <2>2. QED
    BY <2>1 DEF Touch, GoodLevel, Level
<1>5. k \in LiveKeys(c)
  BY <1>1, <1>2 DEF LiveKeys, Slot
<1> HIDE DEF i, s, new
<1>6. /\ GoodLevel(new, cap, b)
      /\ DeadLast(c) => DeadLast(new)
      /\ LiveKeys(new) \subseteq LiveKeys(c) \cup {s.k}
  BY <1>1, <1>2, <1>3, <1>4, FrontGood
<1>7. QED
  BY <1>1, <1>5, <1>6 DEF new

-----------------------------------------------------------------------------
(* What the operations make of the entries of a level, exactly: which key  *)
(* keeps its entry, which one gets another, which one loses it.            *)

ElementsOf(q) == {q[j] : j \in 1..Len(q)}

NoRepeats(q) == \A x, y \in 1..Len(q) : q[x] = q[y] => x = y

LEMMA ToFrontElements ==
    ASSUME NEW S, NEW q \in Seq(S), NEW i \in 1..Len(q), NEW s \in S, NoRepeats(q)
    PROVE  ElementsOf(ToFront(q, i, s)) = (ElementsOf(q) \ {q[i]}) \cup {s}
<1> DEFINE r == ToFront(q, i, s)
           n == Len(q)
<1>1. n \in Nat /\ i \in 1..n
  OBVIOUS
<1>2. /\ Len(r) = n
      /\ \A j \in 1..n : r[j] = IF j = 1 THEN s ELSE IF j <= i THEN q[j - 1] ELSE q[j]
  BY ToFrontShape
<1>3. \A x, y \in 1..n : q[x] = q[y] => x = y
  BY DEF NoRepeats
<1> HIDE DEF r, n
<1>4. ASSUME NEW j \in 1..n PROVE r[j] \in (ElementsOf(q) \ {q[i]}) \cup {s}
  <2>1. CASE j = 1
    BY <1>2, <2>1
  <2>2. CASE j # 1
    <3>1. PICK l \in 1..n : l # i /\ r[j] = q[l]
      <4>1. CASE j <= i
        <5>1. j - 1 \in 1..n /\ j - 1 # i /\ r[j] = q[j - 1]
          BY <1>1, <1>2, <2>2, <4>1
        <5> QED
          BY <5>1
      <4>2. CASE ~(j <= i)
        BY <1>1, <1>2, <2>2, <4>2
      <4> QED
        BY <4>1, <4>2
    <3> QED
      BY <1>1, <1>3, <3>1 DEF ElementsOf, n
  <2> QED
    BY <2>1, <2>2
<1>5. ASSUME NEW l \in 1..n, l # i PROVE \E j \in 1..n : r[j] = q[l]
  <2>1. CASE l < i
    <3>1. l + 1 \in 1..n /\ l + 1 # 1 /\ l + 1 <= i /\ (l + 1) - 1 = l
      BY <1>1, <2>1
    <3>2. r[l + 1] = q[l]
      BY <1>2, <3>1
    <3> QED
      BY <3>1, <3>2
  <2>2. CASE ~(l < i)
    <3>1. l # 1 /\ ~(l <= i)
      BY <1>1, <1>5, <2>2
    <3> QED
      BY <1>2, <3>1
  <2> QED
    BY <2>1, <2>2
<1>6. 1 \in 1..n /\ r[1] = s
  BY <1>1, <1>2
<1>7. ElementsOf(r) = {r[j] : j \in 1..n} /\ ElementsOf(q) = {q[j] : j \in 1..n}
  BY <1>2 DEF ElementsOf, n
<1>8. ElementsOf(r) \subseteq (ElementsOf(q) \ {q[i]}) \cup {s}
  BY <1>4, <1>7
<1>9. (ElementsOf(q) \ {q[i]}) \cup {s} \subseteq ElementsOf(r)
  BY <1>5, <1>6, <1>7
<1> QED
  BY <1>8, <1>9 DEF r

LEMMA ToBackElements ==
    ASSUME NEW S, NEW q \in Seq(S), NEW i \in 1..Len(q), NEW s \in S, NoRepeats(q)
    PROVE  ElementsOf(ToBack(q, i, s)) = (ElementsOf(q) \ {q[i]}) \cup {s}
<1> DEFINE r == ToBack(q, i, s)
           n == Len(q)
<1>1. n \in Nat /\ i \in 1..n
  OBVIOUS
<1>2. /\ Len(r) = n
      /\ \A j \in 1..n : r[j] = IF j = n THEN s ELSE IF j >= i THEN q[j + 1] ELSE q[j]
  BY ToBackShape
<1>3. \A x, y \in 1..n : q[x] = q[y] => x = y
  BY DEF NoRepeats
<1> HIDE DEF r, n
<1>4. ASSUME NEW j \in 1..n PROVE r[j] \in (ElementsOf(q) \ {q[i]}) \cup {s}
  <2>1. CASE j = n
    BY <1>2, <2>1
  <2>2. CASE j # n
    <3>1. PICK l \in 1..n : l # i /\ r[j] = q[l]
      <4>1. CASE j >= i
        <5>1. j + 1 \in 1..n /\ j + 1 # i /\ r[j] = q[j + 1]
          BY <1>1, <1>2, <2>2, <4>1
        <5> QED
          BY <5>1
      <4>2. CASE ~(j >= i)
        BY <1>1, <1>2, <2>2, <4>2
      <4> QED
        BY <4>1, <4>2
    <3> QED
      BY <1>1, <1>3, <3>1 DEF ElementsOf, n
  <2> QED
    BY <2>1, <2>2
<1>5. ASSUME NEW l \in 1..n, l # i PROVE \E j \in 1..n : r[j] = q[l]
  <2>1. CASE l > i
    <3>1. l - 1 \in 1..n /\ l - 1 # n /\ l - 1 >= i /\ (l - 1) + 1 = l
      BY <1>1, <2>1
    <3>2. r[l - 1] = q[l]
      BY <1>2, <3>1
    <3> QED
      BY <3>1, <3>2
  <2>2. CASE ~(l > i)
    <3>1. l # n /\ ~(l >= i)
      BY <1>1, <1>5, <2>2
    <3> QED
      BY <1>2, <3>1
  <2> QED
    BY <2>1, <2>2
<1>6. n \in 1..n /\ r[n] = s
  BY <1>1, <1>2
<1>7. ElementsOf(r) = {r[j] : j \in 1..n} /\ ElementsOf(q) = {q[j] : j \in 1..n}
  BY <1>2 DEF ElementsOf, n
<1>8. ElementsOf(r) \subseteq (ElementsOf(q) \ {q[i]}) \cup {s}
  BY <1>4, <1>7
<1>9. (ElementsOf(q) \ {q[i]}) \cup {s} \subseteq ElementsOf(r)
  BY <1>5, <1>6, <1>7
<1> QED
  BY <1>8, <1>9 DEF r

LEMMA PushFrontElements ==
    ASSUME NEW S, NEW q \in Seq(S), NEW s \in S
    PROVE  ElementsOf(PushFront(q, s)) = ElementsOf(q) \cup {s}
<1> DEFINE r == PushFront(q, s)
           n == Len(q)
<1>1. n \in Nat
  OBVIOUS
<1>2. /\ Len(r) = n + 1
      /\ \A j \in 1..(n + 1) : r[j] = IF j = 1 THEN s ELSE q[j - 1]
  BY PushFrontShape
<1> HIDE DEF r, n
<1>3. ASSUME NEW j \in 1..(n + 1) PROVE r[j] = s \/ \E l \in 1..n : r[j] = q[l]
  <2>1. j = 1 \/ (j # 1 /\ j - 1 \in 1..n)
    BY <1>1
  <2> QED
    BY <1>2, <2>1
<1>4. ASSUME NEW l \in 1..n PROVE \E j \in 1..(n + 1) : r[j] = q[l]
  <2>1. l + 1 \in 1..(n + 1) /\ l + 1 # 1 /\ (l + 1) - 1 = l
    BY <1>1
  <2>2. r[l + 1] = q[l]
    BY <1>2, <2>1
  <2> QED
    BY <2>1, <2>2
<1>5. 1 \in 1..(n + 1) /\ r[1] = s
  BY <1>1, <1>2
<1>6. ElementsOf(r) = {r[j] : j \in 1..(n + 1)} /\ ElementsOf(q) = {q[j] : j \in 1..n}
  BY <1>2 DEF ElementsOf, n
<1>7. ElementsOf(r) \subseteq ElementsOf(q) \cup {s}
  BY <1>3, <1>6
<1>8. ElementsOf(q) \cup {s} \subseteq ElementsOf(r)
  BY <1>4, <1>5, <1>6
<1> QED
  BY <1>7, <1>8 DEF r

(* The entry that a slot, and a level for a key, shows to a reader.        *)
AsEntry(s) == IF IsLive(s) THEN [v |-> s.v, exp |-> s.exp] ELSE Nothing
EntryIn(c, k) == IF LiveIn(c, k) THEN AsEntry(SlotOf(c, k)) ELSE Nothing

LEMMA EntryOfSlot ==
    ASSUME NEW c, UniqueKeys(c), NEW s \in ElementsOf(c.slots)
    PROVE  EntryIn(c, s.k) = AsEntry(s)
<1>1. PICK i \in Positions(c) : c.slots[i] = s
  BY DEF ElementsOf, Positions
<1>2. CASE IsLive(s)
  <2>1. LiveIn(c, s.k)
    BY <1>1, <1>2 DEF LiveIn
  <2>2. PosOf(c, s.k) \in Positions(c) /\ SlotOf(c, s.k) = c.slots[PosOf(c, s.k)]
        /\ SlotOf(c, s.k).k = s.k
    BY <2>1, LiveSlot
  <2>3. PosOf(c, s.k) = i
    BY <1>1, <2>2 DEF UniqueKeys
  <2> QED
    BY <1>1, <2>1, <2>2, <2>3 DEF EntryIn
<1>3. CASE ~IsLive(s)
  <2>1. ~LiveIn(c, s.k)
    BY <1>1, <1>3 DEF LiveIn, UniqueKeys
  <2> QED
    BY <1>3, <2>1 DEF EntryIn, AsEntry
<1> QED
  BY <1>2, <1>3

LEMMA NoSlotNoEntry ==
    ASSUME NEW c, NEW k, \A s \in ElementsOf(c.slots) : s.k # k
    PROVE  EntryIn(c, k) = Nothing
BY DEF EntryIn, LiveIn, ElementsOf, Positions

(* A slot that is live is an entry with a value and a deadline.            *)
LEMMA LiveEntry ==
    ASSUME NEW cap, NEW b, NEW c, GoodLevel(c, cap, b), NEW k
    PROVE  /\ LiveIn(c, k) <=> EntryIn(c, k) # Nothing
           /\ LiveIn(c, k) =>
                 /\ EntryIn(c, k) = [v |-> SlotOf(c, k).v, exp |-> SlotOf(c, k).exp]
                 /\ SlotOf(c, k).v \in Values
                 /\ SlotOf(c, k).exp \in Int /\ SlotOf(c, k).exp > 0
<1>1. CASE LiveIn(c, k)
  <2>1. SlotOf(c, k).v \in Values /\ SlotOf(c, k).exp \in Int /\ SlotOf(c, k).exp > 0
    BY <1>1, LiveValue
  <2>2. EntryIn(c, k) = [v |-> SlotOf(c, k).v, exp |-> SlotOf(c, k).exp]
    BY <1>1, <2>1 DEF EntryIn, AsEntry, IsLive
  <2>3. EntryIn(c, k) # Nothing
    BY <2>1, <2>2, LruLevelAssumption DEF Nothing
  <2> QED
    BY <1>1, <2>1, <2>2, <2>3
<1>2. CASE ~LiveIn(c, k)
  BY <1>2 DEF EntryIn
<1> QED
  BY <1>1, <1>2

LEMMA SlotsDiffer ==
    ASSUME NEW cap, NEW b, NEW c, GoodLevel(c, cap, b)
    PROVE  /\ c.slots \in Seq(Slot) /\ NoRepeats(c.slots)
           /\ \A s, t \in ElementsOf(c.slots) : s.k = t.k => s = t
BY DEF GoodLevel, Level, UniqueKeys, Positions, NoRepeats, ElementsOf

(* One slot t gives way to s, or s comes in addition.                      *)
LEMMA SwappedEntries ==
    ASSUME NEW cap, NEW b, NEW c, GoodLevel(c, cap, b), NEW new, UniqueKeys(new),
           NEW t \in ElementsOf(c.slots), NEW s,
           ElementsOf(new.slots) = (ElementsOf(c.slots) \ {t}) \cup {s}
    PROVE  \A o : EntryIn(new, o) = IF o = s.k THEN AsEntry(s)
                                    ELSE IF o = t.k THEN Nothing ELSE EntryIn(c, o)
<1> SUFFICES ASSUME NEW o
             PROVE  EntryIn(new, o) = IF o = s.k THEN AsEntry(s)
                                      ELSE IF o = t.k THEN Nothing ELSE EntryIn(c, o)
  OBVIOUS
<1>1. UniqueKeys(c) /\ \A x, y \in ElementsOf(c.slots) : x.k = y.k => x = y
  BY SlotsDiffer DEF GoodLevel
<1>2. CASE o = s.k
  BY <1>2, EntryOfSlot
<1>3. CASE o # s.k /\ o = t.k
  <2>1. \A x \in ElementsOf(new.slots) : x.k # o
    BY <1>1, <1>3
  <2> QED
    BY <1>3, <2>1, NoSlotNoEntry
<1>4. CASE o # s.k /\ o # t.k
  <2>1. CASE \E x \in ElementsOf(c.slots) : x.k = o
    <3>1. PICK x \in ElementsOf(c.slots) : x.k = o
      BY <2>1
    <3>2. x \in ElementsOf(new.slots)
      BY <1>4, <3>1
    <3>3. EntryIn(new, o) = AsEntry(x) /\ EntryIn(c, o) = AsEntry(x)
      BY <1>1, <3>1, <3>2, EntryOfSlot
    <3> QED
      BY <1>4, <3>3
  <2>2. CASE \A x \in ElementsOf(c.slots) : x.k # o
    <3>1. \A x \in ElementsOf(new.slots) : x.k # o
      BY <1>4, <2>2
    <3> QED
      BY <1>4, <2>2, <3>1, NoSlotNoEntry
  <2> QED
    BY <2>1, <2>2
<1> QED
  BY <1>2, <1>3, <1>4

LEMMA AddedEntry ==
    ASSUME NEW c, UniqueKeys(c), NEW new, UniqueKeys(new), NEW s,
           ElementsOf(new.slots) = ElementsOf(c.slots) \cup {s}
    PROVE  \A o : EntryIn(new, o) = IF o = s.k THEN AsEntry(s) ELSE EntryIn(c, o)
<1> SUFFICES ASSUME NEW o
             PROVE  EntryIn(new, o) = IF o = s.k THEN AsEntry(s) ELSE EntryIn(c, o)
  OBVIOUS
<1>1. CASE o = s.k
  BY <1>1, EntryOfSlot
<1>2. CASE o # s.k /\ \E x \in ElementsOf(c.slots) : x.k = o
  <2>1. PICK x \in ElementsOf(c.slots) : x.k = o
    BY <1>2
  <2>2. EntryIn(new, o) = AsEntry(x) /\ EntryIn(c, o) = AsEntry(x)
    BY <2>1, EntryOfSlot
  <2> QED
    BY <1>2, <2>2
<1>3. CASE o # s.k /\ \A x \in ElementsOf(c.slots) : x.k # o
  <2>1. \A x \in ElementsOf(new.slots) : x.k # o
    BY <1>3
  <2> QED
    BY <1>3, <2>1, NoSlotNoEntry
<1> QED
  BY <1>1, <1>2, <1>3

LEMMA KillAtEntries ==
    ASSUME NEW cap \in Nat, NEW b, NEW c, GoodLevel(c, cap, b),
           NEW i \in Positions(c), IsLive(c.slots[i])
    PROVE  \A o : EntryIn(KillAt(c, i), o) =
                      IF o = c.slots[i].k THEN Nothing ELSE EntryIn(c, o)
<1> DEFINE q == c.slots
           s == SlotFor(q[i].k, NoValue, 0)
           new == KillAt(c, i)
<1>1. /\ q \in Seq(Slot) /\ i \in 1..Len(q) /\ q[i] \in Slot /\ q[i].k \in Keys /\ NoRepeats(q)
  BY SlotFacts, SlotsDiffer
<1>2. s \in Slot /\ s.k = q[i].k /\ AsEntry(s) = Nothing
  BY <1>1 DEF SlotFor, Slot, IsLive, AsEntry
<1>3. new.slots = ToBack(q, i, s) /\ UniqueKeys(new)
  BY KillAtGood DEF KillAt, GoodLevel
<1>4. q[i] \in ElementsOf(q)
  BY <1>1 DEF ElementsOf
<1> HIDE DEF s, new
<1>5. ElementsOf(new.slots) = (ElementsOf(q) \ {q[i]}) \cup {s}
  <2> HIDE DEF q
  <2>1. ElementsOf(ToBack(q, i, s)) = (ElementsOf(q) \ {q[i]}) \cup {s}
    BY <1>1, <1>2, ToBackElements
  <2> QED
    BY <1>3, <2>1
<1>6. \A o : EntryIn(new, o) = IF o = s.k THEN AsEntry(s)
                               ELSE IF o = q[i].k THEN Nothing ELSE EntryIn(c, o)
  BY <1>3, <1>4, <1>5, SwappedEntries
<1> QED
  BY <1>2, <1>6 DEF new

LEMMA DelEntries ==
    ASSUME NEW cap \in Nat, NEW b, NEW c, GoodLevel(c, cap, b), NEW k
    PROVE  \A o : EntryIn(Del(c, k), o) = IF o = k THEN Nothing ELSE EntryIn(c, o)
<1>1. CASE LiveIn(c, k)
  <2>1. /\ PosOf(c, k) \in Positions(c) /\ c.slots[PosOf(c, k)].k = k
        /\ IsLive(c.slots[PosOf(c, k)])
    BY <1>1, LiveSlot DEF GoodLevel
  <2>2. \A o : EntryIn(KillAt(c, PosOf(c, k)), o) = IF o = k THEN Nothing ELSE EntryIn(c, o)
    BY <2>1, KillAtEntries
  <2> QED
    BY <1>1, <2>2 DEF Del
<1>2. CASE ~LiveIn(c, k)
  BY <1>2 DEF Del, EntryIn
<1> QED
  BY <1>1, <1>2

(* evictOldest loses one entry and reports just that one.                  *)
LEMMA EvictOldestEntries ==
    ASSUME NEW cap \in Nat, NEW b, NEW c, GoodLevel(c, cap, b), AnyLive(c)
    PROVE  \E t \in Keys :
               /\ BucketOf[t] = b /\ EntryIn(c, t) # Nothing
               /\ EvictCalls(c) = Call(t, EntryIn(c, t).v)
               /\ \A o : EntryIn(EvictOldest(c), o) = IF o = t THEN Nothing ELSE EntryIn(c, o)
<1> DEFINE i == OldestLive(c)
           s == c.slots[i]
<1>1. i \in Positions(c) /\ IsLive(s)
  BY OldestLiveExists DEF GoodLevel
<1>2. s.k \in Keys /\ BucketOf[s.k] = b /\ i \in 1..Len(c.slots)
  BY <1>1, SlotFacts
<1>3. EntryIn(c, s.k) = [v |-> s.v, exp |-> s.exp]
  <2>1. s \in ElementsOf(c.slots)
    BY <1>2 DEF ElementsOf
  <2>2. EntryIn(c, s.k) = AsEntry(s)
    BY <2>1, EntryOfSlot DEF GoodLevel
  <2> QED
    BY <1>1, <2>2 DEF AsEntry
<1>4. EntryIn(c, s.k) # Nothing
  <2>1. LiveIn(c, s.k)
    BY <1>1 DEF LiveIn
  <2> QED
    BY <2>1, LiveEntry
<1>5. EvictCalls(c) = Call(s.k, s.v)
  BY DEF EvictCalls, Call
<1>6. \A o : EntryIn(EvictOldest(c), o) = IF o = s.k THEN Nothing ELSE EntryIn(c, o)
  BY <1>1, KillAtEntries DEF EvictOldest
<1> QED
  BY <1>2, <1>3, <1>4, <1>5, <1>6

LEMMA FrontEntries ==
    ASSUME NEW cap, NEW b, NEW c, GoodLevel(c, cap, b), NEW i \in Positions(c), NEW s \in Slot,
           NEW new, UniqueKeys(new), new.slots = ToFront(c.slots, i, s)
    PROVE  \A o : EntryIn(new, o) = IF o = s.k THEN AsEntry(s)
                                    ELSE IF o = c.slots[i].k THEN Nothing ELSE EntryIn(c, o)
<1> DEFINE q == c.slots
<1>1. q \in Seq(Slot) /\ i \in 1..Len(q) /\ NoRepeats(q)
  BY SlotFacts, SlotsDiffer
<1>2. q[i] \in ElementsOf(q)
  BY <1>1 DEF ElementsOf
<1>3. ElementsOf(new.slots) = (ElementsOf(q) \ {q[i]}) \cup {s}
  <2> HIDE DEF q
  <2>1. ElementsOf(ToFront(q, i, s)) = (ElementsOf(q) \ {q[i]}) \cup {s}
    BY <1>1, ToFrontElements
  <2> QED
    BY <2>1 DEF q
<1> QED
  BY <1>2, <1>3, SwappedEntries

(* put installs its entry and loses, and reports, at most one other.       *)
LEMMA PutEntries ==
    ASSUME NEW cap \in Nat \ {0}, NEW b, NEW c, GoodLevel(c, cap, b),
           NEW k \in Keys, BucketOf[k] = b, NEW v \in Values, NEW e \in Int
    PROVE  /\ EntryIn(Put(c, cap, k, v, e), k) = AsEntry(SlotFor(k, v, e))
           /\ \/ /\ PutCalls(c, cap, k) = << >>
                 /\ \A o : o # k => EntryIn(Put(c, cap, k, v, e), o) = EntryIn(c, o)
              \/ \E t \in Keys \ {k} :
                    /\ BucketOf[t] = b /\ EntryIn(c, t) # Nothing
                    /\ PutCalls(c, cap, k) = Call(t, EntryIn(c, t).v)
                    /\ \A o : o # k => EntryIn(Put(c, cap, k, v, e), o) =
                                           IF o = t THEN Nothing ELSE EntryIn(c, o)
<1> DEFINE s == SlotFor(k, v, e)
           new == Put(c, cap, k, v, e)
<1>1. s \in Slot /\ s.k = k
  BY DEF SlotFor, Slot
<1>2. UniqueKeys(new) /\ UniqueKeys(c)
  BY PutGood DEF GoodLevel
<1>3. c.slots \in Seq(Slot) /\ Len(c.slots) \in Nat /\ Len(c.slots) <= cap
  BY DEF GoodLevel, Level
<1>4. ASSUME NEW i \in Positions(c), new.slots = ToFront(c.slots, i, s)
      PROVE  \A o : EntryIn(new, o) = IF o = k THEN AsEntry(s)
                                      ELSE IF o = c.slots[i].k THEN Nothing ELSE EntryIn(c, o)
  <2> HIDE DEF s, new
  <2> QED
    BY <1>1, <1>2, <1>4, FrontEntries
<1>5. CASE Held(c, k)
  <2>1. PosOf(c, k) \in Positions(c) /\ c.slots[PosOf(c, k)].k = k
    BY <1>5, PosOfHeld
  <2>2. new.slots = ToFront(c.slots, PosOf(c, k), s) /\ PutCalls(c, cap, k) = << >>
    BY <1>5 DEF Put, PutHeld, PutCalls
  <2>3. \A o : EntryIn(new, o) = IF o = k THEN AsEntry(s)
                                 ELSE IF o = c.slots[PosOf(c, k)].k THEN Nothing ELSE EntryIn(c, o)
    BY <1>4, <2>1, <2>2
  <2> QED
    BY <2>1, <2>2, <2>3
<1>6. CASE ~Held(c, k) /\ Len(c.slots) = cap
  <2> DEFINE t == c.slots[Len(c.slots)]
  <2>1. Len(c.slots) \in Positions(c)
    BY <1>3, <1>6 DEF Positions
  <2>2. new.slots = ToFront(c.slots, Len(c.slots), s)
    BY <1>6 DEF Put, PutRecycle
  <2>3. \A o : EntryIn(new, o) = IF o = k THEN AsEntry(s)
                                 ELSE IF o = t.k THEN Nothing ELSE EntryIn(c, o)
    BY <1>4, <2>1, <2>2
  <2>4. t.k \in Keys /\ BucketOf[t.k] = b /\ t.k # k /\ t \in ElementsOf(c.slots)
    <3>1. t.k \in Keys /\ BucketOf[t.k] = b /\ Len(c.slots) \in 1..Len(c.slots)
      BY <2>1, SlotFacts
    <3> QED
      BY <1>6, <2>1, <3>1 DEF Held, ElementsOf
  <2>5. EntryIn(c, t.k) = AsEntry(t)
    BY <1>2, <2>4, EntryOfSlot
  <2>6. CASE IsLive(t)
    <3>1. EntryIn(c, t.k) = [v |-> t.v, exp |-> t.exp]
      BY <2>5, <2>6 DEF AsEntry
    <3>2. EntryIn(c, t.k) # Nothing
      <4>1. LiveIn(c, t.k)
        BY <2>1, <2>6 DEF LiveIn
      <4> QED
        BY <4>1, LiveEntry
    <3>3. PutCalls(c, cap, k) = Call(t.k, t.v)
      BY <1>6, <2>6 DEF PutCalls, Call
    <3>4. PutCalls(c, cap, k) = Call(t.k, EntryIn(c, t.k).v)
      BY <3>1, <3>3
    <3> HIDE DEF t, s, new
    <3> QED
      BY <2>3, <2>4, <3>2, <3>4 DEF new, s
  <2>7. CASE ~IsLive(t)
    <3>1. EntryIn(c, t.k) = Nothing /\ PutCalls(c, cap, k) = << >>
      BY <1>6, <2>5, <2>7 DEF AsEntry, PutCalls
    <3> QED
      BY <2>3, <3>1
  <2> QED
    BY <2>6, <2>7
<1>7. CASE ~Held(c, k) /\ Len(c.slots) # cap
  <2>1. new.slots = PushFront(c.slots, s) /\ PutCalls(c, cap, k) = << >>
    BY <1>7 DEF Put, PutFresh, PutCalls
  <2>2. ElementsOf(new.slots) = ElementsOf(c.slots) \cup {s}
    <3> DEFINE q == c.slots
    <3>1. q \in Seq(Slot)
      BY <1>3
    <3> HIDE DEF q, s
    <3>2. ElementsOf(PushFront(q, s)) = ElementsOf(q) \cup {s}
      BY <1>1, <3>1, PushFrontElements
    <3> QED
      BY <2>1, <3>2 DEF q
  <2>3. \A o : EntryIn(new, o) = IF o = k THEN AsEntry(s) ELSE EntryIn(c, o)
    <3> HIDE DEF s, new
    <3> QED
      BY <1>1, <1>2, <2>2, AddedEntry
  <2> QED
    BY <2>1, <2>3
<1> QED
  BY <1>5, <1>6, <1>7

LEMMA TouchEntries ==
    ASSUME NEW cap \in Nat, NEW b, NEW c, GoodLevel(c, cap, b), NEW k, LiveIn(c, k)
    PROVE  \A o : EntryIn(Touch(c, k), o) = EntryIn(c, o)
<1> DEFINE i == PosOf(c, k)
           s == SlotOf(c, k)
           new == Touch(c, k)
<1>1. i \in Positions(c) /\ s = c.slots[i] /\ s.k = k /\ UniqueKeys(c)
  BY LiveSlot DEF GoodLevel
<1>2. s \in Slot /\ s \in ElementsOf(c.slots)
  BY <1>1, SlotFacts DEF ElementsOf, Positions
<1>3. new.slots = ToFront(c.slots, i, s) /\ UniqueKeys(new)
  BY TouchGood DEF Touch, GoodLevel, Level
<1>4. AsEntry(s) = EntryIn(c, k)
  BY <1>1, <1>2, EntryOfSlot
<1> HIDE DEF i, s, new
<1>5. \A o : EntryIn(new, o) = IF o = s.k THEN AsEntry(s)
                               ELSE IF o = c.slots[i].k THEN Nothing ELSE EntryIn(c, o)
  BY <1>1, <1>2, <1>3, FrontEntries
<1> QED
  BY <1>1, <1>4, <1>5 DEF new

-----------------------------------------------------------------------------
(* Sums over finite sets. Induction is over the set: of the subsets for    *)
(* which a fact fails there would be a least one.                          *)

(* A nonempty set of finite subsets of S has one that is minimal.          *)
LEMMA MinimalExists ==
    ASSUME NEW S
    PROVE  \A B \in SUBSET FiniteSubsetsOf(S) :
               B # {} => \E m \in B : \A s \in B : s \subseteq m => s = m
<1> SUFFICES ASSUME NEW B \in SUBSET FiniteSubsetsOf(S), B # {}
             PROVE  \E m \in B : \A s \in B : s \subseteq m => s = m
  OBVIOUS
<1>1. PICK m \in B : \A s \in B : ~ (<<s, m>> \in StrictSubsetOrdering(S))
  BY FS_StrictSubsetOrderingWellFounded, WFMin
<1>2. \A s \in B : ~ (s \subseteq m /\ s # m)
  BY <1>1 DEF StrictSubsetOrdering, FiniteSubsetsOf
<1> QED
  BY <1>2

Chosen(s) == CHOOSE x \in s : TRUE

LEMMA ChosenIn == ASSUME NEW s, s # {} PROVE Chosen(s) \in s
BY DEF Chosen

(* g is the recursion of SumFunctionOnSet on the subsets of S.             *)
Sums(f, S, g) ==
    g = [s \in SUBSET S |-> IF s = {} THEN 0 ELSE f[Chosen(s)] + g[s \ {Chosen(s)}]]

LEMMA SumByRecursion ==
    ASSUME NEW f, NEW S, \E g : Sums(f, S, g)
    PROVE  \E g : Sums(f, S, g) /\ SumFunctionOnSet(f, S) = g[S]
<1> DEFINE g == CHOOSE g : Sums(f, S, g)
<1>1. Sums(f, S, g)
  OBVIOUS
<1>2. SumFunctionOnSet(f, S) = g[S]
  BY DEF SumFunctionOnSet, FoldFunctionOnSet, MapThenFoldSet, Sums, Chosen
<1> QED
  BY <1>1, <1>2

LEMMA SumsAt ==
    ASSUME NEW f, NEW S, NEW g, Sums(f, S, g), NEW s \in SUBSET S
    PROVE  g[s] = IF s = {} THEN 0 ELSE f[Chosen(s)] + g[s \ {Chosen(s)}]
BY DEF Sums

(* Two recursions agree on the finite sets that both know.                 *)
LEMMA SumsAgree ==
    ASSUME NEW f, NEW S, NEW R, NEW g, NEW h, Sums(f, S, g), Sums(f, R, h), IsFiniteSet(S)
    PROVE  \A s \in SUBSET (S \cap R) : g[s] = h[s]
<1> DEFINE B == {s \in SUBSET (S \cap R) : g[s] # h[s]}
<1> SUFFICES ASSUME B # {} PROVE FALSE
  OBVIOUS
<1>1. \A s \in B : IsFiniteSet(s)
  BY FS_Subset
<1>2. PICK m \in B : \A s \in B : s \subseteq m => s = m
  <2>1. B \in SUBSET FiniteSubsetsOf(S \cap R)
    BY <1>1 DEF FiniteSubsetsOf
  <2> HIDE DEF B
  <2> QED
    BY <2>1, MinimalExists
<1>3. m \in SUBSET S /\ m \in SUBSET R /\ g[m] # h[m]
  BY <1>2
<1>4. m # {}
  BY <1>3, SumsAt
<1> DEFINE r == m \ {Chosen(m)}
<1>5. r # m /\ r \subseteq m
  BY <1>4, ChosenIn
<1>6. g[r] = h[r]
  BY <1>2, <1>5
<1>7. g[m] = f[Chosen(m)] + g[r] /\ h[m] = f[Chosen(m)] + h[r]
  BY <1>3, <1>4, SumsAt
<1> QED
  BY <1>3, <1>6, <1>7

LEMMA SumsExist ==
    ASSUME NEW f, NEW S, IsFiniteSet(S)
    PROVE  \E g : Sums(f, S, g)
<1> DEFINE B == {s \in SUBSET S : ~ \E g : Sums(f, s, g)}
<1> SUFFICES ASSUME B # {} PROVE FALSE
  OBVIOUS
<1>1. \A s \in B : IsFiniteSet(s)
  BY FS_Subset
<1>2. PICK m \in B : \A s \in B : s \subseteq m => s = m
  <2>1. B \in SUBSET FiniteSubsetsOf(S)
    BY <1>1 DEF FiniteSubsetsOf
  <2> HIDE DEF B
  <2> QED
    BY <2>1, MinimalExists
<1>3. m \in SUBSET S /\ ~ \E g : Sums(f, m, g)
  BY <1>2
<1>4. \A s \in SUBSET m : s # m => \E g : Sums(f, s, g)
  BY <1>2
<1> HIDE DEF B
<1> DEFINE known(s) == (CHOOSE g : Sums(f, s, g))[s]
           value(s) == IF s = m /\ m # {}
                       THEN f[Chosen(m)] + known(m \ {Chosen(m)})
                       ELSE IF s = {} THEN 0 ELSE known(s)
           G == [s \in SUBSET m |-> value(s)]
<1>5. ASSUME NEW s \in SUBSET m, s # m, s # {}
      PROVE  known(s) = f[Chosen(s)] + value(s \ {Chosen(s)})
  <2> DEFINE r == s \ {Chosen(s)}
             gs == CHOOSE g : Sums(f, s, g)
             gr == CHOOSE g : Sums(f, r, g)
  <2>1. r \in SUBSET m /\ r # m /\ r \subseteq s
    BY <1>5, ChosenIn
  <2>2. Sums(f, s, gs) /\ Sums(f, r, gr)
    BY <1>4, <1>5, <2>1
  <2>3. IsFiniteSet(s)
    BY <1>3, FS_Subset
  <2>4. gs[r] = gr[r]
    <3> HIDE DEF gs, gr, r
    <3>1. \A x \in SUBSET (s \cap r) : gs[x] = gr[x]
      BY <2>2, <2>3, SumsAgree
    <3> QED
      BY <2>1, <3>1
  <2>5. gs[s] = f[Chosen(s)] + gs[r]
    <3> HIDE DEF gs
    <3> QED
      BY <1>5, <2>2, SumsAt
  <2>6. r = {} => gr[r] = 0
    <3> HIDE DEF gr
    <3> QED
      BY <2>2, SumsAt
  <2>7. value(r) = gr[r]
    BY <2>1, <2>6
  <2> QED
    BY <2>4, <2>5, <2>7
<1>6. m # {} => /\ m \ {Chosen(m)} \in SUBSET m /\ m \ {Chosen(m)} # m
                /\ value(m) = f[Chosen(m)] + value(m \ {Chosen(m)})
  <2> SUFFICES ASSUME m # {} PROVE /\ m \ {Chosen(m)} \in SUBSET m /\ m \ {Chosen(m)} # m
                                   /\ value(m) = f[Chosen(m)] + value(m \ {Chosen(m)})
    OBVIOUS
  <2> DEFINE r == m \ {Chosen(m)}
             gr == CHOOSE g : Sums(f, r, g)
  <2>1. r \in SUBSET m /\ r # m
    BY ChosenIn
  <2>2. Sums(f, r, gr)
    BY <1>4, <2>1
  <2>3. r = {} => gr[r] = 0
    <3> HIDE DEF gr
    <3> QED
      BY <2>2, SumsAt
  <2>4. known(r) = gr[r]
    OBVIOUS
  <2>5. value(r) = known(r)
    BY <2>1, <2>3, <2>4
  <2> QED
    BY <2>1, <2>5
<1>7. \A s \in SUBSET m :
          value(s) = IF s = {} THEN 0 ELSE f[Chosen(s)] + value(s \ {Chosen(s)})
  <2> SUFFICES ASSUME NEW s \in SUBSET m
               PROVE  value(s) = IF s = {} THEN 0 ELSE f[Chosen(s)] + value(s \ {Chosen(s)})
    OBVIOUS
  <2>1. CASE s = {}
    BY <2>1
  <2>2. CASE s # {} /\ s = m
    BY <1>6, <2>2
  <2>3. CASE s # {} /\ s # m
    <3>1. value(s) = known(s)
      BY <2>3
    <3>2. known(s) = f[Chosen(s)] + value(s \ {Chosen(s)})
      BY <1>5, <2>3
    <3> HIDE DEF value, known
    <3> QED
      BY <2>3, <3>1, <3>2
  <2> QED
    BY <2>1, <2>2, <2>3
<1> HIDE DEF value
<1>8. Sums(f, m, G)
  BY <1>7 DEF Sums
<1> QED
  BY <1>3, <1>8

(* The sum is the recursion the definition says it is.                     *)
LEMMA SumStep ==
    ASSUME NEW f, NEW S, IsFiniteSet(S)
    PROVE  SumFunctionOnSet(f, S) =
               IF S = {} THEN 0
               ELSE f[Chosen(S)] + SumFunctionOnSet(f, S \ {Chosen(S)})
<1> DEFINE r == S \ {Chosen(S)}
<1>1. IsFiniteSet(r)
  BY FS_Subset
<1>2. PICK g : Sums(f, S, g) /\ SumFunctionOnSet(f, S) = g[S]
  BY SumsExist, SumByRecursion
<1>3. PICK h : Sums(f, r, h) /\ SumFunctionOnSet(f, r) = h[r]
  BY <1>1, SumsExist, SumByRecursion
<1>4. g[r] = h[r]
  <2>1. \A s \in SUBSET (S \cap r) : g[s] = h[s]
    BY <1>2, <1>3, SumsAgree
  <2> QED
    BY <2>1
<1>5. g[S] = IF S = {} THEN 0 ELSE f[Chosen(S)] + g[r]
  BY <1>2, SumsAt
<1> QED
  BY <1>2, <1>3, <1>4, <1>5

(* Any element may be taken first.                                         *)
LEMMA SumTake ==
    ASSUME NEW f, NEW S, IsFiniteSet(S), \A x \in S : f[x] \in Nat
    PROVE  /\ SumFunctionOnSet(f, S) \in Nat
           /\ \A x \in S : SumFunctionOnSet(f, S) = f[x] + SumFunctionOnSet(f, S \ {x})
<1> DEFINE T(s) == SumFunctionOnSet(f, s)
           Good(s) == T(s) \in Nat /\ \A x \in s : T(s) = f[x] + T(s \ {x})
           B == {s \in SUBSET S : ~ Good(s)}
<1> HIDE DEF T
<1> SUFFICES ASSUME B # {} PROVE FALSE
  BY DEF T
<1>1. \A s \in SUBSET S : IsFiniteSet(s)
  BY FS_Subset
<1>2. PICK m \in B : \A s \in B : s \subseteq m => s = m
  <2>1. B \in SUBSET FiniteSubsetsOf(S)
    BY <1>1 DEF FiniteSubsetsOf
  <2> HIDE DEF B
  <2> QED
    BY <2>1, MinimalExists
<1>3. m \in SUBSET S /\ ~ Good(m)
  BY <1>2
<1>4. \A s \in SUBSET m : s # m => Good(s)
  BY <1>2
<1> HIDE DEF B
<1>5. \A s \in SUBSET S : T(s) = IF s = {} THEN 0 ELSE f[Chosen(s)] + T(s \ {Chosen(s)})
  BY <1>1, SumStep DEF T
<1>6. m # {}
  <2> SUFFICES ASSUME m = {} PROVE Good(m)
    BY <1>3
  <2>1. T(m) = 0
    BY <1>3, <1>5
  <2> QED
    BY <2>1
<1> DEFINE p == Chosen(m)
<1>7. p \in m
  BY <1>6, ChosenIn
<1> HIDE DEF p
<1>8. T(m) = f[p] + T(m \ {p})
  BY <1>3, <1>5, <1>6 DEF p
<1>9. T(m) \in Nat
  BY <1>3, <1>4, <1>7, <1>8
<1>10. ASSUME NEW x \in m PROVE T(m) = f[x] + T(m \ {x})
  <2>1. CASE x = p
    BY <1>8, <2>1
  <2>2. CASE x # p
    <3>1. Good(m \ {p}) /\ Good(m \ {x})
      BY <1>4, <1>7
    <3>2. T(m \ {p}) = f[x] + T((m \ {p}) \ {x}) /\ T(m \ {x}) = f[p] + T((m \ {x}) \ {p})
      BY <1>7, <2>2, <3>1
    <3>3. (m \ {p}) \ {x} = (m \ {x}) \ {p}
      OBVIOUS
    <3>4. T((m \ {x}) \ {p}) \in Nat
      BY <1>4, <1>7
    <3>5. f[x] \in Nat /\ f[p] \in Nat
      BY <1>3, <1>7
    <3> DEFINE a == f[p]  b == f[x]  c == T((m \ {x}) \ {p})
    <3>6. T(m \ {p}) = b + c /\ T(m \ {x}) = a + c
      BY <3>2, <3>3
    <3>7. a \in Nat /\ b \in Nat /\ c \in Nat
      BY <3>4, <3>5
    <3> HIDE DEF a, b, c
    <3>8. a + (b + c) = b + (a + c)
      BY <3>7
    <3> QED
      BY <1>8, <3>6, <3>8 DEF a, b
  <2> QED
    BY <2>1, <2>2
<1> QED
  BY <1>3, <1>9, <1>10

(* It depends on the function's values on the set only.                    *)
LEMMA SumSame ==
    ASSUME NEW f, NEW h, NEW S, IsFiniteSet(S), \A x \in S : f[x] = h[x]
    PROVE  SumFunctionOnSet(f, S) = SumFunctionOnSet(h, S)
<1> DEFINE T(s) == SumFunctionOnSet(f, s)
           U(s) == SumFunctionOnSet(h, s)
           B == {s \in SUBSET S : T(s) # U(s)}
<1> HIDE DEF T, U
<1> SUFFICES ASSUME B # {} PROVE FALSE
  BY DEF T, U
<1>1. \A s \in SUBSET S : IsFiniteSet(s)
  BY FS_Subset
<1>2. PICK m \in B : \A s \in B : s \subseteq m => s = m
  <2>1. B \in SUBSET FiniteSubsetsOf(S)
    BY <1>1 DEF FiniteSubsetsOf
  <2> HIDE DEF B
  <2> QED
    BY <2>1, MinimalExists
<1>3. IsFiniteSet(m) /\ m \in SUBSET S /\ T(m) # U(m)
  BY <1>1, <1>2
<1>4. /\ T(m) = IF m = {} THEN 0 ELSE f[Chosen(m)] + T(m \ {Chosen(m)})
      /\ U(m) = IF m = {} THEN 0 ELSE h[Chosen(m)] + U(m \ {Chosen(m)})
  BY <1>3, SumStep DEF T, U
<1>5. m # {}
  BY <1>3, <1>4
<1>6. Chosen(m) \in m
  BY <1>5, ChosenIn
<1>7. T(m \ {Chosen(m)}) = U(m \ {Chosen(m)}) /\ f[Chosen(m)] = h[Chosen(m)]
  BY <1>2, <1>6
<1> QED
  BY <1>3, <1>4, <1>7

-----------------------------------------------------------------------------
(* The bytes of a level.                                                   *)

BytesOf(k, e) == IF e = Nothing THEN 0 ELSE entryBytes(k, e.v)
BytesIn(c, k) == BytesOf(k, EntryIn(c, k))
Weights(c) == [k \in LiveKeys(c) |-> entryBytes(k, SlotOf(c, k).v)]

(* What the live keys outside K count for.                                 *)
Outside(c, K) == SumFunctionOnSet(Weights(c), LiveKeys(c) \ K)

Counted(c) == c.bytes = LiveBytes(c)

LEMMA EntryBytesNat ==
    ASSUME NEW k \in Keys, NEW v \in Values
    PROVE  entryBytes(k, v) \in Nat
BY LruLevelAssumption DEF entryBytes

LEMMA LiveKeysFinite ==
    ASSUME NEW c, c.slots \in Seq(Slot)
    PROVE  IsFiniteSet(LiveKeys(c))
<1> DEFINE n == Len(c.slots)
           key == [i \in 1 .. n |-> c.slots[i].k]
           held == {key[i] : i \in 1 .. n}
<1>1. n \in Nat /\ IsFiniteSet(1 .. n)
  BY FS_Interval
<1>2. key \in Surjection(1 .. n, held)
  BY DEF Surjection
<1>3. IsFiniteSet(held)
  BY <1>1, <1>2, FS_Surjection
<1>4. LiveKeys(c) \in SUBSET held
  BY DEF LiveKeys, LiveIn, Positions
<1> QED
  BY <1>3, <1>4, FS_Subset

LEMMA LevelWeights ==
    ASSUME NEW cap, NEW b, NEW c, GoodLevel(c, cap, b)
    PROVE  /\ IsFiniteSet(LiveKeys(c))
           /\ LiveBytes(c) = Outside(c, {})
           /\ \A k \in LiveKeys(c) : Weights(c)[k] = BytesIn(c, k) /\ BytesIn(c, k) \in Nat
           /\ \A k \in Keys : k \notin LiveKeys(c) => BytesIn(c, k) = 0
           /\ \A k : k \in LiveKeys(c) <=> k \in Keys /\ EntryIn(c, k) # Nothing
<1>1. IsFiniteSet(LiveKeys(c))
  BY LiveKeysFinite DEF GoodLevel, Level
<1>2. LiveBytes(c) = Outside(c, {})
  <2>1. LiveKeys(c) \ {} = LiveKeys(c) /\ DOMAIN Weights(c) = LiveKeys(c)
    BY DEF Weights
  <2> QED
    BY <2>1 DEF LiveBytes, Outside, SumFunction, Weights
<1>3. \A k \in Keys : k \in LiveKeys(c) <=> EntryIn(c, k) # Nothing
  BY LiveEntry DEF LiveKeys
<1>4. ASSUME NEW k \in LiveKeys(c)
      PROVE  Weights(c)[k] = BytesIn(c, k) /\ BytesIn(c, k) \in Nat
  <2>1. k \in Keys /\ LiveIn(c, k)
    BY DEF LiveKeys
  <2>2. /\ EntryIn(c, k) # Nothing /\ EntryIn(c, k).v = SlotOf(c, k).v
        /\ SlotOf(c, k).v \in Values
    BY <2>1, LiveEntry
  <2> QED
    BY <2>1, <2>2, EntryBytesNat DEF Weights, BytesIn, BytesOf
<1>5. \A k \in Keys : k \notin LiveKeys(c) => BytesIn(c, k) = 0
  BY <1>3 DEF BytesIn, BytesOf
<1> QED
  BY <1>1, <1>2, <1>3, <1>4, <1>5 DEF LiveKeys

LEMMA OutsideTakes ==
    ASSUME NEW cap, NEW b, NEW c, GoodLevel(c, cap, b), NEW k \in Keys
    PROVE  \A K : k \notin K =>
               /\ Outside(c, K) \in Nat /\ BytesIn(c, k) \in Nat
               /\ Outside(c, K) = BytesIn(c, k) + Outside(c, K \cup {k})
<1> SUFFICES ASSUME NEW K, k \notin K
             PROVE  /\ Outside(c, K) \in Nat /\ BytesIn(c, k) \in Nat
                    /\ Outside(c, K) = BytesIn(c, k) + Outside(c, K \cup {k})
  OBVIOUS
<1> DEFINE S == LiveKeys(c) \ K
<1>1. IsFiniteSet(S) /\ \A x \in S : Weights(c)[x] \in Nat
  BY LevelWeights, FS_Subset
<1>2. S \ {k} = LiveKeys(c) \ (K \cup {k})
  OBVIOUS
<1>3. Outside(c, K) \in Nat
  BY <1>1, SumTake DEF Outside
<1>4. CASE k \in LiveKeys(c)
  <2>1. k \in S
    BY <1>4
  <2>2. SumFunctionOnSet(Weights(c), S) = Weights(c)[k] + SumFunctionOnSet(Weights(c), S \ {k})
    <3> HIDE DEF S
    <3> QED
      BY <1>1, <2>1, SumTake
  <2> QED
    BY <1>2, <1>3, <1>4, <2>2, LevelWeights DEF Outside
<1>5. CASE k \notin LiveKeys(c)
  <2>1. BytesIn(c, k) = 0
    BY <1>5, LevelWeights
  <2>2. LiveKeys(c) \ (K \cup {k}) = LiveKeys(c) \ K
    BY <1>5
  <2> QED
    BY <1>3, <2>1, <2>2 DEF Outside
<1> QED
  BY <1>4, <1>5

LEMMA OutsideSame ==
    ASSUME NEW cap, NEW b, NEW c, GoodLevel(c, cap, b), NEW d, GoodLevel(d, cap, b), NEW K,
           \A o \in Keys \ K : EntryIn(d, o) = EntryIn(c, o)
    PROVE  Outside(d, K) = Outside(c, K)
<1> DEFINE S == LiveKeys(c) \ K
<1>1. LiveKeys(d) \ K = S
  BY LevelWeights DEF LiveKeys
<1>2. IsFiniteSet(S)
  BY LevelWeights, FS_Subset
<1>3. ASSUME NEW x \in S PROVE Weights(d)[x] = Weights(c)[x]
  <2>1. x \in LiveKeys(c) /\ x \in LiveKeys(d) /\ EntryIn(d, x) = EntryIn(c, x)
    BY <1>1 DEF LiveKeys
  <2>2. Weights(c)[x] = BytesIn(c, x) /\ Weights(d)[x] = BytesIn(d, x)
    BY <2>1, LevelWeights
  <2> QED
    BY <2>1, <2>2 DEF BytesIn
<1> HIDE DEF S
<1>4. SumFunctionOnSet(Weights(d), S) = SumFunctionOnSet(Weights(c), S)
  BY <1>2, <1>3, SumSame
<1> QED
  BY <1>1, <1>4 DEF Outside, S

LEMMA CountNat ==
    ASSUME NEW cap, NEW b, NEW c, GoodLevel(c, cap, b)
    PROVE  LiveBytes(c) \in Nat /\ (Counted(c) => c.bytes \in Nat)
<1>1. LiveBytes(c) \in Nat
  BY LevelWeights, FS_Subset, SumTake DEF Outside
<1> QED
  BY <1>1 DEF Counted

LEMMA OneTaken ==
    ASSUME NEW cap, NEW b, NEW c, GoodLevel(c, cap, b), NEW k \in Keys
    PROVE  /\ LiveBytes(c) = BytesIn(c, k) + Outside(c, {k})
           /\ LiveBytes(c) \in Nat /\ BytesIn(c, k) \in Nat /\ Outside(c, {k}) \in Nat
<1>1. /\ Outside(c, {}) \in Nat /\ BytesIn(c, k) \in Nat
      /\ Outside(c, {}) = BytesIn(c, k) + Outside(c, {} \cup {k})
  BY OutsideTakes
<1>2. {} \cup {k} = {k}
  OBVIOUS
<1>3. Outside(c, {k}) \in Nat
  BY LevelWeights, FS_Subset, SumTake DEF Outside
<1> QED
  BY <1>1, <1>2, <1>3, LevelWeights

LEMMA TwoTaken ==
    ASSUME NEW cap, NEW b, NEW c, GoodLevel(c, cap, b), NEW k \in Keys, NEW t \in Keys, k # t
    PROVE  /\ LiveBytes(c) = BytesIn(c, k) + (BytesIn(c, t) + Outside(c, {k} \cup {t}))
           /\ LiveBytes(c) \in Nat /\ BytesIn(c, k) \in Nat /\ BytesIn(c, t) \in Nat
           /\ Outside(c, {k} \cup {t}) \in Nat
<1>1. t \notin {k}
  OBVIOUS
<1>2. BytesIn(c, t) \in Nat /\ Outside(c, {k}) = BytesIn(c, t) + Outside(c, {k} \cup {t})
  BY <1>1, OutsideTakes
<1>3. Outside(c, {k} \cup {t}) \in Nat
  BY LevelWeights, FS_Subset, SumTake DEF Outside
<1> QED
  BY <1>2, <1>3, OneTaken

(* The bytes of a level after a change to two of its keys, or to one.      *)
LEMMA TwoKeysBytes ==
    ASSUME NEW cap, NEW b, NEW c, GoodLevel(c, cap, b), NEW d, GoodLevel(d, cap, b),
           NEW k \in Keys, NEW t \in Keys, k # t,
           \A o \in Keys : o # k /\ o # t => EntryIn(d, o) = EntryIn(c, o)
    PROVE  /\ LiveBytes(d) + (BytesIn(c, k) + BytesIn(c, t))
                  = LiveBytes(c) + (BytesIn(d, k) + BytesIn(d, t))
           /\ LiveBytes(c) \in Nat /\ LiveBytes(d) \in Nat
           /\ BytesIn(c, k) \in Nat /\ BytesIn(c, t) \in Nat
           /\ BytesIn(d, k) \in Nat /\ BytesIn(d, t) \in Nat
<1> DEFINE both == {k} \cup {t}
           w == Outside(c, both)
<1>1. \A o \in Keys \ both : EntryIn(d, o) = EntryIn(c, o)
  OBVIOUS
<1>2. /\ LiveBytes(c) = BytesIn(c, k) + (BytesIn(c, t) + w)
      /\ LiveBytes(c) \in Nat /\ BytesIn(c, k) \in Nat /\ BytesIn(c, t) \in Nat /\ w \in Nat
  BY TwoTaken
<1>3. /\ LiveBytes(d) = BytesIn(d, k) + (BytesIn(d, t) + Outside(d, both))
      /\ LiveBytes(d) \in Nat /\ BytesIn(d, k) \in Nat /\ BytesIn(d, t) \in Nat
  BY TwoTaken
<1> HIDE DEF both
<1>4. Outside(d, both) = w
  BY <1>1, OutsideSame
<1> HIDE DEF w
<1> QED
  BY <1>2, <1>3, <1>4

LEMMA OneKeyBytes ==
    ASSUME NEW cap, NEW b, NEW c, GoodLevel(c, cap, b), NEW d, GoodLevel(d, cap, b),
           NEW k \in Keys, \A o \in Keys : o # k => EntryIn(d, o) = EntryIn(c, o)
    PROVE  /\ LiveBytes(d) + BytesIn(c, k) = LiveBytes(c) + BytesIn(d, k)
           /\ LiveBytes(c) \in Nat /\ LiveBytes(d) \in Nat
           /\ BytesIn(c, k) \in Nat /\ BytesIn(d, k) \in Nat
<1> DEFINE K == {k}
           w == Outside(c, K)
<1>1. \A o \in Keys \ K : EntryIn(d, o) = EntryIn(c, o)
  OBVIOUS
<1>2. LiveBytes(c) = BytesIn(c, k) + w /\ LiveBytes(c) \in Nat /\ BytesIn(c, k) \in Nat /\ w \in Nat
  BY OneTaken
<1>3. /\ LiveBytes(d) = BytesIn(d, k) + Outside(d, K)
      /\ LiveBytes(d) \in Nat /\ BytesIn(d, k) \in Nat
  BY OneTaken
<1> HIDE DEF K
<1>4. Outside(d, K) = w
  BY <1>1, OutsideSame
<1> HIDE DEF w
<1> QED
  BY <1>2, <1>3, <1>4

-----------------------------------------------------------------------------
(* The counts of the levels after each of their operations.                *)

LEMMA SlotBytes ==
    ASSUME NEW cap, NEW b, NEW c, GoodLevel(c, cap, b), NEW i \in Positions(c)
    PROVE  LET s == c.slots[i] IN
           /\ s.k \in Keys /\ EntryIn(c, s.k) = AsEntry(s)
           /\ BytesIn(c, s.k) = IF IsLive(s) THEN entryBytes(s.k, s.v) ELSE 0
<1> DEFINE s == c.slots[i]
<1>1. s.k \in Keys /\ s \in ElementsOf(c.slots)
  BY SlotFacts DEF ElementsOf, Positions
<1>2. EntryIn(c, s.k) = AsEntry(s)
  BY <1>1, EntryOfSlot DEF GoodLevel
<1>3. CASE IsLive(s)
  <2>1. LiveIn(c, s.k)
    BY <1>3 DEF LiveIn
  <2>2. EntryIn(c, s.k) # Nothing
    BY <2>1, LiveEntry
  <2>3. EntryIn(c, s.k).v = s.v
    BY <1>2, <1>3 DEF AsEntry
  <2> QED
    BY <1>1, <1>2, <1>3, <2>2, <2>3 DEF BytesIn, BytesOf
<1>4. CASE ~IsLive(s)
  BY <1>1, <1>2, <1>4 DEF AsEntry, BytesIn, BytesOf
<1> QED
  BY <1>3, <1>4, <1>1, <1>2

(* del and evictOldest keep the count exact, and never let it grow.        *)
LEMMA KillAtBytes ==
    ASSUME NEW cap \in Nat, NEW b, NEW c, GoodLevel(c, cap, b), Counted(c),
           NEW i \in Positions(c), IsLive(c.slots[i])
    PROVE  /\ Counted(KillAt(c, i))
           /\ KillAt(c, i).bytes = c.bytes - BytesIn(c, c.slots[i].k)
           /\ KillAt(c, i).bytes \in Nat /\ c.bytes \in Nat /\ BytesIn(c, c.slots[i].k) \in Nat
<1> DEFINE k == c.slots[i].k
           d == KillAt(c, i)
<1>1. k \in Keys /\ BytesIn(c, k) = entryBytes(k, c.slots[i].v)
  BY SlotBytes
<1>2. GoodLevel(d, cap, b)
  BY KillAtGood
<1>3. \A o : EntryIn(d, o) = IF o = k THEN Nothing ELSE EntryIn(c, o)
  BY KillAtEntries
<1>4. d.bytes = c.bytes - entryBytes(k, c.slots[i].v)
  BY DEF KillAt
<1> HIDE DEF d, k
<1>5. BytesIn(d, k) = 0
  BY <1>3 DEF BytesIn, BytesOf
<1>6. /\ LiveBytes(d) + BytesIn(c, k) = LiveBytes(c) + BytesIn(d, k)
      /\ LiveBytes(c) \in Nat /\ LiveBytes(d) \in Nat /\ BytesIn(c, k) \in Nat
  BY <1>1, <1>2, <1>3, OneKeyBytes
<1>7. d.bytes = LiveBytes(d) /\ c.bytes = LiveBytes(c) /\ d.bytes = c.bytes - BytesIn(c, k)
  BY <1>1, <1>4, <1>5, <1>6 DEF Counted, k
<1> QED
  BY <1>6, <1>7 DEF Counted, d, k

LEMMA DelBytes ==
    ASSUME NEW cap \in Nat, NEW b, NEW c, GoodLevel(c, cap, b), Counted(c), NEW k \in Keys
    PROVE  /\ Counted(Del(c, k)) /\ Del(c, k).bytes = c.bytes - BytesIn(c, k)
           /\ Del(c, k).bytes \in Nat /\ c.bytes \in Nat /\ BytesIn(c, k) \in Nat
<1>1. CASE LiveIn(c, k)
  <2>1. /\ PosOf(c, k) \in Positions(c) /\ c.slots[PosOf(c, k)].k = k
        /\ IsLive(c.slots[PosOf(c, k)])
    BY <1>1, LiveSlot DEF GoodLevel
  <2>2. /\ Counted(KillAt(c, PosOf(c, k)))
        /\ KillAt(c, PosOf(c, k)).bytes = c.bytes - BytesIn(c, k)
        /\ KillAt(c, PosOf(c, k)).bytes \in Nat /\ c.bytes \in Nat /\ BytesIn(c, k) \in Nat
    BY <2>1, KillAtBytes
  <2> QED
    BY <1>1, <2>2 DEF Del
<1>2. CASE ~LiveIn(c, k)
  <2>1. BytesIn(c, k) = 0
    BY <1>2, LevelWeights DEF LiveKeys
  <2>2. c.bytes \in Nat
    BY OneTaken DEF Counted
  <2> QED
    BY <1>2, <2>1, <2>2 DEF Del
<1> QED
  BY <1>1, <1>2

LEMMA EvictOldestBytes ==
    ASSUME NEW cap \in Nat, NEW b, NEW c, GoodLevel(c, cap, b), Counted(c), AnyLive(c)
    PROVE  /\ Counted(EvictOldest(c)) /\ EvictOldest(c).bytes <= c.bytes
           /\ EvictOldest(c).bytes \in Nat /\ c.bytes \in Nat
<1>1. OldestLive(c) \in Positions(c) /\ IsLive(c.slots[OldestLive(c)])
  BY OldestLiveExists DEF GoodLevel
<1> QED
  BY <1>1, KillAtBytes DEF EvictOldest

(* adjust leaves the count alone.                                          *)
LEMMA TouchBytes ==
    ASSUME NEW cap \in Nat, NEW b, NEW c, GoodLevel(c, cap, b), Counted(c),
           NEW k \in Keys, LiveIn(c, k)
    PROVE  Counted(Touch(c, k)) /\ Touch(c, k).bytes = c.bytes
<1> DEFINE d == Touch(c, k)
<1>1. GoodLevel(d, cap, b)
  BY TouchGood
<1>2. \A o : EntryIn(d, o) = EntryIn(c, o)
  BY TouchEntries
<1>3. d.bytes = c.bytes
  BY DEF Touch, GoodLevel, Level
<1> HIDE DEF d
<1>4. /\ LiveBytes(d) + BytesIn(c, k) = LiveBytes(c) + BytesIn(d, k)
      /\ LiveBytes(c) \in Nat /\ LiveBytes(d) \in Nat /\ BytesIn(c, k) \in Nat
  BY <1>1, <1>2, OneKeyBytes
<1>5. BytesIn(d, k) = BytesIn(c, k)
  BY <1>2 DEF BytesIn
<1> QED
  BY <1>3, <1>4, <1>5 DEF Counted, d

LEMMA NoneLiveBytes ==
    ASSUME NEW cap, NEW b, NEW c, GoodLevel(c, cap, b), Counted(c), ~AnyLive(c)
    PROVE  c.bytes = 0
<1>1. LiveKeys(c) = {}
  BY DEF LiveKeys, LiveIn, AnyLive
<1>2. LiveKeys(c) \ {} = {} /\ IsFiniteSet({})
  BY <1>1, FS_EmptySet
<1>3. Outside(c, {}) = 0
  BY <1>2, SumStep DEF Outside
<1> QED
  BY <1>3, LevelWeights DEF Counted

(* put counts the new entry and takes off what it overwrites or recycles.  *)
LEMMA PutBytes ==
    ASSUME NEW cap \in Nat \ {0}, NEW b, NEW c, GoodLevel(c, cap, b), Counted(c),
           NEW k \in Keys, BucketOf[k] = b, NEW v \in Values, NEW e \in Int, e > 0
    PROVE  /\ Counted(Put(c, cap, k, v, e))
           /\ Put(c, cap, k, v, e).bytes <= c.bytes + entryBytes(k, v)
           /\ Put(c, cap, k, v, e).bytes \in Nat /\ c.bytes \in Nat
<1> DEFINE s == SlotFor(k, v, e)
           d == Put(c, cap, k, v, e)
           n == entryBytes(k, v)
<1>1. s \in Slot /\ s.k = k /\ s.v = v /\ IsLive(s) /\ n \in Nat
  BY EntryBytesNat DEF SlotFor, Slot, IsLive
<1>2. GoodLevel(d, cap, b) /\ UniqueKeys(d)
  BY PutGood DEF GoodLevel
<1>3. EntryIn(d, k) = AsEntry(s)
  BY PutEntries
<1>4. BytesIn(d, k) = n
  <2>1. AsEntry(s) = [v |-> v, exp |-> e]
    BY <1>1 DEF AsEntry, SlotFor
  <2>2. AsEntry(s) # Nothing
    BY <2>1 DEF Nothing
  <2> QED
    BY <1>3, <2>1, <2>2 DEF BytesIn, BytesOf
<1>5. c.slots \in Seq(Slot) /\ Len(c.slots) \in Nat /\ Len(c.slots) <= cap
  BY DEF GoodLevel, Level
<1>6. ASSUME NEW i \in Positions(c), d.slots = ToFront(c.slots, i, s)
      PROVE  \A o : EntryIn(d, o) = IF o = k THEN AsEntry(s)
                                    ELSE IF o = c.slots[i].k THEN Nothing ELSE EntryIn(c, o)
  <2> HIDE DEF s, d
  <2> QED
    BY <1>1, <1>2, <1>6, FrontEntries
<1>7. CASE Held(c, k)
  <2> DEFINE i == PosOf(c, k)
             old == c.slots[i]
  <2>1. i \in Positions(c) /\ old.k = k
    BY <1>7, PosOfHeld
  <2>2. /\ d.slots = ToFront(c.slots, i, s)
        /\ d.bytes = c.bytes + n - (IF IsLive(old) THEN entryBytes(old.k, old.v) ELSE 0)
    BY <1>7 DEF Put, PutHeld
  <2>3. BytesIn(c, k) = IF IsLive(old) THEN entryBytes(old.k, old.v) ELSE 0
    BY <2>1, SlotBytes
  <2> HIDE DEF i, old, s, d, n
  <2>4. \A o \in Keys : o # k => EntryIn(d, o) = EntryIn(c, o)
    <3>1. \A o : EntryIn(d, o) = IF o = k THEN AsEntry(s)
                                 ELSE IF o = c.slots[i].k THEN Nothing ELSE EntryIn(c, o)
      BY <1>6, <2>1, <2>2
    <3> QED
      BY <2>1, <3>1 DEF old
  <2>5. /\ LiveBytes(d) + BytesIn(c, k) = LiveBytes(c) + BytesIn(d, k)
        /\ LiveBytes(c) \in Nat /\ LiveBytes(d) \in Nat /\ BytesIn(c, k) \in Nat
    BY <1>2, <2>4, OneKeyBytes
  <2>6. c.bytes = LiveBytes(c) /\ d.bytes = c.bytes + n - BytesIn(c, k)
    BY <2>2, <2>3 DEF Counted
  <2>7. d.bytes = LiveBytes(d) /\ d.bytes <= c.bytes + n
    BY <1>1, <1>4, <2>5, <2>6
  <2> QED
    BY <2>5, <2>6, <2>7 DEF Counted, d, n
<1>8. CASE ~Held(c, k) /\ Len(c.slots) = cap
  <2> DEFINE last == Len(c.slots)
             tail == c.slots[last]
             t == tail.k
  <2>1. last \in Positions(c)
    BY <1>5, <1>8 DEF Positions
  <2>2. /\ d.slots = ToFront(c.slots, last, s)
        /\ d.bytes = c.bytes + n - (IF IsLive(tail) THEN entryBytes(tail.k, tail.v) ELSE 0)
    BY <1>8 DEF Put, PutRecycle
  <2>3. t \in Keys /\ BytesIn(c, t) = IF IsLive(tail) THEN entryBytes(tail.k, tail.v) ELSE 0
    BY <2>1, SlotBytes
  <2>4. t # k
    BY <1>8, <2>1 DEF Held
  <2>5. BytesIn(c, k) = 0
    <3>1. ~LiveIn(c, k)
      BY <1>8 DEF Held, LiveIn
    <3> QED
      BY <3>1, LevelWeights DEF LiveKeys
  <2> HIDE DEF s, d, n, last, tail, t
  <2>6. \A o : EntryIn(d, o) = IF o = k THEN AsEntry(s)
                               ELSE IF o = t THEN Nothing ELSE EntryIn(c, o)
    BY <1>6, <2>1, <2>2 DEF t, tail
  <2>7. BytesIn(d, t) = 0
    BY <2>4, <2>6 DEF BytesIn, BytesOf
  <2>8. /\ LiveBytes(d) + (BytesIn(c, k) + BytesIn(c, t))
               = LiveBytes(c) + (BytesIn(d, k) + BytesIn(d, t))
        /\ LiveBytes(c) \in Nat /\ LiveBytes(d) \in Nat /\ BytesIn(c, t) \in Nat
    BY <1>2, <2>3, <2>4, <2>6, TwoKeysBytes
  <2>9. c.bytes = LiveBytes(c) /\ d.bytes = c.bytes + n - BytesIn(c, t)
    BY <2>2, <2>3 DEF Counted
  <2>10. d.bytes = LiveBytes(d) /\ d.bytes <= c.bytes + n
    BY <1>1, <1>4, <2>5, <2>7, <2>8, <2>9
  <2> QED
    BY <2>8, <2>9, <2>10 DEF Counted, d, n
<1>9. CASE ~Held(c, k) /\ Len(c.slots) # cap
  <2>1. d.slots = PushFront(c.slots, s) /\ d.bytes = c.bytes + n
    BY <1>9 DEF Put, PutFresh
  <2>2. BytesIn(c, k) = 0
    <3>1. ~LiveIn(c, k)
      BY <1>9 DEF Held, LiveIn
    <3> QED
      BY <3>1, LevelWeights DEF LiveKeys
  <2>3. \A o : EntryIn(d, o) = IF o = k THEN AsEntry(s) ELSE EntryIn(c, o)
    <3> DEFINE q == c.slots
    <3>1. q \in Seq(Slot)
      BY <1>5
    <3> HIDE DEF q, s, d
    <3>2. ElementsOf(PushFront(q, s)) = ElementsOf(q) \cup {s}
      BY <1>1, <3>1, PushFrontElements
    <3>3. ElementsOf(d.slots) = ElementsOf(c.slots) \cup {s}
      BY <2>1, <3>2 DEF q
    <3> QED
      BY <1>1, <1>2, <3>3, AddedEntry DEF GoodLevel
  <2> HIDE DEF s, d, n
  <2>4. /\ LiveBytes(d) + BytesIn(c, k) = LiveBytes(c) + BytesIn(d, k)
        /\ LiveBytes(c) \in Nat /\ LiveBytes(d) \in Nat
    BY <1>2, <2>3, OneKeyBytes
  <2>5. c.bytes = LiveBytes(c) /\ d.bytes = LiveBytes(d) /\ d.bytes = c.bytes + n
    BY <1>1, <1>4, <2>1, <2>2, <2>4 DEF Counted
  <2> QED
    BY <1>1, <2>4, <2>5 DEF Counted, d, n
<1> QED
  BY <1>7, <1>8, <1>9

-----------------------------------------------------------------------------
(* The store.  Every step changes at most one bucket.                      *)

LevelsGood ==
    /\ l1 \in [Buckets -> Level] /\ l2 \in [Buckets -> Level]
    /\ \A b \in Buckets : GoodLevel(l1[b], Cap1, b) /\ GoodLevel(l2[b], Cap2, b)

RestTyped ==
    /\ clock \in 1..MaxTime
    /\ holder \in [Buckets -> {"free", "trim"} \cup Sweepers]
    /\ doomed \in [Buckets -> SUBSET Keys]
    /\ pos \in [Sweepers -> 0..Stopped]
    /\ sampled \in 0..MaxTime
    /\ ticked \in BOOLEAN /\ closed \in BOOLEAN
    /\ event \in Events
    /\ calls \in Seq(Keys \X Values)

(* The inductive invariant: LiveInOneLevel needs OneSlotPerKey, since only *)
(* then del kills every live slot of a key.                                *)
IInv == LevelsGood /\ RestTyped /\ LiveInOneLevel

LEMMA BucketStep ==
    ASSUME LevelsGood, LiveInOneLevel, NEW b \in Buckets, NEW x, NEW y,
           GoodLevel(x, Cap1, b), GoodLevel(y, Cap2, b),
           LiveKeys(x) \cap LiveKeys(y) = {},
           l1' = [l1 EXCEPT ![b] = x], l2' = [l2 EXCEPT ![b] = y]
    PROVE  /\ LevelsGood' /\ LiveInOneLevel'
           /\ DeadSlotsLast /\ DeadLast(x) /\ DeadLast(y) => DeadSlotsLast'
<1>1. x \in Level /\ y \in Level
  BY DEF GoodLevel
<1>2. l1' \in [Buckets -> Level] /\ l2' \in [Buckets -> Level]
  BY <1>1 DEF LevelsGood
<1>3. /\ l1'[b] = x /\ l2'[b] = y
      /\ \A a \in Buckets \ {b} : l1'[a] = l1[a] /\ l2'[a] = l2[a]
  BY DEF LevelsGood
<1>4. LevelsGood'
  BY <1>2, <1>3 DEF LevelsGood
<1>5. LiveInOneLevel'
  BY <1>3 DEF LiveInOneLevel
<1>6. DeadSlotsLast /\ DeadLast(x) /\ DeadLast(y) => DeadSlotsLast'
  BY <1>3 DEF DeadSlotsLast
<1>7. QED
  BY <1>4, <1>5, <1>6

LEMMA LevelsUnchanged ==
    ASSUME LevelsGood, LiveInOneLevel, UNCHANGED levels
    PROVE  LevelsGood' /\ LiveInOneLevel' /\ (DeadSlotsLast => DeadSlotsLast')
<1>1. l1' = l1 /\ l2' = l2
  BY DEF levels
<1>2. QED
  BY <1>1 DEF LevelsGood, LiveInOneLevel, DeadSlotsLast

(* What a step has to do with the levels.                                  *)
LevelsKept == LevelsGood' /\ LiveInOneLevel' /\ (DeadSlotsLast => DeadSlotsLast')

LEMMA ConstantFacts ==
    /\ Cap1 \in Nat /\ Cap2 \in Nat /\ Cap1 \in Nat \ {0} /\ Cap2 \in Nat \ {0}
    /\ \A k \in Keys : BucketOf[k] \in Buckets
    /\ Int64Max \in Nat /\ MaxTime \in Nat
BY LruStoreAssumption

LEMMA DeleteStep ==
    ASSUME IInv, NEW k \in Keys, delete(k)
    PROVE  LevelsKept /\ calls' \in Seq(Keys \X Values)
<1> DEFINE b == BucketOf[k]
           x == Del(l1[b], k)
           y == Del(l2[b], k)
<1>1. b \in Buckets /\ GoodLevel(l1[b], Cap1, b) /\ GoodLevel(l2[b], Cap2, b)
  BY ConstantFacts DEF IInv, LevelsGood
<1>2. LiveKeys(l1[b]) \cap LiveKeys(l2[b]) = {}
  BY <1>1 DEF IInv, LiveInOneLevel
<1>3. /\ GoodLevel(x, Cap1, b) /\ (DeadLast(l1[b]) => DeadLast(x))
      /\ LiveKeys(x) \subseteq LiveKeys(l1[b])
  BY <1>1, ConstantFacts, DelGood
<1>4. /\ GoodLevel(y, Cap2, b) /\ (DeadLast(l2[b]) => DeadLast(y))
      /\ LiveKeys(y) \subseteq LiveKeys(l2[b])
  BY <1>1, ConstantFacts, DelGood
<1>5. l1' = [l1 EXCEPT ![b] = x] /\ l2' = [l2 EXCEPT ![b] = y]
  BY DEF delete
<1>6. LiveIn(l1[b], k) => SlotOf(l1[b], k).v \in Values
  BY <1>1, LiveValue
<1>7. LiveIn(l2[b], k) => SlotOf(l2[b], k).v \in Values
  BY <1>1, LiveValue
<1>8. calls' \in Seq(Keys \X Values)
  BY <1>6, <1>7 DEF delete, Call
<1> HIDE DEF b, x, y
<1>9. LiveKeys(x) \cap LiveKeys(y) = {}
  BY <1>2, <1>3, <1>4
<1>10. LevelsKept
  BY <1>1, <1>3, <1>4, <1>5, <1>9, BucketStep DEF LevelsKept, IInv, DeadSlotsLast
<1>11. QED
  BY <1>8, <1>10

LEMMA SetStep ==
    ASSUME IInv, NEW k \in Keys, NEW v \in Values, NEW d \in Expirations,
           NEW t \in 1..clock, SetWithExpiration(k, v, d, t)
    PROVE  /\ LevelsGood' /\ LiveInOneLevel'
           /\ NoOverflow /\ DeadSlotsLast => DeadSlotsLast'
           /\ calls' \in Seq(Keys \X Values)
<1> DEFINE b == BucketOf[k]
           e == ExpireAt(t, d)
           x == Put(l1[b], Cap1, k, v, e)
           y == Del(l2[b], k)
<1>1. b \in Buckets /\ GoodLevel(l1[b], Cap1, b) /\ GoodLevel(l2[b], Cap2, b)
  BY ConstantFacts DEF IInv, LevelsGood
<1>2. LiveKeys(l1[b]) \cap LiveKeys(l2[b]) = {}
  BY <1>1 DEF IInv, LiveInOneLevel
<1>3. d \in Int /\ t \in Int /\ Int64Max \in Int /\ t > 0 /\ t <= MaxTime
      /\ d >= 0 /\ MaxTime \in Int
  BY LruStoreAssumption DEF IInv, RestTyped
<1>4. e \in Int
  BY <1>3 DEF ExpireAt, Int64Add
<1>5. NoOverflow => e > 0
  <2> SUFFICES ASSUME NoOverflow PROVE e > 0
    OBVIOUS
  <2>1. t + d <= Int64Max
    BY <1>3 DEF NoOverflow
  <2>2. Int64Max > 0
    BY LruStoreAssumption
  <2>3. QED
    BY <1>3, <2>1, <2>2 DEF ExpireAt, Int64Add
<1> HIDE DEF e
<1>6. /\ GoodLevel(x, Cap1, b) /\ (DeadLast(l1[b]) /\ e > 0 => DeadLast(x))
      /\ LiveKeys(x) \subseteq LiveKeys(l1[b]) \cup {k}
      /\ PutCalls(l1[b], Cap1, k) \in Seq(Keys \X Values)
  BY <1>1, <1>4, ConstantFacts, PutGood
<1>7. /\ GoodLevel(y, Cap2, b) /\ (DeadLast(l2[b]) => DeadLast(y))
      /\ LiveKeys(y) \subseteq LiveKeys(l2[b]) \ {k}
  BY <1>1, ConstantFacts, DelGood
<1>8. /\ l1' = [l1 EXCEPT ![b] = x] /\ l2' = [l2 EXCEPT ![b] = y]
      /\ calls' = PutCalls(l1[b], Cap1, k)
  BY DEF SetWithExpiration, e
<1> HIDE DEF b, x, y
<1>9. LiveKeys(x) \cap LiveKeys(y) = {}
  BY <1>2, <1>6, <1>7
<1>10. QED
  BY <1>1, <1>5, <1>6, <1>7, <1>8, <1>9, BucketStep DEF IInv, DeadSlotsLast

LEMMA GetLevel1Step ==
    ASSUME IInv, NEW k \in Keys, GetLevel1(k)
    PROVE  /\ LevelsKept /\ calls' \in Seq(Keys \X Values)
           /\ event' \in Events
<1> DEFINE b == BucketOf[k]
           s == SlotOf(l1[b], k)
           x == Del(l1[b], k)
           y1 == Del(l2[b], k)
           y2 == Put(l2[b], Cap2, k, s.v, s.exp)
<1>1. b \in Buckets /\ GoodLevel(l1[b], Cap1, b) /\ GoodLevel(l2[b], Cap2, b)
  BY ConstantFacts DEF IInv, LevelsGood
<1>2. LiveKeys(l1[b]) \cap LiveKeys(l2[b]) = {}
  BY <1>1 DEF IInv, LiveInOneLevel
<1>3. s.v \in Values /\ s.exp \in Int /\ s.exp > 0
  BY <1>1, LiveValue DEF GetLevel1
<1>4. /\ GoodLevel(x, Cap1, b) /\ (DeadLast(l1[b]) => DeadLast(x))
      /\ LiveKeys(x) \subseteq LiveKeys(l1[b]) \ {k}
  BY <1>1, ConstantFacts, DelGood
<1>5. /\ GoodLevel(y1, Cap2, b) /\ (DeadLast(l2[b]) => DeadLast(y1))
      /\ LiveKeys(y1) \subseteq LiveKeys(l2[b])
  BY <1>1, ConstantFacts, DelGood
<1>6. /\ GoodLevel(y2, Cap2, b) /\ (DeadLast(l2[b]) => DeadLast(y2))
      /\ LiveKeys(y2) \subseteq LiveKeys(l2[b]) \cup {k}
      /\ PutCalls(l2[b], Cap2, k) \in Seq(Keys \X Values)
  <2> HIDE DEF s
  <2>1. QED
    BY <1>1, <1>3, ConstantFacts, PutGood
<1>7. l1' = [l1 EXCEPT ![b] = x]
  BY DEF GetLevel1
<1>8. \/ /\ l2' = [l2 EXCEPT ![b] = y1] /\ event' = Event("got", k, Miss)
         /\ calls' = Call(k, s.v)
      \/ /\ l2' = [l2 EXCEPT ![b] = y2] /\ event' = Event("got", k, s.v)
         /\ calls' = PutCalls(l2[b], Cap2, k)
  BY DEF GetLevel1
<1>9. /\ Call(k, s.v) \in Seq(Keys \X Values)
      /\ Event("got", k, Miss) \in Events /\ Event("got", k, s.v) \in Events
  BY <1>3 DEF Call, Event, Events
<1> HIDE DEF b, s, x, y1, y2
<1>10. LiveKeys(x) \cap LiveKeys(y1) = {} /\ LiveKeys(x) \cap LiveKeys(y2) = {}
  BY <1>2, <1>4, <1>5, <1>6
<1>11. LevelsKept
  BY <1>1, <1>4, <1>5, <1>6, <1>7, <1>8, <1>10, BucketStep
     DEF LevelsKept, IInv, DeadSlotsLast
<1>12. QED
  BY <1>3, <1>6, <1>8, <1>9, <1>11

LEMMA GetLevel2Step ==
    ASSUME IInv, NEW k \in Keys, GetLevel2(k)
    PROVE  /\ LevelsKept /\ calls' \in Seq(Keys \X Values)
           /\ event' \in Events
<1> DEFINE b == BucketOf[k]
           s == SlotOf(l2[b], k)
           y1 == Del(l2[b], k)
           y2 == Touch(l2[b], k)
<1>1. b \in Buckets /\ GoodLevel(l1[b], Cap1, b) /\ GoodLevel(l2[b], Cap2, b)
  BY ConstantFacts DEF IInv, LevelsGood
<1>2. LiveKeys(l1[b]) \cap LiveKeys(l2[b]) = {}
  BY <1>1 DEF IInv, LiveInOneLevel
<1>3. s.v \in Values
  BY <1>1, LiveValue DEF GetLevel2
<1>4. /\ GoodLevel(y1, Cap2, b) /\ (DeadLast(l2[b]) => DeadLast(y1))
      /\ LiveKeys(y1) \subseteq LiveKeys(l2[b])
  BY <1>1, ConstantFacts, DelGood
<1>5. /\ GoodLevel(y2, Cap2, b) /\ (DeadLast(l2[b]) => DeadLast(y2))
      /\ LiveKeys(y2) \subseteq LiveKeys(l2[b])
  BY <1>1, ConstantFacts, TouchGood DEF GetLevel2
<1>6. l1' = [l1 EXCEPT ![b] = l1[b]]
  BY DEF GetLevel2, IInv, LevelsGood
<1>7. \/ /\ l2' = [l2 EXCEPT ![b] = y1] /\ event' = Event("got", k, Miss)
         /\ calls' = Call(k, s.v)
      \/ /\ l2' = [l2 EXCEPT ![b] = y2] /\ event' = Event("got", k, s.v)
         /\ calls' = << >>
  BY DEF GetLevel2
<1>8. /\ Call(k, s.v) \in Seq(Keys \X Values) /\ << >> \in Seq(Keys \X Values)
      /\ Event("got", k, Miss) \in Events /\ Event("got", k, s.v) \in Events
  BY <1>3 DEF Call, Event, Events
<1> HIDE DEF b, s, y1, y2
<1>9. LiveKeys(l1[b]) \cap LiveKeys(y1) = {} /\ LiveKeys(l1[b]) \cap LiveKeys(y2) = {}
  BY <1>2, <1>4, <1>5
<1>10. LevelsKept
  BY <1>1, <1>4, <1>5, <1>6, <1>7, <1>9, BucketStep DEF LevelsKept, IInv, DeadSlotsLast
<1>11. QED
  BY <1>3, <1>7, <1>8, <1>10

LEMMA EvictStep ==
    ASSUME IInv, NEW b \in Buckets, evictFromBucket(b)
    PROVE  LevelsKept /\ calls' \in Seq(Keys \X Values)
<1>1. GoodLevel(l1[b], Cap1, b) /\ GoodLevel(l2[b], Cap2, b)
  BY DEF IInv, LevelsGood
<1>2. LiveKeys(l1[b]) \cap LiveKeys(l2[b]) = {}
  BY DEF IInv, LiveInOneLevel
<1>3. CASE AnyLive(l1[b])
  <2> DEFINE x == EvictOldest(l1[b])
  <2>1. /\ GoodLevel(x, Cap1, b) /\ (DeadLast(l1[b]) => DeadLast(x))
        /\ LiveKeys(x) \subseteq LiveKeys(l1[b]) /\ EvictCalls(l1[b]) \in Seq(Keys \X Values)
    BY <1>1, <1>3, ConstantFacts, EvictOldestGood
  <2>2. /\ l1' = [l1 EXCEPT ![b] = x] /\ l2' = [l2 EXCEPT ![b] = l2[b]]
        /\ calls' = EvictCalls(l1[b])
    BY <1>3 DEF evictFromBucket, IInv, LevelsGood
  <2> HIDE DEF x
  <2>3. LiveKeys(x) \cap LiveKeys(l2[b]) = {}
    BY <1>2, <2>1
  <2>4. QED
    BY <1>1, <2>1, <2>2, <2>3, BucketStep DEF LevelsKept, IInv, DeadSlotsLast
<1>4. CASE ~AnyLive(l1[b])
  <2> DEFINE y == EvictOldest(l2[b])
  <2>1. /\ GoodLevel(y, Cap2, b) /\ (DeadLast(l2[b]) => DeadLast(y))
        /\ LiveKeys(y) \subseteq LiveKeys(l2[b]) /\ EvictCalls(l2[b]) \in Seq(Keys \X Values)
    BY <1>1, <1>4, ConstantFacts, EvictOldestGood DEF evictFromBucket
  <2>2. /\ l1' = [l1 EXCEPT ![b] = l1[b]] /\ l2' = [l2 EXCEPT ![b] = y]
        /\ calls' = EvictCalls(l2[b])
    BY <1>4 DEF evictFromBucket, IInv, LevelsGood
  <2> HIDE DEF y
  <2>3. LiveKeys(l1[b]) \cap LiveKeys(y) = {}
    BY <1>2, <2>1
  <2>4. QED
    BY <1>1, <2>1, <2>2, <2>3, BucketStep DEF LevelsKept, IInv, DeadSlotsLast
<1>5. QED
  BY <1>3, <1>4

LEMMA InitIInv == Init => IInv /\ DeadSlotsLast
<1> SUFFICES ASSUME Init PROVE IInv /\ DeadSlotsLast
  OBVIOUS
<1>1. \A b \in Buckets : l1[b] = EmptyLevel /\ l2[b] = EmptyLevel
  BY DEF Init
<1>2. \A b : GoodLevel(EmptyLevel, Cap1, b) /\ GoodLevel(EmptyLevel, Cap2, b)
  BY ConstantFacts, EmptyLevelGood
<1>3. DeadLast(EmptyLevel) /\ LiveKeys(EmptyLevel) = {}
  BY ConstantFacts, EmptyLevelGood
<1>4. EmptyLevel \in Level
  BY DEF EmptyLevel, Level
<1>5. LevelsGood
  BY <1>1, <1>2, <1>4 DEF LevelsGood, Init
<1>6. LiveInOneLevel /\ DeadSlotsLast
  BY <1>1, <1>3 DEF LiveInOneLevel, DeadSlotsLast
<1>7. Idle \in 0..Stopped /\ 1 \in 1..MaxTime /\ 0 \in 0..MaxTime
  BY LruStoreAssumption DEF Idle, Stopped
<1>8. << >> \in Seq(Keys \X Values)
  OBVIOUS
<1>9. RestTyped
  BY <1>7, <1>8 DEF Init, RestTyped, Sweepers, Events
<1>10. QED
  BY <1>5, <1>6, <1>9 DEF IInv

(* The step of the inductive invariant, one case per action.               *)
LEMMA NextIInv ==
    ASSUME IInv, [Next]_vars
    PROVE  IInv' /\ (NoOverflow /\ DeadSlotsLast => DeadSlotsLast')
<1> DEFINE Kept == /\ LevelsGood' /\ LiveInOneLevel'
                   /\ NoOverflow /\ DeadSlotsLast => DeadSlotsLast'
<1>1. LevelsGood /\ LiveInOneLevel /\ RestTyped
  BY DEF IInv
<1>2. << >> \in Seq(Keys \X Values) /\ Buckets \subseteq Int /\ Idle = NBuckets
      /\ NBuckets \in Nat /\ Stopped = NBuckets + 1
  BY LruStoreAssumption DEF Buckets, Idle, Stopped
<1>0. /\ NoEvent \in Events
      /\ \A k \in Keys : /\ Event("got", k, Miss) \in Events
                         /\ Event("delete", k, NoValue) \in Events
                         /\ \A v \in Values : Event("set", k, v) \in Events
  BY DEF Event, NoEvent, Events
<1>3. ASSUME NEW k \in Keys, GetLevel1(k) PROVE Kept /\ RestTyped'
  <2>1. Kept /\ calls' \in Seq(Keys \X Values) /\ event' \in Events
    BY <1>3, GetLevel1Step DEF LevelsKept
  <2>2. UNCHANGED <<clock, holder, sweeps, closing>>
    BY <1>3 DEF GetLevel1
  <2>3. QED
    BY <1>1, <2>1, <2>2 DEF RestTyped, sweeps, closing
<1>4. ASSUME NEW k \in Keys, GetLevel2(k) PROVE Kept /\ RestTyped'
  <2>1. Kept /\ calls' \in Seq(Keys \X Values) /\ event' \in Events
    BY <1>4, GetLevel2Step DEF LevelsKept
  <2>2. UNCHANGED <<clock, holder, sweeps, closing>>
    BY <1>4 DEF GetLevel2
  <2>3. QED
    BY <1>1, <2>1, <2>2 DEF RestTyped, sweeps, closing
<1>5. ASSUME NEW k \in Keys, GetMiss(k) PROVE Kept /\ RestTyped'
  <2>1. UNCHANGED <<clock, levels, holder, sweeps, closing>> /\ event' = Event("got", k, Miss) /\ calls' = << >>
    BY <1>5 DEF GetMiss
  <2>2. QED
    BY <1>0, <1>1, <1>2, <2>1, LevelsUnchanged DEF RestTyped, sweeps, closing
<1>6. ASSUME NEW k \in Keys, NEW v \in Values, NEW d \in Expirations,
             NEW t \in 1..clock, SetWithExpiration(k, v, d, t)
      PROVE  Kept /\ RestTyped'
  <2>1. Kept /\ calls' \in Seq(Keys \X Values)
    BY <1>6, SetStep
  <2>2. /\ UNCHANGED <<clock, sweeps, closing>> /\ event' = Event("set", k, v)
        /\ holder' = [holder EXCEPT ![BucketOf[k]] = "trim"]
    BY <1>6 DEF SetWithExpiration
  <2>3. QED
    BY <1>0, <1>1, <2>1, <2>2 DEF RestTyped, sweeps, closing
<1>7. ASSUME NEW k \in Keys, Delete(k) PROVE Kept /\ RestTyped'
  <2>1. Kept /\ calls' \in Seq(Keys \X Values)
    BY <1>7, DeleteStep DEF Delete, LevelsKept
  <2>2. UNCHANGED <<clock, holder, sweeps, closing>> /\ event' = Event("delete", k, NoValue)
    BY <1>7 DEF Delete, delete
  <2>3. QED
    BY <1>0, <1>1, <2>1, <2>2 DEF RestTyped, sweeps, closing
<1>8. ASSUME NEW b \in Buckets, TrimStep(b) PROVE Kept /\ RestTyped'
  <2>1. Kept /\ calls' \in Seq(Keys \X Values)
    BY <1>8, EvictStep DEF TrimStep, LevelsKept
  <2>2. UNCHANGED <<clock, holder, sweeps, closing>> /\ event' = NoEvent
    BY <1>8 DEF TrimStep
  <2>3. QED
    BY <1>0, <1>1, <2>1, <2>2 DEF RestTyped, sweeps, closing
<1>9. ASSUME NEW b \in Buckets, TrimDone(b) PROVE Kept /\ RestTyped'
  <2>1. /\ UNCHANGED <<clock, levels, sweeps, closing>> /\ event' = NoEvent
        /\ calls' = << >> /\ holder' = [holder EXCEPT ![b] = "free"]
    BY <1>9 DEF TrimDone
  <2>2. QED
    BY <1>0, <1>1, <1>2, <2>1, LevelsUnchanged DEF RestTyped, sweeps, closing
<1>10. ASSUME NEW w \in Sweepers, Collect(w) PROVE Kept /\ RestTyped'
  <2>1. /\ UNCHANGED <<clock, levels, pos, sampled, closing>> /\ event' = NoEvent
        /\ calls' = << >> /\ holder' = [holder EXCEPT ![pos[w]] = w]
        /\ doomed' = [doomed EXCEPT ![pos[w]] = Doom(w, pos[w])]
    BY <1>10 DEF Collect
  <2>2. Doom(w, pos[w]) \in SUBSET Keys
    BY DEF Doom, LiveKeys, Expired
  <2>3. QED
    BY <1>0, <1>1, <1>2, <2>1, <2>2, LevelsUnchanged DEF RestTyped, closing
<1>11. ASSUME NEW w \in Sweepers, NEW k \in Keys, SweepOne(w, k) PROVE Kept /\ RestTyped'
  <2>1. Kept /\ calls' \in Seq(Keys \X Values)
    BY <1>11, DeleteStep DEF SweepOne, LevelsKept
  <2>2. /\ UNCHANGED <<clock, holder, pos, sampled, closing>> /\ event' = NoEvent
        /\ doomed' = [doomed EXCEPT ![BucketOf[k]] = @ \ {k}]
    BY <1>11 DEF SweepOne, delete
  <2>3. QED
    BY <1>0, <1>1, <2>1, <2>2 DEF RestTyped, closing
<1>12. ASSUME NEW w \in Sweepers, NextBucket(w) PROVE Kept /\ RestTyped'
  <2>1. /\ UNCHANGED <<clock, levels, doomed, sampled, closing>> /\ event' = NoEvent
        /\ calls' = << >> /\ holder' = [holder EXCEPT ![pos[w]] = "free"]
        /\ pos' = [pos EXCEPT ![w] = @ + 1] /\ pos[w] \in Buckets
    BY <1>12 DEF NextBucket
  <2>2. pos[w] + 1 \in 0..Stopped
    BY <1>2, <2>1 DEF Buckets
  <2>3. QED
    BY <1>0, <1>1, <1>2, <2>1, <2>2, LevelsUnchanged DEF RestTyped, closing
<1>13. ASSUME Clear PROVE Kept /\ RestTyped'
  <2>1. /\ UNCHANGED <<clock, levels, holder, doomed, sampled, closing>>
        /\ event' = NoEvent /\ calls' = << >> /\ pos' = [pos EXCEPT !["clear"] = 0]
    BY <1>13 DEF Clear
  <2>2. 0 \in 0..Stopped
    BY <1>2
  <2>3. QED
    BY <1>0, <1>1, <1>2, <2>1, <2>2, LevelsUnchanged DEF RestTyped, closing
<1>14. ASSUME CleanupStart PROVE Kept /\ RestTyped'
  <2>1. /\ UNCHANGED <<clock, levels, holder, doomed, closed>> /\ ticked' = FALSE
        /\ event' = NoEvent /\ calls' = << >> /\ sampled' = clock
        /\ pos' = [pos EXCEPT !["clean"] = 0]
    BY <1>14 DEF CleanupStart
  <2>2. 0 \in 0..Stopped /\ clock \in 0..MaxTime
    BY <1>0, <1>1, <1>2, LruStoreAssumption DEF RestTyped
  <2>3. QED
    BY <1>0, <1>1, <1>2, <2>1, <2>2, LevelsUnchanged DEF RestTyped
<1>15. ASSUME CleanupStop PROVE Kept /\ RestTyped'
  <2>1. /\ UNCHANGED <<clock, levels, holder, doomed, sampled, closing>>
        /\ event' = NoEvent /\ calls' = << >> /\ pos' = [pos EXCEPT !["clean"] = Stopped]
    BY <1>15 DEF CleanupStop
  <2>2. Stopped \in 0..Stopped
    BY <1>2
  <2>3. QED
    BY <1>0, <1>1, <1>2, <2>1, <2>2, LevelsUnchanged DEF RestTyped, closing
<1>16. ASSUME Close PROVE Kept /\ RestTyped'
  <2>1. /\ UNCHANGED <<clock, levels, holder, sweeps, ticked>>
        /\ event' = NoEvent /\ calls' = << >> /\ closed' = TRUE
    BY <1>16 DEF Close
  <2>2. QED
    BY <1>0, <1>1, <1>2, <2>1, LevelsUnchanged DEF RestTyped, sweeps
<1>17. ASSUME ClockAdvance PROVE Kept /\ RestTyped'
  <2>1. /\ UNCHANGED <<levels, holder, sweeps, closing>>
        /\ event' = NoEvent /\ calls' = << >> /\ clock' = clock + 1 /\ clock < MaxTime
    BY <1>17 DEF ClockAdvance
  <2>2. clock + 1 \in 1..MaxTime
    BY <1>0, <1>1, <2>1, LruStoreAssumption DEF RestTyped
  <2>3. QED
    BY <1>0, <1>1, <1>2, <2>1, <2>2, LevelsUnchanged DEF RestTyped, sweeps, closing
<1>18. ASSUME TickerFires PROVE Kept /\ RestTyped'
  <2>1. /\ UNCHANGED <<clock, levels, holder, sweeps, closed>>
        /\ event' = NoEvent /\ calls' = << >> /\ ticked' = TRUE
    BY <1>18 DEF TickerFires
  <2>2. QED
    BY <1>0, <1>1, <1>2, <2>1, LevelsUnchanged DEF RestTyped, sweeps
<1>19. ASSUME UNCHANGED vars PROVE Kept /\ RestTyped'
  <2>1. UNCHANGED levels /\ UNCHANGED <<clock, holder, doomed, pos, sampled, ticked, closed, event, calls>>
    BY <1>19 DEF vars, levels
  <2>2. QED
    BY <1>1, <2>1, LevelsUnchanged DEF RestTyped
<1> HIDE DEF Kept
<1>20. Kept /\ RestTyped'
  BY <1>3, <1>4, <1>5, <1>6, <1>7, <1>8, <1>9, <1>10, <1>11, <1>12, <1>13, <1>14,
     <1>15, <1>16, <1>17, <1>18, <1>19 DEF Next, Caller, Get, TrimLoop, Sweep
<1>21. QED
  BY <1>20 DEF IInv, Kept

-----------------------------------------------------------------------------
(* What a reader of the store sees of a step.                              *)

Visible(x, y, k) == IF EntryIn(x, k) # Nothing THEN EntryIn(x, k) ELSE EntryIn(y, k)

Others(b) == \A o \in Keys : BucketOf[o] # b => Content(o)' = Content(o)

(* Of the entries in K the step loses none and calls nobody, or loses one  *)
(* and reports it.                                                         *)
LosesOne(K) ==
    \/ calls' = << >> /\ \A o \in K : Content(o)' = Content(o)
    \/ \E t \in K : /\ Content(t) # Nothing /\ Content(t)' = Nothing
                    /\ calls' = Call(t, Content(t).v)
                    /\ \A o \in K \ {t} : Content(o)' = Content(o)

LEMMA ContentVisible ==
    ASSUME LevelsGood, NEW k \in Keys
    PROVE  LET b == BucketOf[k] IN
           /\ Content(k) = Visible(l1[b], l2[b], k)
           /\ LiveIn(l1[b], k) => Content(k) = [v |-> SlotOf(l1[b], k).v, exp |-> SlotOf(l1[b], k).exp]
           /\ ~LiveIn(l1[b], k) /\ LiveIn(l2[b], k) =>
                  Content(k) = [v |-> SlotOf(l2[b], k).v, exp |-> SlotOf(l2[b], k).exp]
           /\ ~LiveIn(l1[b], k) /\ ~LiveIn(l2[b], k) => Content(k) = Nothing
           /\ Content(k) # Nothing => Content(k).v \in Values /\ Content(k).exp \in Int /\ Content(k).exp > 0
<1> DEFINE b == BucketOf[k]
<1>1. GoodLevel(l1[b], Cap1, b) /\ GoodLevel(l2[b], Cap2, b)
  BY ConstantFacts DEF LevelsGood
<1>2. /\ LiveIn(l1[b], k) <=> EntryIn(l1[b], k) # Nothing
      /\ LiveIn(l1[b], k) =>
             /\ EntryIn(l1[b], k) = [v |-> SlotOf(l1[b], k).v, exp |-> SlotOf(l1[b], k).exp]
             /\ SlotOf(l1[b], k).v \in Values
             /\ SlotOf(l1[b], k).exp \in Int /\ SlotOf(l1[b], k).exp > 0
  BY <1>1, LiveEntry
<1>3. /\ LiveIn(l2[b], k) <=> EntryIn(l2[b], k) # Nothing
      /\ LiveIn(l2[b], k) =>
             /\ EntryIn(l2[b], k) = [v |-> SlotOf(l2[b], k).v, exp |-> SlotOf(l2[b], k).exp]
             /\ SlotOf(l2[b], k).v \in Values
             /\ SlotOf(l2[b], k).exp \in Int /\ SlotOf(l2[b], k).exp > 0
  BY <1>1, LiveEntry
<1> QED
  BY <1>2, <1>3 DEF Content, Visible

LEMMA BucketContent ==
    ASSUME LevelsGood, LevelsGood', NEW b \in Buckets, NEW x, NEW y,
           l1' = [l1 EXCEPT ![b] = x], l2' = [l2 EXCEPT ![b] = y]
    PROVE  /\ Others(b)
           /\ \A k \in Keys : BucketOf[k] = b => Content(k)' = Visible(x, y, k)
<1>1. /\ l1'[b] = x /\ l2'[b] = y
      /\ \A a \in Buckets \ {b} : l1'[a] = l1[a] /\ l2'[a] = l2[a]
  BY DEF LevelsGood
<1>2. \A k \in Keys : BucketOf[k] \in Buckets
  BY ConstantFacts
<1>3. Others(b)
  BY <1>1, <1>2 DEF Others, Content
<1>4. ASSUME NEW k \in Keys, BucketOf[k] = b PROVE Content(k)' = Visible(x, y, k)
  <2>1. GoodLevel(x, Cap1, b) /\ GoodLevel(y, Cap2, b)
    BY <1>1 DEF LevelsGood
  <2>2. /\ LiveIn(x, k) <=> EntryIn(x, k) # Nothing
        /\ LiveIn(x, k) => EntryIn(x, k) = [v |-> SlotOf(x, k).v, exp |-> SlotOf(x, k).exp]
    BY <2>1, LiveEntry
  <2>3. /\ LiveIn(y, k) <=> EntryIn(y, k) # Nothing
        /\ LiveIn(y, k) => EntryIn(y, k) = [v |-> SlotOf(y, k).v, exp |-> SlotOf(y, k).exp]
    BY <2>1, LiveEntry
  <2>4. Content(k)' = IF LiveIn(x, k) THEN [v |-> SlotOf(x, k).v, exp |-> SlotOf(x, k).exp]
                      ELSE IF LiveIn(y, k) THEN [v |-> SlotOf(y, k).v, exp |-> SlotOf(y, k).exp]
                      ELSE Nothing
    BY <1>1, <1>4 DEF Content
  <2> QED
    BY <2>2, <2>3, <2>4 DEF Visible
<1> QED
  BY <1>3, <1>4

LEMMA SameContent ==
    ASSUME UNCHANGED levels
    PROVE  \A k : Content(k)' = Content(k)
BY DEF levels, Content

(* The levels of a bucket never show the same key, so either may be looked *)
(* at first.                                                               *)
LEMMA OneLevelShows ==
    ASSUME IInv, NEW k \in Keys
    PROVE  LET b == BucketOf[k] IN
           EntryIn(l1[b], k) = Nothing \/ EntryIn(l2[b], k) = Nothing
<1> DEFINE b == BucketOf[k]
<1>1. b \in Buckets /\ GoodLevel(l1[b], Cap1, b) /\ GoodLevel(l2[b], Cap2, b)
  BY ConstantFacts DEF IInv, LevelsGood
<1>2. ~(LiveIn(l1[b], k) /\ LiveIn(l2[b], k))
  BY <1>1 DEF IInv, LiveInOneLevel, LiveKeys
<1> QED
  BY <1>1, <1>2, LiveEntry

LEMMA DeleteContent ==
    ASSUME IInv, NEW k \in Keys, delete(k)
    PROVE  /\ Others(BucketOf[k]) /\ Content(k)' = Nothing
           /\ \A o \in Keys \ {k} : Content(o)' = Content(o)
           /\ LosesOne(Keys)
<1> DEFINE b == BucketOf[k]
           x == Del(l1[b], k)
           y == Del(l2[b], k)
<1>1. b \in Buckets /\ GoodLevel(l1[b], Cap1, b) /\ GoodLevel(l2[b], Cap2, b)
  BY ConstantFacts DEF IInv, LevelsGood
<1>2. LevelsGood /\ LevelsGood'
  BY DeleteStep DEF IInv, LevelsKept
<1>3. /\ \A o : EntryIn(x, o) = IF o = k THEN Nothing ELSE EntryIn(l1[b], o)
      /\ \A o : EntryIn(y, o) = IF o = k THEN Nothing ELSE EntryIn(l2[b], o)
  BY <1>1, ConstantFacts, DelEntries
<1>4. l1' = [l1 EXCEPT ![b] = x] /\ l2' = [l2 EXCEPT ![b] = y]
  BY DEF delete
<1> HIDE DEF x, y
<1>5. Others(b) /\ \A o \in Keys : BucketOf[o] = b => Content(o)' = Visible(x, y, o)
  BY <1>1, <1>2, <1>4, BucketContent
<1>6. \A o \in Keys : BucketOf[o] = b => Content(o) = Visible(l1[b], l2[b], o)
  BY <1>2, ContentVisible
<1>7. Content(k)' = Nothing /\ \A o \in Keys \ {k} : Content(o)' = Content(o)
  BY <1>3, <1>5, <1>6 DEF Visible, Others
<1>8. calls' = IF Content(k) # Nothing THEN Call(k, Content(k).v) ELSE << >>
  BY <1>1, <1>2, ContentVisible, LiveEntry DEF delete
<1> QED
  BY <1>5, <1>7, <1>8 DEF LosesOne

LEMMA EvictContent ==
    ASSUME IInv, NEW b \in Buckets, evictFromBucket(b)
    PROVE  Others(b) /\ LosesOne(Keys)
<1>1. LevelsGood /\ LevelsGood' /\ GoodLevel(l1[b], Cap1, b) /\ GoodLevel(l2[b], Cap2, b)
  BY EvictStep DEF IInv, LevelsGood, LevelsKept
<1>2. \A o \in Keys : BucketOf[o] = b =>
          /\ Content(o) = Visible(l1[b], l2[b], o)
          /\ EntryIn(l1[b], o) = Nothing \/ EntryIn(l2[b], o) = Nothing
  BY <1>1, ContentVisible, OneLevelShows
<1>3. CASE AnyLive(l1[b])
  <2> DEFINE x == EvictOldest(l1[b])
  <2>1. PICK t \in Keys :
            /\ BucketOf[t] = b /\ EntryIn(l1[b], t) # Nothing
            /\ EvictCalls(l1[b]) = Call(t, EntryIn(l1[b], t).v)
            /\ \A o : EntryIn(x, o) = IF o = t THEN Nothing ELSE EntryIn(l1[b], o)
    BY <1>1, <1>3, ConstantFacts, EvictOldestEntries
  <2>2. /\ l1' = [l1 EXCEPT ![b] = x] /\ l2' = [l2 EXCEPT ![b] = l2[b]]
        /\ calls' = EvictCalls(l1[b])
    BY <1>1, <1>3 DEF evictFromBucket, LevelsGood
  <2> HIDE DEF x
  <2>3. Others(b) /\ \A o \in Keys : BucketOf[o] = b => Content(o)' = Visible(x, l2[b], o)
    BY <1>1, <2>2, BucketContent
  <2>4. /\ Content(t) = EntryIn(l1[b], t) /\ Content(t)' = Nothing
        /\ \A o \in Keys \ {t} : Content(o)' = Content(o)
    BY <1>2, <2>1, <2>3 DEF Visible, Others
  <2> QED
    BY <2>1, <2>2, <2>3, <2>4 DEF LosesOne
<1>4. CASE ~AnyLive(l1[b])
  <2> DEFINE y == EvictOldest(l2[b])
  <2>1. PICK t \in Keys :
            /\ BucketOf[t] = b /\ EntryIn(l2[b], t) # Nothing
            /\ EvictCalls(l2[b]) = Call(t, EntryIn(l2[b], t).v)
            /\ \A o : EntryIn(y, o) = IF o = t THEN Nothing ELSE EntryIn(l2[b], o)
    BY <1>1, <1>4, ConstantFacts, EvictOldestEntries DEF evictFromBucket
  <2>2. /\ l1' = [l1 EXCEPT ![b] = l1[b]] /\ l2' = [l2 EXCEPT ![b] = y]
        /\ calls' = EvictCalls(l2[b])
    BY <1>1, <1>4 DEF evictFromBucket, LevelsGood
  <2> HIDE DEF y
  <2>3. Others(b) /\ \A o \in Keys : BucketOf[o] = b => Content(o)' = Visible(l1[b], y, o)
    BY <1>1, <2>2, BucketContent
  <2>4. /\ Content(t) = EntryIn(l2[b], t) /\ Content(t)' = Nothing
        /\ \A o \in Keys \ {t} : Content(o)' = Content(o)
    BY <1>2, <2>1, <2>3 DEF Visible, Others
  <2> QED
    BY <2>1, <2>2, <2>3, <2>4 DEF LosesOne
<1> QED
  BY <1>3, <1>4

LEMMA SetContent ==
    ASSUME IInv, NEW k \in Keys, NEW v \in Values, NEW d \in Expirations,
           NEW t \in 1..clock, SetWithExpiration(k, v, d, t)
    PROVE  /\ Others(BucketOf[k])
           /\ LosesOne(Keys \ {k})
           /\ NoOverflow => \E e \in Int : e > 0 /\ Content(k)' = [v |-> v, exp |-> e]
<1> DEFINE b == BucketOf[k]
           e == ExpireAt(t, d)
           x == Put(l1[b], Cap1, k, v, e)
           y == Del(l2[b], k)
<1>1. b \in Buckets /\ GoodLevel(l1[b], Cap1, b) /\ GoodLevel(l2[b], Cap2, b)
  BY ConstantFacts DEF IInv, LevelsGood
<1>2. LevelsGood /\ LevelsGood'
  BY SetStep DEF IInv
<1>3. d \in Int /\ t \in Int /\ Int64Max \in Int /\ t > 0 /\ t <= MaxTime
      /\ d >= 0 /\ MaxTime \in Int /\ Int64Max > 0
  BY LruStoreAssumption DEF IInv, RestTyped
<1>4. e \in Int /\ (NoOverflow => e > 0)
  BY <1>3 DEF ExpireAt, Int64Add, NoOverflow
<1>5. /\ l1' = [l1 EXCEPT ![b] = x] /\ l2' = [l2 EXCEPT ![b] = y]
      /\ calls' = PutCalls(l1[b], Cap1, k)
  BY DEF SetWithExpiration
<1> HIDE DEF e
<1>6. /\ EntryIn(x, k) = AsEntry(SlotFor(k, v, e))
      /\ \/ /\ PutCalls(l1[b], Cap1, k) = << >>
            /\ \A o : o # k => EntryIn(x, o) = EntryIn(l1[b], o)
         \/ \E u \in Keys \ {k} :
               /\ BucketOf[u] = b /\ EntryIn(l1[b], u) # Nothing
               /\ PutCalls(l1[b], Cap1, k) = Call(u, EntryIn(l1[b], u).v)
               /\ \A o : o # k => EntryIn(x, o) = IF o = u THEN Nothing ELSE EntryIn(l1[b], o)
  BY <1>1, <1>4, ConstantFacts, PutEntries
<1>7. \A o : EntryIn(y, o) = IF o = k THEN Nothing ELSE EntryIn(l2[b], o)
  BY <1>1, ConstantFacts, DelEntries
<1> HIDE DEF b, x, y
<1>8. Others(b) /\ \A o \in Keys : BucketOf[o] = b => Content(o)' = Visible(x, y, o)
  BY <1>1, <1>2, <1>5, BucketContent
<1>9. \A o \in Keys : BucketOf[o] = b =>
          /\ Content(o) = Visible(l1[b], l2[b], o)
          /\ EntryIn(l1[b], o) = Nothing \/ EntryIn(l2[b], o) = Nothing
  BY <1>2, ContentVisible, OneLevelShows
<1>10. LosesOne(Keys \ {k})
  <2>1. CASE /\ PutCalls(l1[b], Cap1, k) = << >>
             /\ \A o : o # k => EntryIn(x, o) = EntryIn(l1[b], o)
    <3>1. \A o \in Keys \ {k} : Content(o)' = Content(o)
      BY <1>7, <1>8, <1>9, <2>1 DEF Visible, Others
    <3> QED
      BY <1>5, <2>1, <3>1 DEF LosesOne
  <2>2. ASSUME NEW u \in Keys \ {k}, BucketOf[u] = b, EntryIn(l1[b], u) # Nothing,
               PutCalls(l1[b], Cap1, k) = Call(u, EntryIn(l1[b], u).v),
               \A o : o # k => EntryIn(x, o) = IF o = u THEN Nothing ELSE EntryIn(l1[b], o)
        PROVE  LosesOne(Keys \ {k})
    <3>1. Content(u) = EntryIn(l1[b], u) /\ Content(u)' = Nothing
      BY <1>7, <1>8, <1>9, <2>2 DEF Visible
    <3>2. \A o \in Keys \ {k, u} : Content(o)' = Content(o)
      BY <1>7, <1>8, <1>9, <2>2 DEF Visible, Others
    <3> QED
      BY <1>5, <2>2, <3>1, <3>2 DEF LosesOne
  <2> QED
    BY <1>6, <2>1, <2>2
<1>11. ASSUME NoOverflow PROVE Content(k)' = [v |-> v, exp |-> e]
  <2>1. AsEntry(SlotFor(k, v, e)) = [v |-> v, exp |-> e]
    BY <1>4, <1>11 DEF AsEntry, SlotFor, IsLive
  <2>2. EntryIn(x, k) = [v |-> v, exp |-> e] /\ EntryIn(x, k) # Nothing
    BY <1>4, <1>6, <1>11, <2>1, LruLevelAssumption DEF Nothing
  <2> QED
    BY <1>8, <2>2 DEF Visible, b
<1> QED
  BY <1>4, <1>8, <1>10, <1>11 DEF b

(* What a Get does with an entry it finds: an expired one it drops and     *)
(* reports, a fresh one it keeps.                                          *)
Dropped(k) ==
    /\ clock >= Content(k).exp
    /\ Content(k)' = Nothing /\ \A o \in Keys \ {k} : Content(o)' = Content(o)
    /\ calls' = Call(k, Content(k).v)
    /\ event' = Event("got", k, Miss)

Served(k) ==
    /\ clock < Content(k).exp
    /\ Content(k)' = Content(k)
    /\ LosesOne(Keys)
    /\ event' = Event("got", k, Content(k).v)

LEMMA GetLevel1Content ==
    ASSUME IInv, NEW k \in Keys, GetLevel1(k)
    PROVE  Others(BucketOf[k]) /\ Content(k) # Nothing /\ (Dropped(k) \/ Served(k))
<1> DEFINE b == BucketOf[k]
           s == SlotOf(l1[b], k)
           x == Del(l1[b], k)
           y1 == Del(l2[b], k)
           y2 == Put(l2[b], Cap2, k, s.v, s.exp)
<1>1. b \in Buckets /\ GoodLevel(l1[b], Cap1, b) /\ GoodLevel(l2[b], Cap2, b)
  BY ConstantFacts DEF IInv, LevelsGood
<1>2. LevelsGood /\ LevelsGood'
  BY GetLevel1Step DEF IInv, LevelsKept
<1>3. LiveIn(l1[b], k) /\ l1' = [l1 EXCEPT ![b] = x]
  BY DEF GetLevel1
<1>4. /\ Content(k) = [v |-> s.v, exp |-> s.exp] /\ Content(k) # Nothing
      /\ s.v \in Values /\ s.exp \in Int /\ s.exp > 0
  BY <1>1, <1>2, <1>3, LiveEntry, ContentVisible
<1>5. \A o : EntryIn(x, o) = IF o = k THEN Nothing ELSE EntryIn(l1[b], o)
  BY <1>1, ConstantFacts, DelEntries
<1>6. \/ /\ clock >= s.exp
         /\ l2' = [l2 EXCEPT ![b] = y1] /\ event' = Event("got", k, Miss)
         /\ calls' = Call(k, s.v)
      \/ /\ clock < s.exp
         /\ l2' = [l2 EXCEPT ![b] = y2] /\ event' = Event("got", k, s.v)
         /\ calls' = PutCalls(l2[b], Cap2, k)
  BY DEF GetLevel1
<1>7. \A o \in Keys : BucketOf[o] = b =>
          /\ Content(o) = Visible(l1[b], l2[b], o)
          /\ EntryIn(l1[b], o) = Nothing \/ EntryIn(l2[b], o) = Nothing
  BY <1>2, ContentVisible, OneLevelShows
<1>8. BucketOf[k] = b
  OBVIOUS
<1> HIDE DEF b, x, s
<1>9. CASE l2' = [l2 EXCEPT ![b] = y1] /\ clock >= s.exp /\ calls' = Call(k, s.v)
           /\ event' = Event("got", k, Miss)
  <2>1. \A o : EntryIn(y1, o) = IF o = k THEN Nothing ELSE EntryIn(l2[b], o)
    BY <1>1, ConstantFacts, DelEntries
  <2> HIDE DEF y1
  <2>2. Others(b) /\ \A o \in Keys : BucketOf[o] = b => Content(o)' = Visible(x, y1, o)
    BY <1>1, <1>2, <1>3, <1>9, BucketContent
  <2>3. Content(k)' = Nothing /\ \A o \in Keys \ {k} : Content(o)' = Content(o)
    BY <1>5, <1>7, <1>8, <2>1, <2>2 DEF Visible, Others
  <2> QED
    BY <1>4, <1>8, <1>9, <2>2, <2>3 DEF Dropped
<1>10. CASE /\ l2' = [l2 EXCEPT ![b] = y2] /\ clock < s.exp
            /\ calls' = PutCalls(l2[b], Cap2, k) /\ event' = Event("got", k, s.v)
  <2>1. /\ EntryIn(y2, k) = AsEntry(SlotFor(k, s.v, s.exp))
        /\ \/ /\ PutCalls(l2[b], Cap2, k) = << >>
              /\ \A o : o # k => EntryIn(y2, o) = EntryIn(l2[b], o)
           \/ \E u \in Keys \ {k} :
                 /\ BucketOf[u] = b /\ EntryIn(l2[b], u) # Nothing
                 /\ PutCalls(l2[b], Cap2, k) = Call(u, EntryIn(l2[b], u).v)
                 /\ \A o : o # k => EntryIn(y2, o) = IF o = u THEN Nothing ELSE EntryIn(l2[b], o)
    BY <1>1, <1>4, <1>8, ConstantFacts, PutEntries
  <2>2. EntryIn(y2, k) = Content(k)
    BY <1>4, <2>1 DEF AsEntry, SlotFor, IsLive
  <2> HIDE DEF y2
  <2>3. Others(b) /\ \A o \in Keys : BucketOf[o] = b => Content(o)' = Visible(x, y2, o)
    BY <1>1, <1>2, <1>3, <1>10, BucketContent
  <2>4. Content(k)' = Content(k)
    BY <1>5, <1>8, <2>2, <2>3 DEF Visible
  <2>5. LosesOne(Keys)
    <3>1. CASE /\ PutCalls(l2[b], Cap2, k) = << >>
               /\ \A o : o # k => EntryIn(y2, o) = EntryIn(l2[b], o)
      <4>1. \A o \in Keys : Content(o)' = Content(o)
        BY <1>5, <1>7, <2>3, <2>4, <3>1 DEF Visible, Others
      <4> QED
        BY <1>10, <3>1, <4>1 DEF LosesOne
    <3>2. ASSUME NEW u \in Keys \ {k}, BucketOf[u] = b, EntryIn(l2[b], u) # Nothing,
                 PutCalls(l2[b], Cap2, k) = Call(u, EntryIn(l2[b], u).v),
                 \A o : o # k => EntryIn(y2, o) = IF o = u THEN Nothing ELSE EntryIn(l2[b], o)
          PROVE  LosesOne(Keys)
      <4>1. Content(u) = EntryIn(l2[b], u) /\ Content(u)' = Nothing
        BY <1>5, <1>7, <2>3, <3>2 DEF Visible
      <4>2. \A o \in Keys \ {u} : Content(o)' = Content(o)
        BY <1>5, <1>7, <2>3, <2>4, <3>2 DEF Visible, Others
      <4> QED
        BY <1>10, <3>2, <4>1, <4>2 DEF LosesOne
    <3> QED
      BY <2>1, <3>1, <3>2
  <2> QED
    BY <1>4, <1>8, <1>10, <2>3, <2>4, <2>5 DEF Served
<1> QED
  BY <1>6, <1>9, <1>10

LEMMA GetLevel2Content ==
    ASSUME IInv, NEW k \in Keys, GetLevel2(k)
    PROVE  Others(BucketOf[k]) /\ Content(k) # Nothing /\ (Dropped(k) \/ Served(k))
<1> DEFINE b == BucketOf[k]
           s == SlotOf(l2[b], k)
           y1 == Del(l2[b], k)
           y2 == Touch(l2[b], k)
<1>1. b \in Buckets /\ GoodLevel(l1[b], Cap1, b) /\ GoodLevel(l2[b], Cap2, b)
  BY ConstantFacts DEF IInv, LevelsGood
<1>2. LevelsGood /\ LevelsGood'
  BY GetLevel2Step DEF IInv, LevelsKept
<1>3. ~LiveIn(l1[b], k) /\ LiveIn(l2[b], k) /\ l1' = [l1 EXCEPT ![b] = l1[b]]
  BY <1>2 DEF GetLevel2, LevelsGood
<1>4. /\ Content(k) = [v |-> s.v, exp |-> s.exp] /\ Content(k) # Nothing
      /\ EntryIn(l1[b], k) = Nothing
  <2>1. EntryIn(l1[b], k) = Nothing /\ EntryIn(l2[b], k) # Nothing
    BY <1>1, <1>3, LiveEntry
  <2>2. Content(k) = [v |-> s.v, exp |-> s.exp] /\ Content(k) = Visible(l1[b], l2[b], k)
    BY <1>2, <1>3, ContentVisible
  <2> QED
    BY <2>1, <2>2 DEF Visible
<1>5. \/ /\ clock >= s.exp
         /\ l2' = [l2 EXCEPT ![b] = y1] /\ event' = Event("got", k, Miss)
         /\ calls' = Call(k, s.v)
      \/ /\ clock < s.exp
         /\ l2' = [l2 EXCEPT ![b] = y2] /\ event' = Event("got", k, s.v)
         /\ calls' = << >>
  BY DEF GetLevel2
<1>6. \A o \in Keys : BucketOf[o] = b => Content(o) = Visible(l1[b], l2[b], o)
  BY <1>2, ContentVisible
<1>7. BucketOf[k] = b
  OBVIOUS
<1>8. \A o : EntryIn(y1, o) = IF o = k THEN Nothing ELSE EntryIn(l2[b], o)
  BY <1>1, ConstantFacts, DelEntries
<1>9. \A o : EntryIn(y2, o) = EntryIn(l2[b], o)
  BY <1>1, <1>3, ConstantFacts, TouchEntries
<1> HIDE DEF b, s, y1, y2
<1>10. CASE l2' = [l2 EXCEPT ![b] = y1] /\ clock >= s.exp /\ calls' = Call(k, s.v)
            /\ event' = Event("got", k, Miss)
  <2>1. Others(b) /\ \A o \in Keys : BucketOf[o] = b => Content(o)' = Visible(l1[b], y1, o)
    BY <1>1, <1>2, <1>3, <1>10, BucketContent
  <2>2. Content(k)' = Nothing /\ \A o \in Keys \ {k} : Content(o)' = Content(o)
    BY <1>4, <1>6, <1>7, <1>8, <2>1 DEF Visible, Others
  <2> QED
    BY <1>4, <1>7, <1>10, <2>1, <2>2 DEF Dropped
<1>11. CASE l2' = [l2 EXCEPT ![b] = y2] /\ clock < s.exp /\ calls' = << >>
            /\ event' = Event("got", k, s.v)
  <2>1. Others(b) /\ \A o \in Keys : BucketOf[o] = b => Content(o)' = Visible(l1[b], y2, o)
    BY <1>1, <1>2, <1>3, <1>11, BucketContent
  <2>2. \A o \in Keys : Content(o)' = Content(o)
    BY <1>6, <1>9, <2>1 DEF Visible, Others
  <2> QED
    BY <1>4, <1>7, <1>11, <2>1, <2>2 DEF Served, LosesOne
<1> QED
  BY <1>5, <1>10, <1>11

LEMMA HoldsContent ==
    IInv => \A k \in Keys :
                /\ \A v \in Values : Holds(k, v) <=> Content(k) # Nothing /\ Content(k).v = v
                /\ Present(k) <=> Content(k) # Nothing
<1> SUFFICES ASSUME IInv, NEW k \in Keys
             PROVE  /\ \A v \in Values : Holds(k, v) <=> Content(k) # Nothing /\ Content(k).v = v
                    /\ Present(k) <=> Content(k) # Nothing
  OBVIOUS
<1> DEFINE b == BucketOf[k]
<1>1. LevelsGood /\ GoodLevel(l1[b], Cap1, b) /\ GoodLevel(l2[b], Cap2, b)
  BY ConstantFacts DEF IInv, LevelsGood
<1>2. /\ Content(k) = Visible(l1[b], l2[b], k)
      /\ Content(k) # Nothing => Content(k).v \in Values
      /\ EntryIn(l1[b], k) = Nothing \/ EntryIn(l2[b], k) = Nothing
  BY <1>1, ContentVisible, OneLevelShows
<1>3. /\ LiveIn(l1[b], k) <=> EntryIn(l1[b], k) # Nothing
      /\ LiveIn(l1[b], k) =>
             EntryIn(l1[b], k) = [v |-> SlotOf(l1[b], k).v, exp |-> SlotOf(l1[b], k).exp]
  BY <1>1, LiveEntry
<1>4. /\ LiveIn(l2[b], k) <=> EntryIn(l2[b], k) # Nothing
      /\ LiveIn(l2[b], k) =>
             EntryIn(l2[b], k) = [v |-> SlotOf(l2[b], k).v, exp |-> SlotOf(l2[b], k).exp]
  BY <1>1, LiveEntry
<1>5. ASSUME NEW v \in Values
      PROVE  Holds(k, v) <=> Content(k) # Nothing /\ Content(k).v = v
  <2>1. Holds(k, v) <=> \/ LiveIn(l1[b], k) /\ SlotOf(l1[b], k).v = v
                        \/ LiveIn(l2[b], k) /\ SlotOf(l2[b], k).v = v
    BY DEF Holds, HoldsIn
  <2> HIDE DEF b
  <2>2. LiveIn(l1[b], k) => EntryIn(l1[b], k).v = SlotOf(l1[b], k).v
    BY <1>3
  <2>3. LiveIn(l2[b], k) => EntryIn(l2[b], k).v = SlotOf(l2[b], k).v
    BY <1>4
  <2>4. /\ LiveIn(l1[b], k) <=> EntryIn(l1[b], k) # Nothing
        /\ LiveIn(l2[b], k) <=> EntryIn(l2[b], k) # Nothing
    BY <1>3, <1>4
  <2> QED
    BY <1>2, <2>1, <2>2, <2>3, <2>4 DEF Visible
<1> QED
  BY <1>2, <1>5 DEF Present

LEMMA HoldsContentNext ==
    ASSUME IInv'
    PROVE  \A k \in Keys : Present(k)' <=> Content(k)' # Nothing
<1>1. (\A k \in Keys :
          /\ \A v \in Values : Holds(k, v) <=> Content(k) # Nothing /\ Content(k).v = v
          /\ Present(k) <=> Content(k) # Nothing)'
  BY HoldsContent, PTL
<1> QED
  BY <1>1 DEF Nothing

(* An action property of the store from what the actions do to its         *)
(* contents.                                                               *)
OneCall ==
    /\ \A k \in Keys, v \in Values :
          (Holds(k, v) /\ ~Present(k)') <=> (\E i \in 1..Len(calls') : calls'[i] = <<k, v>>)
    /\ \A i, j \in 1..Len(calls') : calls'[i] = calls'[j] => i = j

LEMMA OneCallFromContent ==
    ASSUME IInv, IInv',
           \/ LosesOne(Keys)
           \/ \E k \in Keys : LosesOne(Keys \ {k}) /\ Content(k)' # Nothing
    PROVE  OneCall
<1>1. /\ \A k \in Keys, v \in Values : Holds(k, v) <=> Content(k) # Nothing /\ Content(k).v = v
      /\ \A k \in Keys : Content(k) # Nothing => Content(k).v \in Values
  BY HoldsContent, ContentVisible DEF IInv
<1>3. \A k \in Keys : Present(k)' <=> Content(k)' # Nothing
  BY HoldsContentNext
<1>4. PICK K \in SUBSET Keys : LosesOne(K) /\ \A k \in Keys \ K : Content(k)' # Nothing
  <2>1. CASE LosesOne(Keys)
    BY <2>1
  <2>2. ASSUME NEW k \in Keys, LosesOne(Keys \ {k}), Content(k)' # Nothing
        PROVE  \E K \in SUBSET Keys : LosesOne(K) /\ \A o \in Keys \ K : Content(o)' # Nothing
    BY <2>2
  <2> QED
    BY <2>1, <2>2
<1>5. CASE calls' = << >> /\ \A o \in K : Content(o)' = Content(o)
  <2>1. 1..Len(calls') = {}
    BY <1>5
  <2>2. \A k \in Keys, v \in Values : ~(Holds(k, v) /\ ~Present(k)')
    BY <1>1, <1>3, <1>4, <1>5
  <2> QED
    BY <2>1, <2>2 DEF OneCall
<1>6. ASSUME NEW t \in K, Content(t) # Nothing, Content(t)' = Nothing,
             calls' = Call(t, Content(t).v), \A o \in K \ {t} : Content(o)' = Content(o)
      PROVE  OneCall
  <2>1. 1..Len(calls') = {1} /\ calls'[1] = <<t, Content(t).v>>
    BY <1>6 DEF Call
  <2>2. \A k \in Keys, v \in Values :
            (Holds(k, v) /\ ~Present(k)') <=> k = t /\ v = Content(t).v
    BY <1>1, <1>3, <1>4, <1>6
  <2> QED
    BY <2>1, <2>2 DEF OneCall
<1> QED
  BY <1>4, <1>5, <1>6 DEF LosesOne

(* A step by its effect on the contents.                                   *)
LEMMA QuietStep ==
    ASSUME UNCHANGED levels, calls' = << >>
    PROVE  LosesOne(Keys)
BY SameContent DEF LosesOne

LEMMA StepLoses ==
    ASSUME IInv, NoOverflow, Next
    PROVE  \/ LosesOne(Keys)
           \/ \E k \in Keys : LosesOne(Keys \ {k}) /\ Content(k)' # Nothing
<1>1. ASSUME NEW k \in Keys, Get(k) PROVE LosesOne(Keys)
  <2>1. CASE GetLevel1(k) \/ GetLevel2(k)
    BY <2>1, GetLevel1Content, GetLevel2Content DEF Dropped, Served, LosesOne
  <2>2. CASE GetMiss(k)
    BY <2>2, QuietStep DEF GetMiss
  <2> QED
    BY <1>1, <2>1, <2>2 DEF Get
<1>2. ASSUME NEW k \in Keys, Delete(k) PROVE LosesOne(Keys)
  BY <1>2, DeleteContent DEF Delete
<1>3. ASSUME NEW k \in Keys, NEW v \in Values, NEW d \in Expirations, NEW t \in 1..clock,
             SetWithExpiration(k, v, d, t)
      PROVE  LosesOne(Keys \ {k}) /\ Content(k)' # Nothing
  <2>1. PICK e \in Int : e > 0 /\ Content(k)' = [v |-> v, exp |-> e]
    BY <1>3, SetContent
  <2>2. Content(k)' # Nothing
    BY <2>1 DEF Nothing
  <2> QED
    BY <1>3, <2>2, SetContent
<1>4. ASSUME NEW b \in Buckets, TrimLoop(b) PROVE LosesOne(Keys)
  BY <1>4, EvictContent, QuietStep DEF TrimLoop, TrimStep, TrimDone
<1>5. ASSUME NEW w \in Sweepers, Sweep(w) PROVE LosesOne(Keys)
  BY <1>5, DeleteContent, QuietStep DEF Sweep, Collect, NextBucket, SweepOne
<1>6. CASE Clear \/ CleanupStart \/ CleanupStop \/ Close \/ ClockAdvance \/ TickerFires
  BY <1>6, QuietStep DEF Clear, CleanupStart, CleanupStop, Close, ClockAdvance, TickerFires
<1> QED
  BY <1>1, <1>2, <1>3, <1>4, <1>5, <1>6 DEF Next, Caller

-----------------------------------------------------------------------------
(* cleanupLoop: what it has collected under a bucket's mutex had expired   *)
(* by the time it read before its first bucket, and as nobody else gets at *)
(* the bucket, it still has when its turn to be deleted comes.             *)
CleanInv ==
    /\ sampled <= clock
    /\ \A k \in Keys : holder[BucketOf[k]] = "clean" /\ k \in doomed[BucketOf[k]]
                          => Content(k).exp <= sampled

(* While a sweeper has the bucket, only the sweeper changes what it shows. *)
LEMMA LockedContent ==
    ASSUME IInv, Next, NEW k \in Keys, holder[BucketOf[k]] = "clean"
    PROVE  \/ Content(k)' = Content(k)
           \/ Content(k)' = Nothing /\ k \in doomed[BucketOf[k]]
<1> DEFINE b == BucketOf[k]
<1>1. ASSUME NEW o \in Keys, Others(BucketOf[o]), holder[BucketOf[o]] = "free"
      PROVE  Content(k)' = Content(k)
  BY <1>1 DEF Others
<1>2. ASSUME NEW o \in Keys, Get(o) \/ Delete(o) PROVE Content(k)' = Content(k)
  <2>1. CASE GetLevel1(o)
    BY <1>1, <2>1, GetLevel1Content DEF GetLevel1
  <2>2. CASE GetLevel2(o)
    BY <1>1, <2>2, GetLevel2Content DEF GetLevel2
  <2>3. CASE GetMiss(o)
    BY <2>3, SameContent DEF GetMiss
  <2>4. CASE Delete(o)
    BY <1>1, <2>4, DeleteContent DEF Delete
  <2> QED
    BY <1>2, <2>1, <2>2, <2>3, <2>4 DEF Get
<1>3. ASSUME NEW o \in Keys, NEW v \in Values, NEW d \in Expirations, NEW t \in 1..clock,
             SetWithExpiration(o, v, d, t)
      PROVE  Content(k)' = Content(k)
  BY <1>1, <1>3, SetContent DEF SetWithExpiration
<1>4. ASSUME NEW a \in Buckets, TrimLoop(a) PROVE Content(k)' = Content(k)
  <2>1. CASE TrimStep(a)
    <3>1. Others(a) /\ holder[a] = "trim"
      BY <2>1, EvictContent DEF TrimStep
    <3> QED
      BY <3>1 DEF Others
  <2>2. CASE TrimDone(a)
    BY <2>2, SameContent DEF TrimDone
  <2> QED
    BY <1>4, <2>1, <2>2 DEF TrimLoop
<1>5. ASSUME NEW w \in Sweepers, Collect(w) \/ NextBucket(w) PROVE Content(k)' = Content(k)
  BY <1>5, SameContent DEF Collect, NextBucket
<1>6. ASSUME NEW w \in Sweepers, NEW o \in Keys, SweepOne(w, o)
      PROVE  \/ Content(k)' = Content(k)
             \/ Content(k)' = Nothing /\ k \in doomed[BucketOf[k]]
  <2>1. o \in doomed[BucketOf[o]] /\ Content(o)' = Nothing
        /\ \A p \in Keys \ {o} : Content(p)' = Content(p)
    BY <1>6, DeleteContent DEF SweepOne
  <2> QED
    BY <2>1
<1>7. CASE Clear \/ CleanupStart \/ CleanupStop \/ Close \/ ClockAdvance \/ TickerFires
  BY <1>7, SameContent DEF Clear, CleanupStart, CleanupStop, Close, ClockAdvance, TickerFires
<1> QED
  BY <1>2, <1>3, <1>4, <1>5, <1>6, <1>7 DEF Next, Caller, Sweep

LEMMA ExpiredContent ==
    ASSUME IInv, NEW k \in Keys,
           k \in Expired(l1[BucketOf[k]], sampled) \cup Expired(l2[BucketOf[k]], sampled)
    PROVE  Content(k).exp <= sampled
<1> DEFINE b == BucketOf[k]
<1>1. LevelsGood /\ b \in Buckets /\ LiveKeys(l1[b]) \cap LiveKeys(l2[b]) = {}
  BY ConstantFacts DEF IInv, LiveInOneLevel
<1>2. CASE k \in Expired(l1[b], sampled)
  BY <1>1, <1>2, ContentVisible DEF Expired, LiveKeys, IInv, RestTyped
<1>3. CASE k \in Expired(l2[b], sampled)
  <2>1. ~LiveIn(l1[b], k) /\ LiveIn(l2[b], k)
    BY <1>1, <1>3 DEF Expired, LiveKeys
  <2>2. Content(k).exp = SlotOf(l2[b], k).exp
    BY <1>1, <2>1, ContentVisible
  <2>3. sampled >= SlotOf(l2[b], k).exp /\ GoodLevel(l2[b], Cap2, b)
    BY <1>1, <1>3 DEF Expired, LevelsGood
  <2>4. SlotOf(l2[b], k).exp \in Int /\ sampled \in Int
    BY <1>1, <2>1, <2>3, LiveEntry DEF IInv, RestTyped
  <2> QED
    BY <2>2, <2>3, <2>4
<1> QED
  BY <1>2, <1>3

(* Who gets a bucket for the cleanup, and with what.                       *)
LEMMA CleanHolder ==
    ASSUME IInv, Next, NEW b \in Buckets, holder'[b] = "clean"
    PROVE  \/ holder[b] = "clean" /\ doomed'[b] \subseteq doomed[b]
           \/ /\ doomed'[b] = Expired(l1[b], sampled) \cup Expired(l2[b], sampled)
              /\ sampled' = sampled /\ UNCHANGED levels
<1>1. /\ holder \in [Buckets -> {"free", "trim"} \cup Sweepers]
      /\ doomed \in [Buckets -> SUBSET Keys]
      /\ \A o \in Keys : BucketOf[o] \in Buckets
  BY ConstantFacts DEF IInv, RestTyped
<1>2. ASSUME holder' = holder, doomed' = doomed
      PROVE  holder[b] = "clean" /\ doomed'[b] \subseteq doomed[b]
  BY <1>2
<1>3. ASSUME NEW o \in Keys, Get(o) \/ Delete(o)
      PROVE  holder[b] = "clean" /\ doomed'[b] \subseteq doomed[b]
  BY <1>2, <1>3 DEF Get, GetLevel1, GetLevel2, GetMiss, Delete, sweeps
<1>4. ASSUME NEW o \in Keys, NEW v \in Values, NEW d \in Expirations, NEW t \in 1..clock,
             SetWithExpiration(o, v, d, t)
      PROVE  holder[b] = "clean" /\ doomed'[b] \subseteq doomed[b]
  <2>1. holder' = [holder EXCEPT ![BucketOf[o]] = "trim"] /\ doomed' = doomed
    BY <1>4 DEF SetWithExpiration, sweeps
  <2> QED
    BY <1>1, <2>1
<1>5. ASSUME NEW a \in Buckets, TrimLoop(a)
      PROVE  holder[b] = "clean" /\ doomed'[b] \subseteq doomed[b]
  <2>1. doomed' = doomed /\ (holder' = holder \/ holder' = [holder EXCEPT ![a] = "free"])
    BY <1>5 DEF TrimLoop, TrimStep, TrimDone, sweeps
  <2> QED
    BY <1>1, <2>1
<1>6. ASSUME NEW w \in Sweepers, Collect(w)
      PROVE  \/ holder[b] = "clean" /\ doomed'[b] \subseteq doomed[b]
             \/ /\ doomed'[b] = Expired(l1[b], sampled) \cup Expired(l2[b], sampled)
                /\ sampled' = sampled /\ UNCHANGED levels
  <2>1. /\ pos[w] \in Buckets /\ holder' = [holder EXCEPT ![pos[w]] = w]
        /\ doomed' = [doomed EXCEPT ![pos[w]] = Doom(w, pos[w])]
        /\ sampled' = sampled /\ UNCHANGED levels
    BY <1>6 DEF Collect
  <2>2. CASE b = pos[w]
    <3>1. w = "clean"
      BY <1>1, <2>1, <2>2
    <3> QED
      BY <1>1, <2>1, <2>2, <3>1 DEF Doom
  <2>3. CASE b # pos[w]
    BY <1>1, <2>1, <2>3
  <2> QED
    BY <2>2, <2>3
<1>7. ASSUME NEW w \in Sweepers, NEW o \in Keys, SweepOne(w, o)
      PROVE  holder[b] = "clean" /\ doomed'[b] \subseteq doomed[b]
  <2>1. holder' = holder /\ doomed' = [doomed EXCEPT ![BucketOf[o]] = @ \ {o}]
    BY <1>7 DEF SweepOne
  <2> QED
    BY <1>1, <2>1
<1>8. ASSUME NEW w \in Sweepers, NextBucket(w)
      PROVE  holder[b] = "clean" /\ doomed'[b] \subseteq doomed[b]
  <2>1. doomed' = doomed /\ holder' = [holder EXCEPT ![pos[w]] = "free"] /\ pos[w] \in Buckets
    BY <1>8 DEF NextBucket
  <2> QED
    BY <1>1, <2>1
<1>9. CASE Clear \/ CleanupStart \/ CleanupStop \/ Close \/ ClockAdvance \/ TickerFires
  BY <1>2, <1>9 DEF Clear, CleanupStart, CleanupStop, Close, ClockAdvance, TickerFires, sweeps
<1> QED
  BY <1>3, <1>4, <1>5, <1>6, <1>7, <1>8, <1>9 DEF Next, Caller, Sweep

LEMMA SampledStep ==
    ASSUME IInv, Next
    PROVE  sampled' \in {sampled, clock} /\ clock' \in {clock, clock + 1}
BY DEF Next, Caller, Get, GetLevel1, GetLevel2, GetMiss, Delete, SetWithExpiration, TrimLoop,
       TrimStep, TrimDone, Sweep, Collect, SweepOne, NextBucket, Clear, CleanupStart, CleanupStop,
       Close, ClockAdvance, TickerFires, sweeps

LEMMA CleanStep == IInv /\ CleanInv /\ [Next]_vars => CleanInv'
<1> SUFFICES ASSUME IInv, CleanInv, [Next]_vars PROVE CleanInv'
  OBVIOUS
<1>1. clock \in Int /\ sampled \in Int /\ sampled >= 0
  BY LruStoreAssumption DEF IInv, RestTyped
<1>2. CASE Next
  <2>1. sampled' <= clock' /\ sampled <= sampled' /\ sampled' \in Int /\ sampled' >= 0
    BY <1>1, <1>2, SampledStep DEF CleanInv
  <2>2. ASSUME NEW k \in Keys, holder'[BucketOf[k]] = "clean", k \in doomed'[BucketOf[k]]
        PROVE  Content(k)'.exp <= sampled'
    <3> DEFINE b == BucketOf[k]
    <3>1. b \in Buckets
      BY ConstantFacts
    <3>2. CASE holder[b] = "clean" /\ doomed'[b] \subseteq doomed[b]
      <4>1. Content(k).exp <= sampled
        BY <2>2, <3>2 DEF CleanInv
      <4>2. CASE Content(k)' = Nothing
        BY <2>1, <4>2 DEF Nothing
      <4>3. CASE Content(k)' = Content(k)
        <5>1. Content(k) # Nothing => Content(k).exp \in Int
          BY ContentVisible DEF IInv
        <5>2. Content(k) = Nothing => Content(k).exp = 0
          BY DEF Nothing
        <5> QED
          BY <1>1, <2>1, <4>1, <4>3, <5>1, <5>2
      <4> QED
        BY <1>2, <3>2, <4>2, <4>3, LockedContent
    <3>3. CASE /\ doomed'[b] = Expired(l1[b], sampled) \cup Expired(l2[b], sampled)
               /\ sampled' = sampled /\ UNCHANGED levels
      <4>1. Content(k).exp <= sampled
        BY <2>2, <3>3, ExpiredContent
      <4> QED
        BY <3>3, <4>1, SameContent
    <3> QED
      BY <1>2, <2>2, <3>1, <3>2, <3>3, CleanHolder
  <2> QED
    BY <2>1, <2>2 DEF CleanInv
<1>3. CASE UNCHANGED vars
  BY <1>3, SameContent DEF vars, levels, CleanInv
<1> QED
  BY <1>2, <1>3

LEMMA CleanupExpired ==
    ASSUME IInv, IInv', CleanInv, Next, NEW b \in Buckets, NEW k \in Keys,
           holder[b] = "clean", Present(k), ~Present(k)', BucketOf[k] = b
    PROVE  Content(k).exp <= clock
<1>1. Content(k) # Nothing
  BY HoldsContent
<1>3. Content(k)' = Nothing
  BY HoldsContentNext
<1>4. k \in doomed[b]
  BY <1>1, <1>3, LockedContent
<1>5. Content(k).exp <= sampled /\ sampled <= clock
  BY <1>4 DEF CleanInv
<1>6. Content(k).exp \in Int /\ sampled \in Int /\ clock \in Int
  BY <1>1, ContentVisible, LruStoreAssumption DEF IInv, RestTyped
<1> QED
  BY <1>5, <1>6

-----------------------------------------------------------------------------
(* The contract: Content maps every step of the store to one of its steps. *)
content == [k \in Keys |-> Content(k)]

LEMMA InitContract == Init => Contract!Init
<1> SUFFICES ASSUME Init PROVE Contract!Init
  OBVIOUS
<1>1. ASSUME NEW k \in Keys PROVE Content(k) = Nothing
  <2>1. BucketOf[k] \in Buckets
    BY ConstantFacts
  <2>2. l1[BucketOf[k]] = EmptyLevel /\ l2[BucketOf[k]] = EmptyLevel
    BY <2>1 DEF Init
  <2> QED
    BY <2>2 DEF Content, LiveIn, Positions, EmptyLevel
<1>2. content = [k \in Keys |-> Nothing]
  BY <1>1 DEF content
<1> QED
  BY <1>2 DEF content, Init, NoEvent, Contract!Init, Contract!Nothing, Contract!NoEvent, Nothing

LEMMA NewContent ==
    /\ \A k \in Keys : content[k] = Content(k) /\ content'[k] = Content(k)'
    /\ content = [k \in Keys |-> Content(k)]
    /\ content' = [k \in Keys |-> Content(k)']
BY DEF content

(* Losing at most one entry is forgetting.                                 *)
LEMMA LosingForgets ==
    ASSUME NEW K \in SUBSET Keys, LosesOne(K)
    PROVE  \A o \in K : Content(o)' \in {Content(o), Nothing}
BY DEF LosesOne

LEMMA ForgetStep ==
    ASSUME LosesOne(Keys), event' = NoEvent, UNCHANGED clock
    PROVE  Contract!Forget
<1>1. \A k \in Keys : content'[k] \in {content[k], Nothing}
  BY NewContent, LosingForgets
<1> QED
  BY <1>1 DEF content, Contract!Forget, Contract!NoEvent, Contract!Nothing, NoEvent, Nothing

LEMMA DroppedStep ==
    ASSUME NEW k \in Keys, Content(k) # Nothing, Dropped(k), UNCHANGED clock
    PROVE  Contract!MissExpired(k)
<1>1. content[k] # Nothing /\ clock >= content[k].exp
  BY NewContent DEF Dropped
<1>2. content' = [content EXCEPT ![k] = Nothing]
  BY NewContent DEF Dropped
<1> QED
  BY <1>1, <1>2 DEF content, Dropped, Event, Nothing, Contract!MissExpired, Contract!Has,
                    Contract!Nothing, Contract!Event

LEMMA ServedStep ==
    ASSUME NEW k \in Keys, Content(k) # Nothing, Served(k), UNCHANGED clock
    PROVE  Contract!Hit(k)
<1>1. content[k] # Nothing /\ clock < content[k].exp /\ content'[k] = content[k]
  BY NewContent DEF Served
<1>2. \A o \in Keys \ {k} : content'[o] \in {content[o], Nothing}
  BY NewContent, LosingForgets DEF Served
<1>3. event' = Event("got", k, content[k].v)
  BY NewContent DEF Served
<1> QED
  BY <1>1, <1>2, <1>3 DEF content, Event, Nothing, Contract!Hit, Contract!Has, Contract!Becomes,
                          Contract!Nothing, Contract!Event

LEMMA GetMissStep ==
    ASSUME IInv, NEW k \in Keys, GetMiss(k)
    PROVE  Contract!MissAbsent(k)
<1>1. Content(k) = Nothing
  BY ContentVisible DEF GetMiss, IInv
<1>2. content[k] = Nothing /\ content' = content
  BY <1>1, NewContent, SameContent DEF GetMiss
<1> QED
  BY <1>2 DEF content, GetMiss, Event, Nothing, Contract!MissAbsent, Contract!Has,
              Contract!Nothing, Contract!Event

LEMMA ContractSetStep ==
    ASSUME IInv, NoOverflow, NEW k \in Keys, NEW v \in Values, NEW d \in Expirations,
           NEW t \in 1..clock, SetWithExpiration(k, v, d, t)
    PROVE  Contract!Set(k, v)
<1>1. PICK e \in Int : e > 0 /\ Content(k)' = [v |-> v, exp |-> e]
  BY SetContent
<1>2. content'[k] = [v |-> v, exp |-> content'[k].exp] /\ content'[k].exp > 0
  BY <1>1, NewContent
<1>3. \A o \in Keys \ {k} : content'[o] \in {content[o], Nothing}
  BY SetContent, NewContent, LosingForgets
<1> QED
  BY <1>2, <1>3 DEF content, SetWithExpiration, Event, Nothing, Contract!Set,
                    Contract!Becomes, Contract!Nothing, Contract!Event

LEMMA ContractDeleteStep ==
    ASSUME IInv, NEW k \in Keys, Delete(k)
    PROVE  Contract!Delete(k)
<1>1. content' = [content EXCEPT ![k] = Nothing]
  BY DeleteContent, NewContent DEF Delete
<1> QED
  BY <1>1 DEF content, Delete, Event, Nothing, Contract!Delete, Contract!Nothing, Contract!Event

LEMMA NextContract ==
    ASSUME IInv, NoOverflow, [Next]_vars
    PROVE  [Contract!Next]_<<content, clock, event>>
<1>1. ASSUME NEW k \in Keys, Get(k)
      PROVE  Contract!Hit(k) \/ Contract!MissAbsent(k) \/ Contract!MissExpired(k)
  <2>1. CASE GetLevel1(k)
    BY <2>1, GetLevel1Content, DroppedStep, ServedStep DEF GetLevel1
  <2>2. CASE GetLevel2(k)
    BY <2>2, GetLevel2Content, DroppedStep, ServedStep DEF GetLevel2
  <2>3. CASE GetMiss(k)
    BY <2>3, GetMissStep
  <2> QED
    BY <1>1, <2>1, <2>2, <2>3 DEF Get
<1>2. ASSUME Caller
      PROVE  \E k \in Keys : \/ Contract!Hit(k) \/ Contract!MissAbsent(k)
                             \/ Contract!MissExpired(k) \/ Contract!Delete(k)
                             \/ \E v \in Values : Contract!Set(k, v)
  BY <1>1, <1>2, ContractDeleteStep, ContractSetStep, Zenon DEF Caller
<1>3. ASSUME NEW b \in Buckets, TrimLoop(b) PROVE Contract!Forget
  <2>1. LosesOne(Keys) /\ event' = NoEvent /\ UNCHANGED clock
    BY <1>3, EvictContent, QuietStep DEF TrimLoop, TrimStep, TrimDone
  <2> QED
    BY <2>1, ForgetStep
<1>4. ASSUME NEW w \in Sweepers, Sweep(w) PROVE Contract!Forget
  <2>1. LosesOne(Keys) /\ event' = NoEvent /\ UNCHANGED clock
    BY <1>4, DeleteContent, QuietStep DEF Sweep, Collect, NextBucket, SweepOne
  <2> QED
    BY <2>1, ForgetStep
<1>5. ASSUME Clear \/ CleanupStart \/ CleanupStop \/ Close \/ TickerFires
      PROVE  Contract!Forget
  <2>1. LosesOne(Keys) /\ event' = NoEvent /\ UNCHANGED clock
    BY <1>5, QuietStep DEF Clear, CleanupStart, CleanupStop, Close, TickerFires
  <2> QED
    BY <2>1, ForgetStep
<1>6. ASSUME ClockAdvance PROVE Contract!TimePasses
  <2>1. content' = content
    BY <1>6, SameContent, NewContent DEF ClockAdvance
  <2>2. clock' > clock /\ event' = NoEvent
    BY <1>6 DEF ClockAdvance, IInv, RestTyped
  <2> QED
    BY <2>1, <2>2 DEF content, NoEvent, Contract!NoEvent, Contract!TimePasses
<1>7. CASE UNCHANGED vars
  <2>1. UNCHANGED levels
    BY <1>7 DEF vars, levels
  <2> QED
    BY <1>7, <2>1, SameContent, NewContent DEF vars
<1>8. Next => Contract!Next
  BY <1>2, <1>3, <1>4, <1>5, <1>6, Zenon DEF Next, Contract!Next
<1> QED
  BY <1>7, <1>8

-----------------------------------------------------------------------------
(* The byte budget.                                                        *)

(* What the budget asks of the levels of a bucket.                         *)
Within(x, y, trimming) ==
    /\ Counted(x) /\ Counted(y)
    /\ MaxBytes > 0 => /\ y.bytes <= MaxBucketBytes
                       /\ ~trimming => x.bytes + y.bytes <= MaxBucketBytes

BudgetAt(b) == Within(l1[b], l2[b], holder[b] = "trim")

LEMMA BudgetIsWithin == ByteBudget <=> \A b \in Buckets : BudgetAt(b)
BY DEF ByteBudget, BudgetAt, Within, Counted

LEMMA BucketBytes == MaxBucketBytes \in Nat /\ (MaxBytes > 0 => MaxBucketBytes > 0)
<1>1. MaxBytes \div NBuckets \in Nat
  BY LruStoreAssumption
<1> QED
  BY <1>1, LruStoreAssumption DEF MaxBucketBytes

(* A step that gives bucket b the levels x and y and the others nothing.   *)
LEMMA BudgetStep ==
    ASSUME IInv, ByteBudget, NEW b \in Buckets, NEW x, NEW y,
           l1' = [l1 EXCEPT ![b] = x], l2' = [l2 EXCEPT ![b] = y],
           Within(x, y, holder'[b] = "trim"),
           \A a \in Buckets \ {b} : holder'[a] = holder[a]
    PROVE  ByteBudget'
<1>1. /\ l1'[b] = x /\ l2'[b] = y
      /\ \A a \in Buckets \ {b} : l1'[a] = l1[a] /\ l2'[a] = l2[a]
  BY DEF IInv, LevelsGood
<1>2. \A a \in Buckets : BudgetAt(a)
  BY BudgetIsWithin
<1>3. ASSUME NEW a \in Buckets
      PROVE  /\ l1'[a].bytes = LiveBytes(l1'[a]) /\ l2'[a].bytes = LiveBytes(l2'[a])
             /\ MaxBytes > 0 =>
                   /\ l2'[a].bytes <= MaxBucketBytes
                   /\ holder'[a] # "trim" => l1'[a].bytes + l2'[a].bytes <= MaxBucketBytes
  <2>1. CASE a = b
    BY <1>1, <2>1 DEF Within, Counted
  <2>2. CASE a # b
    BY <1>1, <1>2, <2>2 DEF BudgetAt, Within, Counted
  <2> QED
    BY <2>1, <2>2
<1> QED
  BY <1>3 DEF ByteBudget

LEMMA BudgetSame ==
    ASSUME ByteBudget, UNCHANGED levels,
           \A b \in Buckets : holder[b] = "trim" => holder'[b] = "trim"
    PROVE  ByteBudget'
BY DEF ByteBudget, levels

LEMMA DeleteBudget ==
    ASSUME IInv, ByteBudget, NEW k \in Keys, delete(k), UNCHANGED holder
    PROVE  ByteBudget'
<1> DEFINE b == BucketOf[k]
           x == Del(l1[b], k)
           y == Del(l2[b], k)
<1>1. b \in Buckets /\ GoodLevel(l1[b], Cap1, b) /\ GoodLevel(l2[b], Cap2, b)
  BY ConstantFacts DEF IInv, LevelsGood
<1>2. Within(l1[b], l2[b], holder[b] = "trim")
  BY <1>1, BudgetIsWithin DEF BudgetAt
<1>3. /\ Counted(x) /\ x.bytes = l1[b].bytes - BytesIn(l1[b], k)
      /\ x.bytes \in Nat /\ l1[b].bytes \in Nat /\ BytesIn(l1[b], k) \in Nat
  BY <1>1, <1>2, ConstantFacts, DelBytes DEF Within
<1>4. /\ Counted(y) /\ y.bytes = l2[b].bytes - BytesIn(l2[b], k)
      /\ y.bytes \in Nat /\ l2[b].bytes \in Nat /\ BytesIn(l2[b], k) \in Nat
  BY <1>1, <1>2, ConstantFacts, DelBytes DEF Within
<1>5. l1' = [l1 EXCEPT ![b] = x] /\ l2' = [l2 EXCEPT ![b] = y]
  BY DEF delete
<1> HIDE DEF b, x, y
<1>6. Within(x, y, holder'[b] = "trim")
  BY <1>2, <1>3, <1>4, BucketBytes DEF Within
<1> QED
  BY <1>1, <1>5, <1>6, BudgetStep

(* A promotion moves bytes from level 1 to level 2 and adds none.          *)
LEMMA GetLevel1Budget ==
    ASSUME IInv, ByteBudget, NEW k \in Keys, GetLevel1(k)
    PROVE  ByteBudget'
<1> DEFINE b == BucketOf[k]
           s == SlotOf(l1[b], k)
           x == Del(l1[b], k)
           y1 == Del(l2[b], k)
           y2 == Put(l2[b], Cap2, k, s.v, s.exp)
<1>1. b \in Buckets /\ GoodLevel(l1[b], Cap1, b) /\ GoodLevel(l2[b], Cap2, b)
  BY ConstantFacts DEF IInv, LevelsGood
<1>2. Within(l1[b], l2[b], holder[b] = "trim")
  BY <1>1, BudgetIsWithin DEF BudgetAt
<1>3. s.v \in Values /\ s.exp \in Int /\ s.exp > 0 /\ EntryIn(l1[b], k) # Nothing
      /\ EntryIn(l1[b], k).v = s.v
  BY <1>1, LiveEntry DEF GetLevel1
<1>4. /\ Counted(x) /\ x.bytes = l1[b].bytes - BytesIn(l1[b], k)
      /\ x.bytes \in Nat /\ l1[b].bytes \in Nat /\ BytesIn(l1[b], k) \in Nat
  BY <1>1, <1>2, ConstantFacts, DelBytes DEF Within
<1>5. /\ Counted(y1) /\ y1.bytes = l2[b].bytes - BytesIn(l2[b], k)
      /\ y1.bytes \in Nat /\ l2[b].bytes \in Nat /\ BytesIn(l2[b], k) \in Nat
  BY <1>1, <1>2, ConstantFacts, DelBytes DEF Within
<1>6. /\ Counted(y2) /\ y2.bytes <= l2[b].bytes + entryBytes(k, s.v)
      /\ y2.bytes \in Nat
  <2> HIDE DEF s
  <2> QED
    BY <1>1, <1>2, <1>3, ConstantFacts, PutBytes DEF Within
<1>7. BytesIn(l1[b], k) = entryBytes(k, s.v)
  BY <1>3 DEF BytesIn, BytesOf
<1>8. /\ l1' = [l1 EXCEPT ![b] = x] /\ holder' = holder /\ holder[b] = "free"
      /\ l2' = [l2 EXCEPT ![b] = y1] \/ l2' = [l2 EXCEPT ![b] = y2]
  BY DEF GetLevel1
<1> HIDE DEF b, s, x, y1, y2
<1>9. Within(x, y1, holder'[b] = "trim")
  BY <1>2, <1>4, <1>5, <1>8, BucketBytes DEF Within
<1>10. Within(x, y2, holder'[b] = "trim")
  <2>1. x.bytes + y2.bytes <= l1[b].bytes + l2[b].bytes
    BY <1>4, <1>5, <1>6, <1>7
  <2>2. MaxBytes > 0 => l1[b].bytes + l2[b].bytes <= MaxBucketBytes
    BY <1>2, <1>8 DEF Within
  <2> QED
    BY <1>4, <1>5, <1>6, <2>1, <2>2, BucketBytes DEF Within
<1> QED
  BY <1>1, <1>8, <1>9, <1>10, BudgetStep

LEMMA GetLevel2Budget ==
    ASSUME IInv, ByteBudget, NEW k \in Keys, GetLevel2(k)
    PROVE  ByteBudget'
<1> DEFINE b == BucketOf[k]
           y1 == Del(l2[b], k)
           y2 == Touch(l2[b], k)
<1>1. b \in Buckets /\ GoodLevel(l1[b], Cap1, b) /\ GoodLevel(l2[b], Cap2, b)
  BY ConstantFacts DEF IInv, LevelsGood
<1>2. Within(l1[b], l2[b], holder[b] = "trim")
  BY <1>1, BudgetIsWithin DEF BudgetAt
<1>3. /\ Counted(y1) /\ y1.bytes = l2[b].bytes - BytesIn(l2[b], k)
      /\ y1.bytes \in Nat /\ l2[b].bytes \in Nat /\ BytesIn(l2[b], k) \in Nat
  BY <1>1, <1>2, ConstantFacts, DelBytes DEF Within
<1>4. Counted(y2) /\ y2.bytes = l2[b].bytes
  BY <1>1, <1>2, ConstantFacts, TouchBytes DEF Within, GetLevel2
<1>5. l1[b].bytes \in Nat
  BY <1>1, <1>2, CountNat DEF Within
<1>6. /\ l1' = [l1 EXCEPT ![b] = l1[b]] /\ holder' = holder
      /\ l2' = [l2 EXCEPT ![b] = y1] \/ l2' = [l2 EXCEPT ![b] = y2]
  BY DEF GetLevel2, IInv, LevelsGood
<1> HIDE DEF b, y1, y2
<1>7. Within(l1[b], y1, holder'[b] = "trim") /\ Within(l1[b], y2, holder'[b] = "trim")
  BY <1>2, <1>3, <1>4, <1>5, <1>6, BucketBytes DEF Within
<1> QED
  BY <1>1, <1>6, <1>7, BudgetStep

LEMMA SetBudget ==
    ASSUME IInv, ByteBudget, NoOverflow, NEW k \in Keys, NEW v \in Values,
           NEW d \in Expirations, NEW t \in 1..clock, SetWithExpiration(k, v, d, t)
    PROVE  ByteBudget'
<1> DEFINE b == BucketOf[k]
           e == ExpireAt(t, d)
           x == Put(l1[b], Cap1, k, v, e)
           y == Del(l2[b], k)
<1>1. b \in Buckets /\ GoodLevel(l1[b], Cap1, b) /\ GoodLevel(l2[b], Cap2, b)
  BY ConstantFacts DEF IInv, LevelsGood
<1>2. Within(l1[b], l2[b], holder[b] = "trim")
  BY <1>1, BudgetIsWithin DEF BudgetAt
<1>3. e \in Int /\ e > 0
  <2>1. d \in Int /\ t \in Int /\ Int64Max \in Int /\ t > 0 /\ t <= MaxTime
        /\ d >= 0 /\ MaxTime \in Int /\ Int64Max > 0
    BY LruStoreAssumption DEF IInv, RestTyped
  <2>2. t + d <= Int64Max
    BY <2>1 DEF NoOverflow
  <2> QED
    BY <2>1, <2>2 DEF ExpireAt, Int64Add
<1>4. /\ l1' = [l1 EXCEPT ![b] = x] /\ l2' = [l2 EXCEPT ![b] = y]
      /\ holder' = [holder EXCEPT ![b] = "trim"]
  BY DEF SetWithExpiration
<1>5. Counted(x)
  <2> HIDE DEF e
  <2> QED
    BY <1>1, <1>2, <1>3, ConstantFacts, PutBytes DEF Within
<1>6. /\ Counted(y) /\ y.bytes = l2[b].bytes - BytesIn(l2[b], k)
      /\ y.bytes \in Nat /\ l2[b].bytes \in Nat /\ BytesIn(l2[b], k) \in Nat
  BY <1>1, <1>2, ConstantFacts, DelBytes DEF Within
<1>7. holder'[b] = "trim" /\ \A a \in Buckets \ {b} : holder'[a] = holder[a]
  BY <1>1, <1>4 DEF IInv, RestTyped
<1> HIDE DEF b, e, x, y
<1>8. Within(x, y, holder'[b] = "trim")
  BY <1>2, <1>5, <1>6, <1>7, BucketBytes DEF Within
<1> QED
  BY <1>1, <1>4, <1>7, <1>8, BudgetStep

LEMMA TrimBudget ==
    ASSUME IInv, ByteBudget, NEW b \in Buckets, TrimStep(b)
    PROVE  ByteBudget'
<1>1. GoodLevel(l1[b], Cap1, b) /\ GoodLevel(l2[b], Cap2, b)
  BY DEF IInv, LevelsGood
<1>2. Within(l1[b], l2[b], holder[b] = "trim")
  BY BudgetIsWithin DEF BudgetAt
<1>3. evictFromBucket(b) /\ holder' = holder /\ holder[b] = "trim"
  BY DEF TrimStep
<1>4. CASE AnyLive(l1[b])
  <2> DEFINE x == EvictOldest(l1[b])
  <2>1. Counted(x)
    BY <1>1, <1>2, <1>4, ConstantFacts, EvictOldestBytes DEF Within
  <2>2. l1' = [l1 EXCEPT ![b] = x] /\ l2' = [l2 EXCEPT ![b] = l2[b]]
    BY <1>3, <1>4 DEF evictFromBucket, IInv, LevelsGood
  <2> HIDE DEF x
  <2>3. Within(x, l2[b], holder'[b] = "trim")
    BY <1>2, <1>3, <2>1 DEF Within
  <2> QED
    BY <1>3, <2>2, <2>3, BudgetStep
<1>5. CASE ~AnyLive(l1[b])
  <2> DEFINE y == EvictOldest(l2[b])
  <2>1. Counted(y) /\ y.bytes <= l2[b].bytes /\ y.bytes \in Nat /\ l2[b].bytes \in Nat
    BY <1>1, <1>2, <1>3, <1>5, ConstantFacts, EvictOldestBytes DEF Within, evictFromBucket
  <2>2. l1' = [l1 EXCEPT ![b] = l1[b]] /\ l2' = [l2 EXCEPT ![b] = y]
    BY <1>3, <1>5 DEF evictFromBucket, IInv, LevelsGood
  <2> HIDE DEF y
  <2>3. Within(l1[b], y, holder'[b] = "trim")
    BY <1>2, <1>3, <2>1, BucketBytes DEF Within
  <2> QED
    BY <1>3, <2>2, <2>3, BudgetStep
<1> QED
  BY <1>4, <1>5

(* trimBucket returns when the bucket is within its share, or has nothing  *)
(* left to evict: then it counts nothing.                                  *)
LEMMA TrimDoneBudget ==
    ASSUME IInv, ByteBudget, NEW b \in Buckets, TrimDone(b)
    PROVE  ByteBudget'
<1>1. GoodLevel(l1[b], Cap1, b) /\ GoodLevel(l2[b], Cap2, b)
  BY DEF IInv, LevelsGood
<1>2. Within(l1[b], l2[b], holder[b] = "trim")
  BY BudgetIsWithin DEF BudgetAt
<1>3. /\ holder' = [holder EXCEPT ![b] = "free"]
      /\ l1' = [l1 EXCEPT ![b] = l1[b]] /\ l2' = [l2 EXCEPT ![b] = l2[b]]
      /\ ~OverBudget(b) \/ ~(AnyLive(l1[b]) \/ AnyLive(l2[b]))
  BY DEF TrimDone, levels, IInv, LevelsGood
<1>4. l1[b].bytes \in Nat /\ l2[b].bytes \in Nat
  BY <1>1, <1>2, CountNat DEF Within
<1>5. MaxBytes > 0 => l1[b].bytes + l2[b].bytes <= MaxBucketBytes
  <2>1. CASE ~OverBudget(b)
    BY <1>4, <2>1, BucketBytes DEF OverBudget
  <2>2. CASE ~AnyLive(l1[b]) /\ ~AnyLive(l2[b])
    <3>1. l1[b].bytes = 0 /\ l2[b].bytes = 0
      BY <1>1, <1>2, <2>2, NoneLiveBytes DEF Within
    <3> QED
      BY <3>1, BucketBytes
  <2> QED
    BY <1>3, <2>1, <2>2
<1>6. Within(l1[b], l2[b], holder'[b] = "trim")
  BY <1>2, <1>5 DEF Within
<1>7. \A a \in Buckets \ {b} : holder'[a] = holder[a]
  BY <1>3 DEF IInv, RestTyped
<1> QED
  BY <1>3, <1>6, <1>7, BudgetStep

LEMMA InitBudget == Init => ByteBudget
<1> SUFFICES ASSUME Init PROVE ByteBudget
  OBVIOUS
<1>1. \A b : GoodLevel(EmptyLevel, Cap1, b) /\ LiveKeys(EmptyLevel) = {}
  BY ConstantFacts, EmptyLevelGood
<1>2. LiveBytes(EmptyLevel) = 0
  <2>1. IsFiniteSet({}) /\ LiveKeys(EmptyLevel) \ {} = {}
    BY <1>1, FS_EmptySet
  <2>2. Outside(EmptyLevel, {}) = 0
    BY <2>1, SumStep DEF Outside
  <2> QED
    BY <1>1, <2>2, LevelWeights
<1>3. \A b \in Buckets : l1[b] = EmptyLevel /\ l2[b] = EmptyLevel
  BY DEF Init
<1> QED
  BY <1>2, <1>3, BucketBytes DEF ByteBudget, EmptyLevel

LEMMA NextBudget ==
    ASSUME IInv, ByteBudget, NoOverflow, [Next]_vars
    PROVE  ByteBudget'
<1>1. CASE Caller
  <2>1. ASSUME NEW k \in Keys, Get(k) PROVE ByteBudget'
    <3>1. ASSUME GetMiss(k) PROVE ByteBudget'
      BY <3>1, BudgetSame DEF GetMiss
    <3> QED
      BY <2>1, <3>1, GetLevel1Budget, GetLevel2Budget DEF Get
  <2>2. ASSUME NEW k \in Keys, Delete(k) PROVE ByteBudget'
    BY <2>2, DeleteBudget DEF Delete
  <2> QED
    BY <1>1, <2>1, <2>2, SetBudget DEF Caller
<1>2. CASE \E b \in Buckets : TrimLoop(b)
  BY <1>2, TrimBudget, TrimDoneBudget DEF TrimLoop
<1>3. ASSUME NEW w \in Sweepers, Collect(w) PROVE ByteBudget'
  <2>1. UNCHANGED levels /\ holder' = [holder EXCEPT ![pos[w]] = w] /\ holder[pos[w]] = "free"
    BY <1>3 DEF Collect
  <2>2. \A b \in Buckets : holder[b] = "trim" => holder'[b] = "trim"
    BY <2>1 DEF IInv, RestTyped
  <2> QED
    BY <2>1, <2>2, BudgetSame
<1>4. ASSUME NEW w \in Sweepers, NextBucket(w) PROVE ByteBudget'
  <2>1. UNCHANGED levels /\ holder' = [holder EXCEPT ![pos[w]] = "free"] /\ holder[pos[w]] = w
    BY <1>4 DEF NextBucket
  <2>2. \A b \in Buckets : holder'[b] # "trim" => holder[b] # "trim"
    BY <2>1 DEF IInv, RestTyped, Sweepers
  <2> QED
    BY <2>1, <2>2, BudgetSame
<1>5. ASSUME NEW w \in Sweepers, NEW k \in Keys, SweepOne(w, k) PROVE ByteBudget'
  BY <1>5, DeleteBudget DEF SweepOne
<1>6. CASE Clear \/ CleanupStart \/ CleanupStop \/ Close \/ ClockAdvance \/ TickerFires
  BY <1>6, BudgetSame DEF Clear, CleanupStart, CleanupStop, Close, ClockAdvance, TickerFires
<1>7. CASE UNCHANGED vars
  BY <1>7, BudgetSame DEF vars, levels
<1> QED
  BY <1>1, <1>2, <1>3, <1>4, <1>5, <1>6, <1>7 DEF Next, Sweep

-----------------------------------------------------------------------------
(* The theorems.                                                           *)

(* Every reachable state of the store is well typed; in particular no      *)
(* level ever has more slots than CapPerBucket or Level2Cap.               *)
THEOREM TypeCorrect == Spec => []TypeOK
<1>1. Init => IInv
  BY InitIInv
<1>2. IInv /\ [Next]_vars => IInv'
  BY NextIInv
<1>3. IInv => TypeOK
  BY DEF IInv, LevelsGood, RestTyped, TypeOK, GoodLevel
<1>4. QED
  BY <1>1, <1>2, <1>3, PTL DEF Spec

(* A key has at most one slot per level, in the bucket it hashes to.       *)
THEOREM SlotsUnique == Spec => []OneSlotPerKey
<1>1. Init => IInv
  BY InitIInv
<1>2. IInv /\ [Next]_vars => IInv'
  BY NextIInv
<1>3. IInv => OneSlotPerKey
  BY DEF IInv, LevelsGood, OneSlotPerKey, GoodLevel
<1>4. QED
  BY <1>1, <1>2, <1>3, PTL DEF Spec

(* A key is never live in both levels of its bucket: the copy promoted to  *)
(* level 2 cannot resurface behind a later Set.                            *)
THEOREM NoStaleCopy == Spec => []LiveInOneLevel
<1>1. Init => IInv
  BY InitIInv
<1>2. IInv /\ [Next]_vars => IInv'
  BY NextIInv
<1>3. IInv => LiveInOneLevel
  BY DEF IInv
<1>4. QED
  BY <1>1, <1>2, <1>3, PTL DEF Spec

(* As long as no deadline wraps around, put recycles a live entry only     *)
(* when all slots of the level are live: dead slots never cost capacity.   *)
THEOREM DeadSlotsRecycledFirst ==
    ASSUME NoOverflow
    PROVE  Spec => []DeadSlotsLast
<1>1. Init => IInv /\ DeadSlotsLast
  BY InitIInv
<1>2. (IInv /\ DeadSlotsLast) /\ [Next]_vars => (IInv /\ DeadSlotsLast)'
  BY NextIInv
<1>3. QED
  BY <1>1, <1>2, PTL DEF Spec

(* As long as no deadline wraps around, onEvicted is called exactly once   *)
(* for an entry the store loses, with the value it had, and for no other:  *)
(* none of Get, Set, Delete, Clear, cleanup and eviction drops an entry    *)
(* silently or reports one twice, at whatever level they find it.          *)
THEOREM LossReportedOnce ==
    ASSUME NoOverflow
    PROVE  Spec => OneCallPerLoss
<1>1. Init => IInv
  BY InitIInv
<1>2. IInv /\ [Next]_vars => IInv'
  BY NextIInv
<1>3. IInv /\ IInv' /\ [Next]_vars => [OneCall]_vars
  BY StepLoses, OneCallFromContent
<1>4. QED
  BY <1>1, <1>2, <1>3, PTL DEF Spec, OneCallPerLoss, OneCall

(* cleanupLoop deletes only what has expired, although other operations    *)
(* ran on other buckets, and time went on, since it read the clock.        *)
THEOREM CleanupSparesFresh == Spec => CleanupOnlyExpired
<1>1. Init => IInv /\ CleanInv
  <2>1. Init => CleanInv
    BY ConstantFacts DEF Init, CleanInv
  <2> QED
    BY <2>1, InitIInv
<1>2. (IInv /\ CleanInv) /\ [Next]_vars => (IInv /\ CleanInv)'
  BY NextIInv, CleanStep
<1> DEFINE A == \A b \in Buckets, k \in Keys :
                    holder[b] = "clean" /\ Present(k) /\ ~Present(k)' /\ BucketOf[k] = b
                        => Content(k).exp <= clock
<1>3. IInv /\ CleanInv /\ IInv' /\ [Next]_vars => [A]_vars
  BY CleanupExpired
<1>4. QED
  BY <1>1, <1>2, <1>3, PTL DEF Spec, CleanupOnlyExpired

(* As long as no deadline wraps around, the two-level sharded store is a   *)
(* map from keys to entries that may forget but never invents, revives or  *)
(* mixes up: every step of it is a step of the contract or a stutter.      *)
THEOREM StoreKeepsContract ==
    ASSUME NoOverflow
    PROVE  Spec => ImplementsContract
<1>1. Init => IInv
  BY InitIInv
<1>2. IInv /\ [Next]_vars => IInv'
  BY NextIInv
<1>3. Init => Contract!Init
  BY InitContract
<1>4. IInv /\ [Next]_vars => [Contract!Next]_<<[k \in Keys |-> Content(k)], clock, event>>
  BY NextContract DEF content
<1>5. QED
  BY <1>1, <1>2, <1>3, <1>4, PTL DEF Spec, ImplementsContract, Contract!Spec

(* As long as no deadline wraps around, a level's count is what its live   *)
(* entries add up to, and a bucket that is not being trimmed is within its *)
(* share of MaxBytes, its level 2 always.                                  *)
THEOREM BudgetHeld ==
    ASSUME NoOverflow
    PROVE  Spec => []ByteBudget
<1>1. Init => IInv /\ ByteBudget
  BY InitIInv, InitBudget
<1>2. (IInv /\ ByteBudget) /\ [Next]_vars => (IInv /\ ByteBudget)'
  BY NextIInv, NextBudget
<1>3. QED
  BY <1>1, <1>2, PTL DEF Spec

=============================================================================
