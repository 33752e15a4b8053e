------------------------------ MODULE LruLevel ------------------------------
(***************************************************************************)
(* One level of a bucket of the in-process cache: the `cache` type of      *)
(* swifty_cache/lru.go.                                                    *)
(*                                                                         *)
(* The code keeps the used slots m[0..last-1], a hashMap from a key to its *)
(* slot and a doubly linked list over the slots (doubleLink, whose entry 0 *)
(* holds the two ends).  Here a level is the list read from its most to    *)
(* its least recently used end, so Len(slots) is `last' and the hashMap    *)
(* has exactly the keys of the slots.  A slot whose expireAt is not        *)
(* positive is dead: its key is still in the hashMap, its value is gone.   *)
(* Dead slots keep the value NoValue, as the code sets v to nil.           *)
(*                                                                         *)
(* The operators are pure: they take a level and return the new one.       *)
(***************************************************************************)
EXTENDS Integers, Sequences, FiniteSetsExt

CONSTANTS Keys,      \* the cache keys
          Values,    \* the values a caller may store
          NoValue,   \* the nil value of a dead slot
          KeyLen,    \* KeyLen[k]: the length of key k
          ValLen     \* ValLen[v]: what v.Len() returns

ASSUME LruLevelAssumption ==
    /\ KeyLen \in [Keys -> Nat]
    /\ ValLen \in [Values -> Nat]
    /\ NoValue \notin Values

Slot == [k : Keys, v : Values \cup {NoValue}, exp : Int]
Level == [slots : Seq(Slot), bytes : Int]

EmptyLevel == [slots |-> << >>, bytes |-> 0]

entryBytes(k, v) == KeyLen[k] + ValLen[v]

IsLive(s) == s.exp > 0

Positions(c) == 1..Len(c.slots)
Held(c, k) == \E i \in Positions(c) : c.slots[i].k = k
PosOf(c, k) == CHOOSE i \in Positions(c) : c.slots[i].k = k
LiveIn(c, k) == \E i \in Positions(c) : c.slots[i].k = k /\ IsLive(c.slots[i])
AnyLive(c) == \E i \in Positions(c) : IsLive(c.slots[i])
LiveKeys(c) == {k \in Keys : LiveIn(c, k)}
SlotOf(c, k) == c.slots[PosOf(c, k)]

-----------------------------------------------------------------------------
(* adjust: slot s, until now at position i, becomes the most (adjust with  *)
(* p, n) or the least (adjust with n, p) recently used one.                *)

ToFront(q, i, s) ==
    [j \in 1..Len(q) |-> IF j = 1 THEN s ELSE IF j <= i THEN q[j - 1] ELSE q[j]]

ToBack(q, i, s) ==
    [j \in 1..Len(q) |-> IF j = Len(q) THEN s ELSE IF j >= i THEN q[j + 1] ELSE q[j]]

PushFront(q, s) ==
    [j \in 1..(Len(q) + 1) |-> IF j = 1 THEN s ELSE q[j - 1]]

-----------------------------------------------------------------------------
(* put.  A key that has a slot keeps it, dead or alive.  Otherwise a full  *)
(* level recycles its least recently used slot and one that is not full    *)
(* takes a fresh slot.  PutCalls are the onEvicted calls put makes.        *)

SlotFor(k, v, e) == [k |-> k, v |-> v, exp |-> e]

PutHeld(c, k, v, e) ==
    LET i   == PosOf(c, k)
        old == c.slots[i]
    IN  [slots |-> ToFront(c.slots, i, SlotFor(k, v, e)),
         bytes |-> c.bytes + entryBytes(k, v)
                     - (IF IsLive(old) THEN entryBytes(old.k, old.v) ELSE 0)]

(* Mutant: the bytes of the recycled entry are not taken off.              *)
PutRecycleLeak(c, k, v, e) ==
    [slots |-> ToFront(c.slots, Len(c.slots), SlotFor(k, v, e)),
     bytes |-> c.bytes + entryBytes(k, v)]

PutRecycle(c, k, v, e) ==
    LET last == Len(c.slots)
        tail == c.slots[last]
    IN  [slots |-> ToFront(c.slots, last, SlotFor(k, v, e)),
         bytes |-> c.bytes + entryBytes(k, v)
                     - (IF IsLive(tail) THEN entryBytes(tail.k, tail.v) ELSE 0)]

PutFresh(c, k, v, e) ==
    [slots |-> PushFront(c.slots, SlotFor(k, v, e)),
     bytes |-> c.bytes + entryBytes(k, v)]

Put(c, cap, k, v, e) ==
    IF Held(c, k) THEN PutHeld(c, k, v, e)
    ELSE IF Len(c.slots) = cap THEN PutRecycle(c, k, v, e)
    ELSE PutFresh(c, k, v, e)

(* Mutant: the callback does not look whether the key has a slot already.  *)
PutCallsWhenFull(c, cap, k) ==
    LET tail == c.slots[Len(c.slots)]
    IN  IF Len(c.slots) = cap /\ IsLive(tail) THEN << <<tail.k, tail.v>> >>
        ELSE << >>

PutCalls(c, cap, k) ==
    LET tail == c.slots[Len(c.slots)]
    IN  IF ~Held(c, k) /\ Len(c.slots) = cap /\ IsLive(tail)
        THEN << <<tail.k, tail.v>> >>
        ELSE << >>

-----------------------------------------------------------------------------
(* del and drop: a live slot of k dies and becomes the least recently used *)
(* one; without a live slot of k nothing happens.                          *)

(* Mutant: the adjust(idx, n, p) is forgotten.                             *)
KillInPlace(c, i) ==
    LET s == c.slots[i]
    IN  [slots |-> [c.slots EXCEPT ![i] = SlotFor(s.k, NoValue, 0)],
         bytes |-> c.bytes - entryBytes(s.k, s.v)]

KillAt(c, i) ==
    LET s == c.slots[i]
    IN  [slots |-> ToBack(c.slots, i, SlotFor(s.k, NoValue, 0)),
         bytes |-> c.bytes - entryBytes(s.k, s.v)]

Del(c, k) == IF LiveIn(c, k) THEN KillAt(c, PosOf(c, k)) ELSE c

(* evictOldest: the search goes from the least recently used end to the    *)
(* first live slot.                                                        *)
OldestLive(c) ==
    CHOOSE i \in Positions(c) :
        /\ IsLive(c.slots[i])
        /\ \A j \in Positions(c) : j > i => ~IsLive(c.slots[j])

EvictOldest(c) == KillAt(c, OldestLive(c))

EvictCalls(c) ==
    LET s == c.slots[OldestLive(c)] IN << <<s.k, s.v>> >>

(* adjust(idx, p, n) on a slot that was found: it becomes the most         *)
(* recently used.                                                          *)
Touch(c, k) ==
    [c EXCEPT !.slots = ToFront(c.slots, PosOf(c, k), SlotOf(c, k))]

=============================================================================
