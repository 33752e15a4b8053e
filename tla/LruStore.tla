------------------------------ MODULE LruStore ------------------------------
(***************************************************************************)
(* The sharded two-level LRU store of the cache: `lruStore' in             *)
(* swifty_cache/lru.go.  A key is hashed to a bucket, a bucket has a       *)
(* mutex and two levels: writes go to level 1, a hit in level 1 promotes   *)
(* the entry to level 2.                                                   *)
(*                                                                         *)
(* Every operation runs under its bucket's mutex, so it is one step unless *)
(* it loops: the byte-budget loop of SetWithExpiration and the delete      *)
(* loops of Clear and of cleanupLoop make one step per iteration (each may *)
(* call the user's onEvicted) and keep the bucket locked in between; Clear *)
(* and cleanupLoop release one bucket before they lock the next.           *)
(***************************************************************************)
EXTENDS LruLevel

CONSTANTS Miss,         \* what Get returns when it finds nothing
          NBuckets,     \* mask + 1, the number of buckets
          BucketOf,     \* BucketOf[k]: HashBKRD(k) & mask
          Cap1, Cap2,   \* CapPerBucket and Level2Cap
          MaxBytes,     \* StoreOptions.MaxBytes, 0 for no budget
          Expirations,  \* the expiration arguments, 0 for "never expires"
          Int64Max,     \* math.MaxInt64: the largest value of an int64
          MaxTime       \* bound: the clock stops there

Buckets == 0..(NBuckets - 1)

ASSUME LruStoreAssumption ==
    /\ NBuckets \in Nat \ {0}
    /\ BucketOf \in [Keys -> Buckets]
    /\ Cap1 \in Nat \ {0} /\ Cap2 \in Nat \ {0}
    /\ MaxBytes \in Nat
    /\ Int64Max \in Nat \ {0}
    /\ MaxTime \in 1..Int64Max
    /\ Expirations \subseteq 0..Int64Max
    /\ Miss \notin Values

VARIABLES clock,    \* the package's coarse clock
          l1, l2,   \* caches[b][0] and caches[b][1]
          holder,   \* what the holder of locks[b] is in the middle of
          doomed,   \* the keys collected under locks[b] and not yet deleted
          pos,      \* the bucket Clear and cleanupLoop work on
          sampled,  \* the time cleanupLoop read before its first bucket
          ticked,   \* a tick waits in the ticker's channel
          closed,   \* closeCh is closed
          event,    \* the caller's operation the last step did, if any
          calls     \* the onEvicted calls made by the last step

levels == <<l1, l2>>
sweeps == <<doomed, pos, sampled>>
closing == <<ticked, closed>>
vars == <<clock, l1, l2, holder, doomed, pos, sampled, ticked, closed, event, calls>>

Sweepers == {"clear", "clean"}
Idle == NBuckets        \* Clear is not running, cleanupLoop is in its select
Stopped == NBuckets + 1 \* cleanupLoop has returned

MaxBucketBytes ==
    IF MaxBytes = 0 THEN 0
    ELSE IF MaxBytes \div NBuckets = 0 THEN 1 ELSE MaxBytes \div NBuckets

(* int64 addition of a time and a duration: it wraps around.               *)
Int64Add(t, d) ==
    IF t + d > Int64Max THEN t + d - 2 * (Int64Max + 1) ELSE t + d

ExpireAt(now, d) == IF d > 0 THEN Int64Add(now, d) ELSE Int64Max

(* What a caller sees of a step: the operation, its key, and the value it  *)
(* stored or got.                                                          *)
Event(op, k, v) == [op |-> op, k |-> k, v |-> v]
NoEvent == [op |-> "none"]
Events == [op : {"got", "set", "delete"}, k : Keys, v : Values \cup {NoValue, Miss}]
          \cup {NoEvent}

Init ==
    /\ clock = 1
    /\ l1 = [b \in Buckets |-> EmptyLevel]
    /\ l2 = [b \in Buckets |-> EmptyLevel]
    /\ holder = [b \in Buckets |-> "free"]
    /\ doomed = [b \in Buckets |-> {}]
    /\ pos = [w \in Sweepers |-> Idle]
    /\ sampled = 0
    /\ ticked = FALSE
    /\ closed = FALSE
    /\ event = NoEvent
    /\ calls = << >>

-----------------------------------------------------------------------------
(* Get: level 1 first, then level 2.  A level 1 slot dies in either case;  *)
(* a fresh entry moves to level 2, where it may push another one out.      *)

Call(k, v) == << <<k, v>> >>

GetLevel1(k) ==
    LET b == BucketOf[k]
        s == SlotOf(l1[b], k)
    IN  /\ ~closed /\ holder[b] = "free"
        /\ LiveIn(l1[b], k)
        /\ l1' = [l1 EXCEPT ![b] = Del(@, k)]
        /\ \/ /\ clock >= s.exp
              /\ l2' = [l2 EXCEPT ![b] = Del(@, k)]
              /\ event' = Event("got", k, Miss)
              /\ calls' = Call(k, s.v)
           \/ /\ clock < s.exp
              /\ l2' = [l2 EXCEPT ![b] = Put(@, Cap2, k, s.v, s.exp)]
              /\ event' = Event("got", k, s.v)
              /\ calls' = PutCalls(l2[b], Cap2, k)
        /\ UNCHANGED <<clock, holder, sweeps, closing>>

GetLevel2(k) ==
    LET b == BucketOf[k]
        s == SlotOf(l2[b], k)
    IN  /\ ~closed /\ holder[b] = "free"
        /\ ~LiveIn(l1[b], k) /\ LiveIn(l2[b], k)
        /\ \/ /\ clock >= s.exp
              /\ l2' = [l2 EXCEPT ![b] = Del(@, k)]
              /\ event' = Event("got", k, Miss)
              /\ calls' = Call(k, s.v)
           \/ /\ clock < s.exp
              /\ l2' = [l2 EXCEPT ![b] = Touch(@, k)]
              /\ event' = Event("got", k, s.v)
              /\ calls' = << >>
        /\ UNCHANGED <<clock, l1, holder, sweeps, closing>>

GetMiss(k) ==
    LET b == BucketOf[k]
    IN  /\ ~closed /\ holder[b] = "free"
        /\ ~LiveIn(l1[b], k) /\ ~LiveIn(l2[b], k)
        /\ event' = Event("got", k, Miss)
        /\ calls' = << >>
        /\ UNCHANGED <<clock, levels, holder, sweeps, closing>>

-----------------------------------------------------------------------------
(* SetWithExpiration.  Now() is read before the mutex is taken, so the     *)
(* time t of the deadline may be any earlier one.  Then the bucket is      *)
(* trimmed to its byte budget, level 1 first, before the mutex is released.*)

(* Mutant: the copy promoted to level 2 stays.                             *)
SetKeepsPromoted(k, v, d, t) ==
    LET b == BucketOf[k]
    IN  /\ ~closed /\ holder[b] = "free"
        /\ l1' = [l1 EXCEPT ![b] = Put(@, Cap1, k, v, ExpireAt(t, d))]
        /\ holder' = [holder EXCEPT ![b] = "trim"]
        /\ calls' = PutCalls(l1[b], Cap1, k)
        /\ event' = Event("set", k, v)
        /\ UNCHANGED <<clock, l2, sweeps, closing>>

SetWithExpiration(k, v, d, t) ==
    LET b == BucketOf[k]
    IN  /\ ~closed /\ holder[b] = "free"
        /\ l1' = [l1 EXCEPT ![b] = Put(@, Cap1, k, v, ExpireAt(t, d))]
        /\ l2' = [l2 EXCEPT ![b] = Del(@, k)]
        /\ holder' = [holder EXCEPT ![b] = "trim"]
        /\ calls' = PutCalls(l1[b], Cap1, k)
        /\ event' = Event("set", k, v)
        /\ UNCHANGED <<clock, sweeps, closing>>

OverBudget(b) ==
    MaxBucketBytes > 0 /\ l1[b].bytes + l2[b].bytes > MaxBucketBytes

evictFromBucket(b) ==
    LET first == AnyLive(l1[b])
    IN  /\ first \/ AnyLive(l2[b])
        /\ l1' = IF first THEN [l1 EXCEPT ![b] = EvictOldest(@)] ELSE l1
        /\ l2' = IF first THEN l2 ELSE [l2 EXCEPT ![b] = EvictOldest(@)]
        /\ calls' = EvictCalls(IF first THEN l1[b] ELSE l2[b])

TrimStep(b) ==
    /\ holder[b] = "trim" /\ OverBudget(b)
    /\ evictFromBucket(b)
    /\ event' = NoEvent
    /\ UNCHANGED <<clock, holder, sweeps, closing>>

TrimDone(b) ==
    /\ holder[b] = "trim"
    /\ ~OverBudget(b) \/ ~(AnyLive(l1[b]) \/ AnyLive(l2[b]))
    /\ holder' = [holder EXCEPT ![b] = "free"]
    /\ calls' = << >>
    /\ event' = NoEvent
    /\ UNCHANGED <<clock, levels, sweeps, closing>>

-----------------------------------------------------------------------------
(* delete: both levels lose the key, onEvicted is called once.             *)

delete(k) ==
    LET b == BucketOf[k]
    IN  /\ l1' = [l1 EXCEPT ![b] = Del(@, k)]
        /\ l2' = [l2 EXCEPT ![b] = Del(@, k)]
        /\ calls' = IF LiveIn(l1[b], k) THEN Call(k, SlotOf(l1[b], k).v)
                    ELSE IF LiveIn(l2[b], k) THEN Call(k, SlotOf(l2[b], k).v)
                    ELSE << >>

Delete(k) ==
    /\ ~closed /\ holder[BucketOf[k]] = "free"
    /\ delete(k)
    /\ event' = Event("delete", k, NoValue)
    /\ UNCHANGED <<clock, holder, sweeps, closing>>

-----------------------------------------------------------------------------
(* Clear and cleanupLoop: bucket by bucket, collect keys under the mutex,  *)
(* then delete them one by one in no particular order (map iteration).     *)

(* Mutant: the comparison with the deadline is off by one.                 *)
ExpiredOffByOne(c, now) == {k \in LiveKeys(c) : now + 1 >= SlotOf(c, k).exp}

Expired(c, now) == {k \in LiveKeys(c) : now >= SlotOf(c, k).exp}

Doom(w, b) ==
    IF w = "clear" THEN LiveKeys(l1[b]) \cup LiveKeys(l2[b])
    ELSE Expired(l1[b], sampled) \cup Expired(l2[b], sampled)

Collect(w) ==
    /\ pos[w] \in Buckets
    /\ holder[pos[w]] = "free"
    /\ holder' = [holder EXCEPT ![pos[w]] = w]
    /\ doomed' = [doomed EXCEPT ![pos[w]] = Doom(w, pos[w])]
    /\ calls' = << >>
    /\ event' = NoEvent
    /\ UNCHANGED <<clock, levels, pos, sampled, closing>>

SweepOne(w, k) ==
    LET b == BucketOf[k]
    IN  /\ holder[b] = w /\ k \in doomed[b]
        /\ delete(k)
        /\ doomed' = [doomed EXCEPT ![b] = @ \ {k}]
        /\ event' = NoEvent
        /\ UNCHANGED <<clock, holder, pos, sampled, closing>>

(* Mutant: the bucket is not unlocked.                                     *)
NextBucketLocked(w) ==
    /\ pos[w] \in Buckets
    /\ holder[pos[w]] = w /\ doomed[pos[w]] = {}
    /\ pos' = [pos EXCEPT ![w] = @ + 1]
    /\ calls' = << >> /\ event' = NoEvent
    /\ UNCHANGED <<clock, levels, holder, doomed, sampled, closing>>

NextBucket(w) ==
    /\ pos[w] \in Buckets
    /\ holder[pos[w]] = w /\ doomed[pos[w]] = {}
    /\ holder' = [holder EXCEPT ![pos[w]] = "free"]
    /\ pos' = [pos EXCEPT ![w] = @ + 1]
    /\ calls' = << >>
    /\ event' = NoEvent
    /\ UNCHANGED <<clock, levels, doomed, sampled, closing>>

Clear ==
    /\ ~closed /\ pos["clear"] = Idle
    /\ pos' = [pos EXCEPT !["clear"] = 0]
    /\ calls' = << >>
    /\ event' = NoEvent
    /\ UNCHANGED <<clock, levels, holder, doomed, sampled, closing>>

CleanupStart ==
    /\ pos["clean"] = Idle /\ ticked
    /\ ticked' = FALSE
    /\ sampled' = clock
    /\ pos' = [pos EXCEPT !["clean"] = 0]
    /\ calls' = << >>
    /\ event' = NoEvent
    /\ UNCHANGED <<clock, levels, holder, doomed, closed>>

(* The select of cleanupLoop may pick closeCh even when a tick waits.      *)
CleanupStop ==
    /\ pos["clean"] = Idle /\ closed
    /\ pos' = [pos EXCEPT !["clean"] = Stopped]
    /\ calls' = << >>
    /\ event' = NoEvent
    /\ UNCHANGED <<clock, levels, holder, doomed, sampled, closing>>

(* Close: Cache.Close (cache.go) calls it holding its write lock, so no    *)
(* operation of a caller is in progress and none follows; cleanupLoop may  *)
(* be anywhere.                                                            *)
Close ==
    /\ ~closed
    /\ pos["clear"] = Idle
    /\ \A b \in Buckets : holder[b] # "trim"
    /\ closed' = TRUE
    /\ calls' = << >>
    /\ event' = NoEvent
    /\ UNCHANGED <<clock, levels, holder, sweeps, ticked>>

-----------------------------------------------------------------------------
(* The clock goroutine and the cleanup ticker (channel of one tick).       *)

ClockAdvance ==
    /\ clock < MaxTime
    /\ clock' = clock + 1
    /\ calls' = << >>
    /\ event' = NoEvent
    /\ UNCHANGED <<levels, holder, sweeps, closing>>

TickerFires ==
    /\ ~closed /\ ~ticked
    /\ ticked' = TRUE
    /\ calls' = << >>
    /\ event' = NoEvent
    /\ UNCHANGED <<clock, levels, holder, sweeps, closed>>

Get(k) == GetLevel1(k) \/ GetLevel2(k) \/ GetMiss(k)

Caller ==
    \E k \in Keys :
        \/ Get(k)
        \/ Delete(k)
        \/ \E v \in Values, d \in Expirations, t \in 1..clock :
               SetWithExpiration(k, v, d, t)

TrimLoop(b) == TrimStep(b) \/ TrimDone(b)
Sweep(w) == Collect(w) \/ NextBucket(w) \/ \E k \in Keys : SweepOne(w, k)

Next ==
    \/ Caller
    \/ \E b \in Buckets : TrimLoop(b)
    \/ \E w \in Sweepers : Sweep(w)
    \/ Clear \/ CleanupStart \/ CleanupStop \/ Close
    \/ ClockAdvance \/ TickerFires

(* A goroutine inside a loop keeps running.  A goroutine waiting for a     *)
(* bucket's mutex gets it though others take it in between: a Go mutex     *)
(* hands itself to a waiter that has waited long enough (starvation mode), *)
(* hence strong fairness.  Nothing forces callers, ticker or Close.        *)
Fairness ==
    /\ \A b \in Buckets : WF_vars(TrimLoop(b))
    /\ \A w \in Sweepers : SF_vars(Sweep(w))
    /\ WF_vars(CleanupStop)
    /\ WF_vars(CleanupStart)

Spec == Init /\ [][Next]_vars
FairSpec == Spec /\ Fairness

-----------------------------------------------------------------------------
(* Properties.                                                             *)

SlotTypes(c) == \A i \in Positions(c) : IsLive(c.slots[i]) => c.slots[i].v \in Values

(* Every variable has its type, live slots hold a value, and a level never *)
(* has more slots than its capacity (Create, `put' of lru.go).             *)
TypeOK ==
    /\ clock \in 1..MaxTime
    /\ l1 \in [Buckets -> Level] /\ l2 \in [Buckets -> Level]
    /\ \A b \in Buckets : /\ SlotTypes(l1[b]) /\ Len(l1[b].slots) <= Cap1
                         /\ SlotTypes(l2[b]) /\ Len(l2[b].slots) <= Cap2
    /\ holder \in [Buckets -> {"free", "trim"} \cup Sweepers]
    /\ doomed \in [Buckets -> SUBSET Keys]
    /\ pos \in [Sweepers -> 0..Stopped]
    /\ sampled \in 0..MaxTime
    /\ ticked \in BOOLEAN /\ closed \in BOOLEAN
    /\ event \in Events
    /\ calls \in Seq(Keys \X Values)

(* No deadline computed by SetWithExpiration wraps around.                 *)
NoOverflow == \A d \in Expirations : MaxTime + d <= Int64Max

UniqueKeys(c) ==
    \A i, j \in Positions(c) : c.slots[i].k = c.slots[j].k => i = j

DeadLast(c) ==
    \A i, j \in Positions(c) : i < j /\ IsLive(c.slots[j]) => IsLive(c.slots[i])

InBucket(c, b) == \A i \in Positions(c) : BucketOf[c.slots[i].k] = b

(* hashMap and list agree: a key has one slot per level, in the bucket it  *)
(* hashes to (`put' looks the key up before it takes a slot).              *)
OneSlotPerKey ==
    \A b \in Buckets : /\ UniqueKeys(l1[b]) /\ InBucket(l1[b], b)
                      /\ UniqueKeys(l2[b]) /\ InBucket(l2[b], b)

(* A key is live in at most one level: Get moves it and SetWithExpiration  *)
(* drops the promoted copy, "otherwise it can resurface after the L1 slot  *)
(* is recycled" (lru.go).                                                  *)
LiveInOneLevel ==
    \A b \in Buckets : LiveKeys(l1[b]) \cap LiveKeys(l2[b]) = {}

(* Dead slots are always the least recently used ones, so `put' recycles   *)
(* a live entry only when every slot of the level is live.                 *)
DeadSlotsLast == \A b \in Buckets : DeadLast(l1[b]) /\ DeadLast(l2[b])

LiveBytes(c) == SumFunction([k \in LiveKeys(c) |-> entryBytes(k, SlotOf(c, k).v)])

(* The count of a level is "the total live bytes (keys + values)" (Bytes   *)
(* of lru.go), whatever was overwritten, moved, recycled or lost. Once     *)
(* SetWithExpiration has released the bucket, they are within the bucket's *)
(* share of MaxBytes, whatever Get promoted since; level 2 alone always    *)
(* is, so trimming never has to reach level 2.                             *)
ByteBudget ==
    \A b \in Buckets :
        /\ l1[b].bytes = LiveBytes(l1[b]) /\ l2[b].bytes = LiveBytes(l2[b])
        /\ MaxBytes > 0 =>
              /\ l2[b].bytes <= MaxBucketBytes
              /\ holder[b] # "trim" => l1[b].bytes + l2[b].bytes <= MaxBucketBytes

(* What a reader of the store may see of key k.                            *)
Nothing == [v |-> NoValue, exp |-> 0]
Content(k) ==
    LET b == BucketOf[k]
        entry(c) == [v |-> SlotOf(c, k).v, exp |-> SlotOf(c, k).exp]
    IN  IF LiveIn(l1[b], k) THEN entry(l1[b])
        ELSE IF LiveIn(l2[b], k) THEN entry(l2[b])
        ELSE Nothing

HoldsIn(c, k, v) == LiveIn(c, k) /\ SlotOf(c, k).v = v
Holds(k, v) == HoldsIn(l1[BucketOf[k]], k, v) \/ HoldsIn(l2[BucketOf[k]], k, v)
Present(k) == \E v \in Values : Holds(k, v)

(* onEvicted is called exactly once for an entry the store loses, with the *)
(* value it had, and never for one it keeps: an overwritten value goes     *)
(* silently, an entry promoted between levels is not reported.             *)
OneCallPerLoss ==
    [][/\ \A k \in Keys, v \in Values :
             (Holds(k, v) /\ ~Present(k)') <=> (\E i \in 1..Len(calls') : calls'[i] = <<k, v>>)
       /\ \A i, j \in 1..Len(calls') : calls'[i] = calls'[j] => i = j]_vars

(* cleanupLoop never deletes an entry that has not expired, although the   *)
(* time it compares with is older than the deletion.                       *)
CleanupOnlyExpired ==
    [][\A b \in Buckets, k \in Keys :
          holder[b] = "clean" /\ Present(k) /\ ~Present(k)' /\ BucketOf[k] = b
              => Content(k).exp <= clock]_vars

(* The loops end: a bucket that is being trimmed or swept is released, so  *)
(* the mutex is never held for ever (the eviction loop of                  *)
(* SetWithExpiration stops when nothing is left to evict), and after Close *)
(* the cleanup goroutine returns, wherever Close found it.                 *)
LoopsEnd ==
    /\ \A b \in Buckets : holder[b] # "free" ~> holder[b] = "free"
    /\ closed ~> pos["clean"] = Stopped

(* What the store promises its callers.                                    *)
Contract == INSTANCE CacheContract WITH
                content <- [k \in Keys |-> Content(k)], now <- clock
ImplementsContract == Contract!Spec

=============================================================================
