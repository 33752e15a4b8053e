--------------------------- MODULE CacheContract ----------------------------
(***************************************************************************)
(* What the cache store promises, with no word about levels, slots,        *)
(* buckets or recency: a map from keys to values with deadlines that may   *)
(* forget entries but never invents, revives or mixes them up.             *)
(*   - a Get returns the value of the last Set of its key, unless that     *)
(*     entry has expired or has been forgotten; it misses only then;       *)
(*   - a Set installs its value and may make the store forget others;      *)
(*   - an entry forgotten, deleted or found expired stays away until the   *)
(*     next Set of its key.                                                *)
(***************************************************************************)
EXTENDS Integers

CONSTANTS Keys, Values, NoValue, Miss

VARIABLES content,  \* the entry of each key, Nothing if there is none
          now,      \* the clock
          event     \* the caller's operation the last step did, if any

Nothing == [v |-> NoValue, exp |-> 0]
Has(k) == content[k] # Nothing

Event(op, k, v) == [op |-> op, k |-> k, v |-> v]
NoEvent == [op |-> "none"]

(* The entry of k becomes e; any of the others may be forgotten.           *)
Becomes(k, e) ==
    /\ content'[k] = e
    /\ \A o \in Keys \ {k} : content'[o] \in {content[o], Nothing}

Init ==
    /\ content = [k \in Keys |-> Nothing]
    /\ now = 1
    /\ event = NoEvent

(* Whatever deadline the caller asked for.                                 *)
Set(k, v) ==
    /\ content'[k].exp > 0
    /\ Becomes(k, [v |-> v, exp |-> content'[k].exp])
    /\ event' = Event("set", k, v)
    /\ UNCHANGED now

(* A hit may make room by forgetting other entries.                        *)
Hit(k) ==
    /\ Has(k) /\ now < content[k].exp
    /\ Becomes(k, content[k])
    /\ event' = Event("got", k, content[k].v)
    /\ UNCHANGED now

MissAbsent(k) ==
    /\ ~Has(k)
    /\ event' = Event("got", k, Miss)
    /\ UNCHANGED <<content, now>>

MissExpired(k) ==
    /\ Has(k) /\ now >= content[k].exp
    /\ event' = Event("got", k, Miss)
    /\ content' = [content EXCEPT ![k] = Nothing]
    /\ UNCHANGED now

Delete(k) ==
    /\ content' = [content EXCEPT ![k] = Nothing]
    /\ event' = Event("delete", k, NoValue)
    /\ UNCHANGED now

(* Eviction, Clear and cleanup, seen from outside.                         *)
Forget ==
    /\ \A k \in Keys : content'[k] \in {content[k], Nothing}
    /\ event' = NoEvent
    /\ UNCHANGED now

TimePasses ==
    /\ now' > now
    /\ event' = NoEvent
    /\ UNCHANGED content

Next ==
    \/ \E k \in Keys :
        \/ Hit(k) \/ MissAbsent(k) \/ MissExpired(k) \/ Delete(k)
        \/ \E v \in Values : Set(k, v)
    \/ Forget
    \/ TimePasses

Spec == Init /\ [][Next]_<<content, now, event>>
=============================================================================
