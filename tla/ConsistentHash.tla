--------------------------- MODULE ConsistentHash ---------------------------
(***************************************************************************)
(* The hash ring of swifty_cache/consistent_hash.go as operators on a      *)
(* record: hashMap gives each virtual node on the ring its owner,          *)
(* nodeHashes gives each member the virtual nodes it was able to place.    *)
(* The sorted slice `keys' always holds the domain of hashMap. The request *)
(* counters only record.                                                   *)
(***************************************************************************)
EXTENDS Integers

CONSTANTS
    Nodes,
    Hashes,      \* the values of HashFunc
    VHash        \* [Nodes -> SUBSET Hashes]: the hashes of "node-0", "node-1", ...

ASSUME HashAssumption == Hashes \subseteq Nat /\ VHash \in [Nodes -> SUBSET Hashes]

NewRing == [hashMap |-> [h \in {} |-> 0], nodeHashes |-> [n \in {} |-> {}]]

Keys(ring) == DOMAIN ring.hashMap
Members(ring) == DOMAIN ring.nodeHashes

(* Mutant: a virtual node whose hash is taken is placed all the same.      *)
AddSteals(ring, n) ==
    LET free == VHash[n]
    IN  IF n \in Members(ring) THEN ring
        ELSE [hashMap |-> [h \in Keys(ring) \cup free |->
                              IF h \in free THEN n ELSE ring.hashMap[h]],
              nodeHashes |-> [m \in Members(ring) \cup {n} |->
                              IF m = n THEN free ELSE ring.nodeHashes[m]]]

(* addNodeLocked: a hash that is taken is skipped.                         *)
Add(ring, n) ==
    LET free == VHash[n] \ Keys(ring)
    IN  IF n \in Members(ring) THEN ring
        ELSE [hashMap |-> [h \in Keys(ring) \cup free |->
                              IF h \in free THEN n ELSE ring.hashMap[h]],
              nodeHashes |-> [m \in Members(ring) \cup {n} |->
                              IF m = n THEN free ELSE ring.nodeHashes[m]]]

(* removeNodeLocked, for a member.                                         *)
Remove(ring, n) ==
    [hashMap |-> [h \in Keys(ring) \ ring.nodeHashes[n] |-> ring.hashMap[h]],
     nodeHashes |-> [m \in Members(ring) \ {n} |-> ring.nodeHashes[m]]]

(* Get for a key that hashes to h: the next virtual node on the ring, with *)
(* wrap-around.                                                            *)
Owner(ring, h) ==
    LET first(S) == CHOOSE k \in S : \A j \in S : k <= j
        after == {k \in Keys(ring) : k >= h}
    IN  ring.hashMap[first(IF after = {} THEN Keys(ring) ELSE after)]

(* hashMap and nodeHashes say the same: a virtual node on the ring belongs *)
(* to the member that has placed it.                                       *)
Exact(r) ==
    /\ \A h \in Keys(r) :
           /\ r.hashMap[h] \in Members(r)
           /\ h \in r.nodeHashes[r.hashMap[h]]
    /\ \A n \in Members(r) : \A h \in r.nodeHashes[n] :
           h \in Keys(r) /\ r.hashMap[h] = n
=============================================================================
