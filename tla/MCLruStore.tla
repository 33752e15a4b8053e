----------------------------- MODULE MCLruStore -----------------------------
(* Instances of LruStore for TLC.                                          *)
EXTENDS LruStore, TLC

CONSTANTS k1, k2, k3, v1, v2

MCValLen == [v \in Values |-> IF v = v1 THEN 1 ELSE 2]
KeyLenOne == [k \in Keys |-> 1]

(* What the theorems on content, callbacks and bytes ask of the durations. *)
ASSUME MCNoOverflow == NoOverflow

(* Every key in one bucket: the two levels, their capacities and the byte  *)
(* budget interact.                                                        *)
OneBucket == [k \in Keys |-> 0]

(* With one bucket and one key length the keys are interchangeable.        *)
KeySymmetry == Permutations(Keys)

(* Two buckets: Clear and cleanupLoop move from one to the next.           *)
TwoBuckets == [k \in Keys |-> IF k = k1 THEN 0 ELSE 1]
=============================================================================
