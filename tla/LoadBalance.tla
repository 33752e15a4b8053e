---------------------------- MODULE LoadBalance ----------------------------
(***************************************************************************)
(* The selections of internal/load_balance as operators on lists of n      *)
(* instances. Both balancers select a position; the weights belong to      *)
(* positions, too. What is said here of positions holds of instances when  *)
(* every call brings the list in the same order. The lists of a Registry   *)
(* do not: Discover goes through a map, so that a registry client's        *)
(* selections are spread by that order, whatever the weights or turns.     *)
(***************************************************************************)
EXTENDS Integers, Sequences, FiniteSets

(* RoundRobin.Select: the counter, and the position for it.                *)
RoundRobin(idx, n) == [idx |-> idx + 1, pick |-> (idx % n) + 1]

Total(ws) ==
    LET sum[k \in 0 .. Len(ws)] == IF k = 0 THEN 0 ELSE sum[k - 1] + ws[k]
    IN  sum[Len(ws)]

(* NewWeightedRR takes a negative weight for none.                         *)
Clamp(ws) == [i \in 1 .. Len(ws) |-> IF ws[i] < 0 THEN 0 ELSE ws[i]]

(* WeightedRR.Select: every current weight grows by its weight, the first  *)
(* of the greatest is picked and pays the total.                           *)
Grown(cur, ws) == [i \in 1 .. Len(ws) |-> cur[i] + ws[i]]

FirstMax(s) ==
    CHOOSE i \in DOMAIN s : \A j \in DOMAIN s : s[j] < s[i] \/ (s[j] = s[i] /\ i <= j)

Smooth(cur, ws) ==
    LET g == Grown(cur, ws) IN [cur |-> [g EXCEPT ![FirstMax(g)] = @ - Total(ws)], pick |-> FirstMax(g)]

(* A list of another length, or weights without a total, give no instance. *)
Refuses(n, ws) == n # Len(ws) \/ Total(ws) <= 0

Select(n, cur, ws) ==
    IF n = 0 \/ Refuses(n, ws) THEN [cur |-> cur, pick |-> 0] ELSE Smooth(cur, ws)

-----------------------------------------------------------------------------
(* n successive selections over an unchanged list: what each picks, and    *)
(* the current weights behind it.                                          *)
SmoothRun(ws, n) ==
    LET run[k \in 0 .. n] ==
          IF k = 0 THEN [cur |-> [i \in 1 .. Len(ws) |-> 0], pick |-> 0]
                   ELSE Select(Len(ws), run[k - 1].cur, ws)
    IN  run

Times(run, x, from, to) == Cardinality({k \in from .. to : run[k].pick = x})

(* In any run of as many selections as the weights sum up to, wherever it  *)
(* begins, each position is picked as often as its weight says, and none   *)
(* is ever further than one selection ahead of its share.                  *)
Honours(ws) ==
    LET t == Total(ws)
        s == SmoothRun(ws, 2 * t)
    IN  t > 0 => \A i \in 1 .. Len(ws) :
                    /\ \A from \in 1 .. t : Times(s, i, from, from + t - 1) = ws[i]
                    /\ \A k \in 1 .. t : (Times(s, i, 1, k) - 1) * t < k * ws[i]

(* n selections of RoundRobin in a row pick every position.                *)
TakesTurns(n, start) ==
    \A i \in 1 .. n : \E k \in 0 .. n - 1 : RoundRobin(start + k, n).pick = i
=============================================================================
