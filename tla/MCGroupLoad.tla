---------------------------- MODULE MCGroupLoad -----------------------------
(* Instances of GroupLoad for TLC: two nodes, a caller on each.            *)
EXTENDS GroupLoad

CONSTANTS n1, n2, c1, c2

MCHome == [c \in Calls |-> IF c = c1 THEN n1 ELSE n2]
=============================================================================
