---------------------------- MODULE Registration ----------------------------
(***************************************************************************)
(* How a swifty_cache node keeps itself registered in etcd: Register,      *)
(* registerLease and reRegister of register.go, and what etcd does with    *)
(* leases. A request that fails may have taken effect all the same, by the *)
(* time it fails.                                                          *)
(***************************************************************************)
EXTENDS Naturals

CONSTANT MaxLeases   \* bound on the leases the node is granted

ASSUME RegistrationAssumption == MaxLeases \in Nat

VARIABLES
    node,     \* where Register, or its goroutine, is
    joined,   \* Register has returned nil
    stop,     \* stopCh is closed
    leases,   \* number of leases granted
    live,     \* those that have not run out
    mine,     \* leaseID of the goroutine
    key       \* the lease that /services/<name>/<addr> is attached to, 0 when it is not there

regVars == <<node, joined, stop, leases, live, mine, key>>

RegInit ==
    /\ node = "idle" /\ joined = FALSE /\ stop = FALSE
    /\ leases = 0 /\ live = {} /\ mine = 0 /\ key = 0

(* The first attempt ends Register, a later one is followed by another.    *)
Fails == node' = IF joined THEN "pause" ELSE "ended"

Register ==
    /\ node = "idle" /\ node' = "grant"
    /\ UNCHANGED <<joined, stop, leases, live, mine, key>>

StopNode ==
    /\ ~stop /\ stop' = TRUE
    /\ UNCHANGED <<node, joined, leases, live, mine, key>>

-----------------------------------------------------------------------------
(* registerLease                                                           *)

Grant ==
    /\ node = "grant" /\ leases < MaxLeases
    /\ leases' = leases + 1 /\ live' = live \cup {leases + 1}
    /\ node' = "put" \/ Fails
    /\ UNCHANGED <<joined, stop, mine, key>>

GrantFails ==
    /\ node = "grant" /\ Fails
    /\ UNCHANGED <<joined, stop, leases, live, mine, key>>

(* The key has the new lease, and no longer that of an earlier attempt.    *)
Put ==
    /\ node = "put" /\ leases \in live
    /\ key' = leases
    /\ node' = "keep" \/ Fails
    /\ UNCHANGED <<joined, stop, leases, live, mine>>

PutFails ==
    /\ node = "put" /\ Fails
    /\ UNCHANGED <<joined, stop, leases, live, mine, key>>

(* Mutant: leaseID is declared anew where it should be assigned.           *)
KeepAliveOld ==
    /\ node = "keep"
    /\ node' = "run" /\ joined' = TRUE /\ mine' = IF joined THEN mine ELSE leases
    /\ UNCHANGED <<stop, leases, live, key>>

KeepAlive ==
    /\ node = "keep"
    /\ node' = "run" /\ joined' = TRUE /\ mine' = leases
    /\ UNCHANGED <<stop, leases, live, key>>

KeepAliveFails ==
    /\ node = "keep" /\ Fails
    /\ UNCHANGED <<joined, stop, leases, live, mine, key>>

-----------------------------------------------------------------------------
(* The goroutine of Register, reRegister, and the leases                   *)

ChannelCloses ==
    /\ node = "run" /\ node' = "pause"
    /\ UNCHANGED <<joined, stop, leases, live, mine, key>>

Resume ==
    /\ node = "pause" /\ node' = IF stop THEN "ended" ELSE "grant"
    /\ UNCHANGED <<joined, stop, leases, live, mine, key>>

Drop(id) == live' = live \ {id} /\ key' = IF key = id THEN 0 ELSE key

Revoke ==
    /\ node = "run" /\ stop
    /\ Drop(mine) /\ node' = "ended"
    /\ UNCHANGED <<joined, stop, leases, mine>>

RevokeFails ==
    /\ node = "run" /\ stop
    /\ node' = "ended"
    /\ UNCHANGED <<joined, stop, leases, live, mine, key>>

(* A lease that nobody keeps alive runs out, another one may (when the     *)
(* node is cut off).                                                       *)
Expire(id) ==
    /\ id \in live
    /\ Drop(id)
    /\ UNCHANGED <<node, joined, stop, leases, mine>>

(* Mutant: the client, and with it KeepAlive, is not closed in the end.    *)
KeptOpen(id) == node \in {"run", "ended"} /\ mine = id

Kept(id) == node = "run" /\ mine = id

(* The steps that the key is neither put nor deleted by.                   *)
Quiet ==
    \/ Register \/ StopNode \/ Grant \/ GrantFails \/ PutFails
    \/ KeepAlive \/ KeepAliveFails \/ ChannelCloses \/ Resume \/ RevokeFails

Deletes == Revoke \/ \E id \in live : Expire(id)

Goes ==
    \/ Grant \/ GrantFails \/ Put \/ PutFails \/ KeepAlive \/ KeepAliveFails
    \/ Resume \/ Revoke \/ RevokeFails

-----------------------------------------------------------------------------
(* Type correctness.                                                       *)
RegTypeOK ==
    /\ node \in {"idle", "grant", "put", "keep", "run", "pause", "ended"}
    /\ joined \in BOOLEAN /\ stop \in BOOLEAN
    /\ leases \in 0 .. MaxLeases /\ live \subseteq 1 .. leases
    /\ mine \in 0 .. leases /\ key \in live \cup {0}
=============================================================================
