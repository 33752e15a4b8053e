---------------------------- MODULE CacheCluster ----------------------------
(***************************************************************************)
(* A node that registers itself (Registration) and another one that looks  *)
(* for its peers (PeerDiscovery), by way of etcd. The other peers come and *)
(* go at will.                                                             *)
(***************************************************************************)
EXTENDS PeerDiscovery, Registration, FiniteSets

CONSTANTS
    Node,        \* the address of the node that is modelled in detail
    MaxOthers    \* bound on what the other peers do

ASSUME ClusterAssumption ==
    /\ Node \in Peers
    /\ MaxLog >= 2 * MaxLeases + MaxOthers   \* the log has room for every event

ClusterInit == Init /\ RegInit

(* What the node does to its key is an event in etcd.                      *)
NodeStep ==
    \/ Quiet /\ UNCHANGED vars
    \/ Put /\ Happens(Node, TRUE)
    \/ Deletes /\ IF key' = key THEN UNCHANGED vars ELSE Happens(Node, FALSE)

OtherEvents == {i \in DOMAIN log : log[i].addr # Node}

OtherStep ==
    /\ Cardinality(OtherEvents) < MaxOthers
    /\ \E p \in Peers \ {Node}, put \in BOOLEAN : Happens(p, put)
    /\ UNCHANGED regVars

ClusterNext ==
    \/ NodeStep \/ OtherStep
    \/ (Discover \/ WatchBreaks \/ Cancel \/ CloseClients) /\ UNCHANGED regVars

ClusterSpec == ClusterInit /\ [][ClusterNext]_<<vars, regVars>>

(* Requests to etcd end, a lease that nobody keeps alive runs out, and the *)
(* discovery goroutine goes on as in PeerDiscovery. Nobody need start or   *)
(* stop the node, and a lease that is kept need not break.                 *)
ClusterFairSpec ==
    /\ ClusterSpec
    /\ WF_<<vars, regVars>>(NodeStep /\ Goes)
    /\ \A id \in 1 .. MaxLeases :
          WF_<<vars, regVars>>(NodeStep /\ Expire(id) /\ ~Kept(id))
    /\ WF_<<vars, regVars>>(Discover /\ UNCHANGED regVars)

-----------------------------------------------------------------------------
(* While the goroutine keeps a lease alive that etcd still has, the node   *)
(* is registered and its key hangs on that lease: no lease of an earlier   *)
(* attempt takes it away when it runs out (registerLease, the loop of      *)
(* Register).                                                              *)
RunsRegistered ==
    node = "run" /\ mine \in live => key = mine /\ Node \in Registered

(* A node that is told to stop is gone from etcd in the end and does not   *)
(* come back, whatever attempt was on its way when it was told, also when  *)
(* its lease cannot be revoked (Register, reRegister).                     *)
StopLeaves == stop ~> []((key = 0) /\ (Node \notin Registered))
=============================================================================
