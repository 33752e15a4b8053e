------------------------------ MODULE GroupLoad ------------------------------
(***************************************************************************)
(* Read-through loading of one key on a cluster of cache nodes: Group.Get, *)
(* Group.Set and Group.Delete (swifty_cache/group.go), the single-flight   *)
(* group they load through (single_flight.go) and the peer server and      *)
(* client a request is forwarded with (server.go, client.go).              *)
(*                                                                         *)
(* Keys share no state on this path (the single-flight map and the store   *)
(* are per key), hence one key.  A thread is a user's call or the handler  *)
(* a peer runs for it.  The cache of a node is what CacheContract promises:*)
(* the value of the last write, or nothing, at any time.                   *)
(***************************************************************************)
EXTENDS Integers

CONSTANTS Nodes,
          Calls,    \* the callers; each makes one call at a time
          Home,     \* Home[c]: the node whose Group caller c uses
          Writers,  \* the callers that also call Set and Delete
          Values,
          NoValue,  \* nothing cached; the value a Delete "writes"
          Error,    \* the outcome of a failed load
          NoNode, NoThread

User(c) == <<c, "user">>
Handler(c) == <<c, "peer">>     \* serves what caller c forwards
Threads == Calls \X {"user", "peer"}

ASSUME GroupLoadAssumption ==
    /\ Home \in [Calls -> Nodes]
    /\ Writers \subseteq Calls
    /\ NoValue \notin Values /\ Error \notin Values /\ Error # NoValue
    /\ NoNode \notin Nodes
    /\ NoThread \notin Threads

VARIABLES cache,    \* cache[n]: what mainCache of node n holds for the key
          owner,    \* owner[n]: where PickPeer sends node n; n itself: load here
          flight,   \* flight[n]: the leader of the call in loader.m, if any
          pc,       \* where each thread is
          joined,   \* the leader whose call the thread waits for
          at,       \* the node the handler of c runs on
          res,      \* the outcome the thread carries
          raced,    \* raced[n]: a write arrived since the leader's cache check
          sync      \* sync[c]: the syncToPeers goroutine of caller c's last write

vars == <<cache, owner, flight, pc, joined, at, res, raced, sync>>

NodeOf(t) == IF t[2] = "user" THEN Home[t[1]] ELSE at[t[1]]

(* A thread is in Do when it is the leader of a call, from LoadOrStore to  *)
(* m.Delete, and loading from its second look at the cache to its Add.     *)
InDo == {"recheck", "pick", "rpc", "getter", "store", "finish", "unlink"}
Loading == {"pick", "rpc", "getter", "store"}
PCs == InDo \cup {"idle", "start", "join", "wait", "return"}

NoSync == [v |-> NoValue, to |-> NoNode, step |-> "none"]
Syncs == [v : Values \cup {NoValue}, to : Nodes \cup {NoNode},
          step : {"none", "pick", "send"}]

Init ==
    /\ cache = [n \in Nodes |-> NoValue]
    /\ owner \in [Nodes -> Nodes]
    /\ flight = [n \in Nodes |-> NoThread]
    /\ pc = [t \in Threads |-> "idle"]
    /\ joined = [t \in Threads |-> NoThread]
    /\ at = [c \in Calls |-> NoNode]
    /\ res = [t \in Threads |-> NoValue]
    /\ raced = [n \in Nodes |-> FALSE]
    /\ sync = [c \in Calls |-> NoSync]

Goto(t, label) == pc' = [pc EXCEPT ![t] = label]
Carry(t, r) == res' = [res EXCEPT ![t] = r]

-----------------------------------------------------------------------------
(* Group.Get.  The caller's own slot and its handler's are free: a caller  *)
(* whose forwarded request timed out does not call again before the        *)
(* abandoned handler has ended (a bound: handlers are not limited).        *)

Get(c) ==
    /\ pc[User(c)] = "idle" /\ pc[Handler(c)] = "idle"
    /\ Goto(User(c), "start")
    /\ UNCHANGED <<cache, owner, flight, joined, at, res, raced, sync>>

(* The first look at the cache.                                            *)
LookUp(t) ==
    LET hit == cache[NodeOf(t)]
    IN  /\ pc[t] = "start"
        /\ \/ hit # NoValue /\ Goto(t, "return") /\ Carry(t, hit)
           \/ hit = NoValue /\ Goto(t, "join") /\ UNCHANGED res
        /\ UNCHANGED <<cache, owner, flight, joined, at, raced, sync>>

(* Do: LoadOrStore makes the thread the leader, or it waits for the call   *)
(* in the map, or finds that call done already and takes its outcome.      *)
Lead(t) ==
    /\ pc[t] = "join" /\ flight[NodeOf(t)] = NoThread
    /\ flight' = [flight EXCEPT ![NodeOf(t)] = t]
    /\ Goto(t, "recheck")
    /\ UNCHANGED <<cache, owner, joined, at, res, raced, sync>>

Follow(t) ==
    LET leader == flight[NodeOf(t)]
    IN  /\ pc[t] = "join" /\ leader # NoThread
        /\ \/ /\ pc[leader] = "unlink"
              /\ Goto(t, "return")
              /\ Carry(t, res[leader])
              /\ UNCHANGED joined
           \/ /\ pc[leader] # "unlink"
              /\ Goto(t, "wait")
              /\ joined' = [joined EXCEPT ![t] = leader]
              /\ UNCHANGED res
        /\ UNCHANGED <<cache, owner, flight, at, raced, sync>>

(* Mutant: the leader does not look at the cache again.                    *)
RecheckSkipped(t) ==
    /\ pc[t] = "recheck"
    /\ Goto(t, "pick")
    /\ raced' = [raced EXCEPT ![NodeOf(t)] = FALSE]
    /\ UNCHANGED <<cache, owner, flight, joined, at, res, sync>>

(* The leader looks at the cache again, then loads.                        *)
Recheck(t) ==
    LET n == NodeOf(t)
    IN  /\ pc[t] = "recheck"
        /\ \/ /\ cache[n] # NoValue
              /\ Goto(t, "finish")
              /\ Carry(t, cache[n])
              /\ UNCHANGED raced
           \/ /\ cache[n] = NoValue
              /\ Goto(t, "pick")
              /\ raced' = [raced EXCEPT ![n] = FALSE]
              /\ UNCHANGED res
        /\ UNCHANGED <<cache, owner, flight, joined, at, sync>>

-----------------------------------------------------------------------------
(* loadData: a user's request goes to the node PickPeer names, a peer's    *)
(* request never does ("must be answered locally").                        *)

IsPeerRequest(t) == t[2] = "peer"

LoadHere(t) ==
    /\ pc[t] = "pick"
    /\ IsPeerRequest(t) \/ owner[NodeOf(t)] = NodeOf(t)
    /\ Goto(t, "getter")
    /\ UNCHANGED <<cache, owner, flight, joined, at, res, raced, sync>>

Forward(c) ==
    /\ pc[User(c)] = "pick"
    /\ owner[Home[c]] # Home[c]
    /\ at' = [at EXCEPT ![c] = owner[Home[c]]]
    /\ pc' = [pc EXCEPT ![User(c)] = "rpc", ![Handler(c)] = "start"]
    /\ UNCHANGED <<cache, owner, flight, joined, res, raced, sync>>

(* The handler's answer arrives, or finds the caller gone.  An error, the  *)
(* peer's three-second deadline and a broken connection all make the       *)
(* caller fall back to its own getter; a request may also be lost.         *)
Reply(c) ==
    LET u == User(c)
        h == Handler(c)
    IN  /\ pc[h] = "return"
        /\ \/ /\ pc[u] = "rpc" /\ res[h] # Error
              /\ pc' = [pc EXCEPT ![u] = "store", ![h] = "idle"]
              /\ res' = [res EXCEPT ![u] = res[h], ![h] = NoValue]
           \/ /\ pc[u] = "rpc" /\ res[h] = Error
              /\ pc' = [pc EXCEPT ![u] = "getter", ![h] = "idle"]
              /\ Carry(h, NoValue)
           \/ /\ pc[u] # "rpc"
              /\ Goto(h, "idle")
              /\ Carry(h, NoValue)
        /\ at' = [at EXCEPT ![c] = NoNode]
        /\ UNCHANGED <<cache, owner, flight, joined, raced, sync>>

(* Mutant: a forwarded request has no deadline, it only fails when the     *)
(* peer is not working on it.                                              *)
TimeoutNever(c) ==
    /\ pc[User(c)] = "rpc" /\ pc[Handler(c)] = "idle"
    /\ Goto(User(c), "getter")
    /\ UNCHANGED <<cache, owner, flight, joined, at, res, raced, sync>>

Timeout(c) ==
    /\ pc[User(c)] = "rpc"
    /\ Goto(User(c), "getter")
    /\ UNCHANGED <<cache, owner, flight, joined, at, res, raced, sync>>

RequestLost(c) ==
    /\ pc[Handler(c)] = "start"
    /\ Goto(Handler(c), "idle")
    /\ at' = [at EXCEPT ![c] = NoNode]
    /\ UNCHANGED <<cache, owner, flight, joined, res, raced, sync>>

(* The user's getter returns a value, or an error, or panics (which Do     *)
(* turns into an error).                                                   *)
Getter(t) ==
    /\ pc[t] = "getter"
    /\ \/ \E v \in Values : Carry(t, v) /\ Goto(t, "store")
       \/ Carry(t, Error) /\ Goto(t, "finish")
    /\ UNCHANGED <<cache, owner, flight, joined, at, raced, sync>>

Store(t) ==
    /\ pc[t] = "store"
    /\ cache' = [cache EXCEPT ![NodeOf(t)] = res[t]]
    /\ Goto(t, "finish")
    /\ UNCHANGED <<owner, flight, joined, at, res, raced, sync>>

(* The deferred calls of Do: wg.Done releases every waiter with the        *)
(* outcome, then m.Delete ends the call.  In between a thread may still    *)
(* join it.                                                                *)
Waiting(leader) == {w \in Threads : pc[w] = "wait" /\ joined[w] = leader}

(* Mutant: a failed load does not release the waiters.                     *)
DoneOnSuccess(t) ==
    LET woken == IF res[t] = Error THEN {} ELSE Waiting(t)
    IN  /\ pc[t] = "finish"
        /\ pc' = [u \in Threads |-> IF u = t THEN "unlink"
                                    ELSE IF u \in woken THEN "return" ELSE pc[u]]
        /\ res' = [u \in Threads |-> IF u \in woken THEN res[t] ELSE res[u]]
        /\ joined' = [u \in Threads |-> IF u \in woken THEN NoThread ELSE joined[u]]
        /\ UNCHANGED <<cache, owner, flight, at, raced, sync>>

Done(t) ==
    /\ pc[t] = "finish"
    /\ pc' = [u \in Threads |-> IF u = t THEN "unlink"
                                ELSE IF u \in Waiting(t) THEN "return" ELSE pc[u]]
    /\ res' = [u \in Threads |-> IF u \in Waiting(t) THEN res[t] ELSE res[u]]
    /\ joined' = [u \in Threads |-> IF u \in Waiting(t) THEN NoThread ELSE joined[u]]
    /\ UNCHANGED <<cache, owner, flight, at, raced, sync>>

Unlink(t) ==
    /\ pc[t] = "unlink"
    /\ flight' = [flight EXCEPT ![NodeOf(t)] = NoThread]
    /\ raced' = [raced EXCEPT ![NodeOf(t)] = FALSE]
    /\ Goto(t, "return")
    /\ UNCHANGED <<cache, owner, joined, at, res, sync>>

Return(c) ==
    /\ pc[User(c)] = "return"
    /\ Goto(User(c), "idle")
    /\ Carry(User(c), NoValue)
    /\ UNCHANGED <<cache, owner, flight, joined, at, raced, sync>>

-----------------------------------------------------------------------------
(* Set and Delete: the local cache, then a goroutine that tells the owner. *)
(* The owner's handler writes its own cache and tells nobody.  One         *)
(* goroutine per caller is a bound (the code starts any number).           *)

WriteAt(n, v) ==
    /\ cache' = [cache EXCEPT ![n] = v]
    /\ raced' = [raced EXCEPT ![n] = flight[n] # NoThread]

Write(c, v) ==
    /\ pc[User(c)] = "idle" /\ sync[c] = NoSync
    /\ WriteAt(Home[c], v)
    /\ sync' = [sync EXCEPT ![c] = [v |-> v, to |-> NoNode, step |-> "pick"]]
    /\ UNCHANGED <<owner, flight, pc, joined, at, res>>

Set(c) == \E v \in Values : Write(c, v)
Delete(c) == Write(c, NoValue)

SyncPick(c) ==
    LET n == owner[Home[c]]
    IN  /\ sync[c].step = "pick"
        /\ sync' = IF n = Home[c] THEN [sync EXCEPT ![c] = NoSync]
                   ELSE [sync EXCEPT ![c].to = n, ![c].step = "send"]
        /\ UNCHANGED <<cache, owner, flight, pc, joined, at, res, raced>>

SyncDeliver(c) ==
    /\ sync[c].step = "send"
    /\ WriteAt(sync[c].to, sync[c].v)
    /\ sync' = [sync EXCEPT ![c] = NoSync]
    /\ UNCHANGED <<owner, flight, pc, joined, at, res>>

SyncLost(c) ==
    /\ sync[c].step = "send"
    /\ sync' = [sync EXCEPT ![c] = NoSync]
    /\ UNCHANGED <<cache, owner, flight, pc, joined, at, res, raced>>

-----------------------------------------------------------------------------
(* The store forgets an entry (evicted, expired, cleared); service         *)
(* discovery changes a node's ring.                                        *)

Forget(n) ==
    /\ cache[n] # NoValue
    /\ cache' = [cache EXCEPT ![n] = NoValue]
    /\ UNCHANGED <<owner, flight, pc, joined, at, res, raced, sync>>

RingChange(n, o) ==
    /\ owner[n] # o
    /\ owner' = [owner EXCEPT ![n] = o]
    /\ UNCHANGED <<cache, flight, pc, joined, at, res, raced, sync>>

Step(t) ==
    \/ LookUp(t) \/ Lead(t) \/ Follow(t) \/ Recheck(t) \/ LoadHere(t)
    \/ Getter(t) \/ Store(t) \/ Done(t) \/ Unlink(t)

UserStep(c) == Step(User(c)) \/ Forward(c) \/ Timeout(c) \/ Return(c)
HandlerStep(c) == Step(Handler(c)) \/ Reply(c)

Next ==
    \/ \E c \in Calls : Get(c) \/ UserStep(c) \/ HandlerStep(c) \/ RequestLost(c)
    \/ \E c \in Writers : Set(c) \/ Delete(c)
    \/ \E c \in Calls : SyncPick(c) \/ SyncDeliver(c) \/ SyncLost(c)
    \/ \E n \in Nodes : Forget(n) \/ \E o \in Nodes : RingChange(n, o)

Spec == Init /\ [][Next]_vars

(* A goroutine that can run runs; the getter returns (the user's part of   *)
(* the contract); a forwarded request ends by its deadline.                *)
Fairness ==
    \A c \in Calls : WF_vars(UserStep(c)) /\ WF_vars(HandlerStep(c))

FairSpec == Spec /\ Fairness

-----------------------------------------------------------------------------
(* Properties.                                                             *)

(* Every variable has its type.                                            *)
TypeOK ==
    /\ cache \in [Nodes -> Values \cup {NoValue}]
    /\ owner \in [Nodes -> Nodes]
    /\ flight \in [Nodes -> Threads \cup {NoThread}]
    /\ pc \in [Threads -> PCs]
    /\ joined \in [Threads -> Threads \cup {NoThread}]
    /\ at \in [Calls -> Nodes \cup {NoNode}]
    /\ res \in [Threads -> Values \cup {NoValue, Error}]
    /\ raced \in [Nodes -> BOOLEAN]
    /\ sync \in [Calls -> Syncs]

(* SingleFlightGroup "runs fn once for a key while concurrent duplicate    *)
(* callers wait": on a node at most one thread at a time is between        *)
(* LoadOrStore and m.Delete.                                               *)
OneLeader ==
    \A t, u \in Threads :
        pc[t] \in InDo /\ pc[u] \in InDo /\ NodeOf(t) = NodeOf(u) => t = u

(* A thread waits only for a call that will still be finished, by the      *)
(* leader in the map of its own node: no waiter is left behind.            *)
WaitersHaveLeader ==
    \A t \in Threads :
        pc[t] = "wait" =>
            /\ joined[t] # NoThread
            /\ flight[NodeOf(t)] = joined[t]
            /\ pc[joined[t]] \in InDo \ {"unlink"}

(* "Two serial callers can both miss the cache, so check again before      *)
(* loading" (Group.load): nobody loads what the cache has, unless it was   *)
(* written after the leader looked.  So a load overwrites only an entry    *)
(* written while it was under way.                                         *)
NoRedundantLoad ==
    \A t \in Threads :
        pc[t] \in Loading /\ cache[NodeOf(t)] # NoValue => raced[NodeOf(t)]

(* A failed load is not cached and a Get never returns nothing: it ends    *)
(* with a value or with an error.                                          *)
ResultOrError ==
    \A t \in Threads :
        /\ pc[t] = "store" => res[t] \in Values
        /\ pc[t] \in {"finish", "unlink", "return"} => res[t] \in Values \cup {Error}

(* Every call returns, whatever is lost and however the rings disagree.    *)
GetReturns == \A c \in Calls : pc[User(c)] # "idle" ~> pc[User(c)] = "idle"

(* "Peer-originated requests are always answered locally ..., which makes  *)
(* forwarding loops impossible" (the package's skill document): no threads *)
(* wait for each other in a circle.                                        *)
WaitsFor(t) ==
    IF pc[t] = "wait" THEN {joined[t]}
    ELSE IF pc[t] = "rpc" /\ pc[Handler(t[1])] # "idle" THEN {Handler(t[1])}
    ELSE {}

NoForwardingLoop ==
    ~ \E S \in SUBSET Threads :
        S # {} /\ \A t \in S : WaitsFor(t) \cap S # {}

=============================================================================
