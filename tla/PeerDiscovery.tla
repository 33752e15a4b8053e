---------------------------- MODULE PeerDiscovery ----------------------------
(***************************************************************************)
(* One node's view of the cluster: ClientPicker of swifty_cache/peers.go,  *)
(* its hash ring and its connections to the other nodes, against the       *)
(* registrations of those nodes in etcd.                                   *)
(*                                                                         *)
(* etcd is a log of events: a Put of an address (a node registers, or      *)
(* registers again) or a Delete (it stopped, or its lease ran out). A Get  *)
(* sees all of the log; a watch delivers what comes after its revision, in *)
(* order, until it breaks. A response with several events is several       *)
(* responses.                                                              *)
(*                                                                         *)
(* fetchAllServices makes a step per address, with the picker's mutex held *)
(* (pc is "apply" or "prune"); the rest of what runs under the mutex is    *)
(* one step.                                                               *)
(***************************************************************************)
EXTENDS ConsistentHash, Sequences

CONSTANTS
    Self,
    Unusable,    \* addresses grpc.NewClient refuses
    MaxLog       \* bound on the events

Peers == Nodes \ {Self}

ASSUME DiscoveryAssumption ==
    /\ Nodes \subseteq Nat   \* addresses, in the order etcd lists them
    /\ Self \in Nodes
    /\ Unusable \subseteq Peers
    /\ VHash[Self] # {}     \* DefaultReplicas is positive

VARIABLES
    log,      \* etcd: Seq([addr : Peers, put : BOOLEAN])
    started,  \* NewClientPicker is through, the goroutine runs
    pc,       \* where the discovery goroutine is
    snap,     \* the addresses the last Get returned
    todo,     \* those of them fetchAllServices has still to look at
    rev,      \* the revision of that Get, NoRev if it failed
    pos,      \* the last event the watch has delivered
    clients,  \* the addresses in ClientPicker.clients
    open,     \* the addresses with a gRPC connection that is not closed
    ring,     \* ClientPicker.consHash
    life      \* how far Close is: "open", "cancelled", "closed"

goVars == <<started, pc, snap, todo, rev, pos>>
peerVars == <<clients, open, ring>>
vars == <<log, goVars, peerVars, life>>

NoRev == -1

PCs == {"get", "fetched", "apply", "prune", "openWatch", "watch", "handle", "sleep", "ended"}

Init ==
    /\ log = <<>>
    /\ started = FALSE
    /\ pc = "get"
    /\ snap = {}
    /\ todo = {}
    /\ rev = NoRev
    /\ pos = 0
    /\ clients = {}
    /\ open = {}
    /\ ring = Add(NewRing, Self)
    /\ life = "open"

Goto(l) == pc' = l

-----------------------------------------------------------------------------
(* etcd.                                                                   *)

(* What is registered after the first i events.                            *)
RegisteredAt(i) ==
    {p \in Peers : \E j \in 1 .. i :
        /\ log[j].addr = p /\ log[j].put
        /\ \A k \in j + 1 .. i : log[k].addr # p}

Registered == RegisteredAt(Len(log))

Happens(p, put) ==
    /\ Len(log) < MaxLog
    /\ put \/ p \in Registered
    /\ log' = Append(log, [addr |-> p, put |-> put])
    /\ UNCHANGED <<goVars, peerVars, life>>

-----------------------------------------------------------------------------
(* ClientPicker.set, remove and the Close of a client.                     *)

Connect(p) ==
    IF p \in clients \cup Unusable
    THEN UNCHANGED peerVars
    ELSE /\ clients' = clients \cup {p}
         /\ open' = open \cup {p}
         /\ ring' = Add(ring, p)

(* Mutant: the client of a node that is gone is not closed.                *)
DisconnectOnly(p) ==
    IF p \in clients
    THEN /\ clients' = clients \ {p}
         /\ ring' = Remove(ring, p)
         /\ UNCHANGED open
    ELSE UNCHANGED peerVars

Disconnect(p) ==
    IF p \in clients
    THEN /\ clients' = clients \ {p}
         /\ open' = open \ {p}
         /\ ring' = Remove(ring, p)
    ELSE UNCHANGED peerVars

-----------------------------------------------------------------------------
(* fetchAllServices.                                                       *)

Fetch ==
    /\ pc = "get" /\ life = "open"
    /\ snap' = Registered
    /\ todo' = Registered
    /\ rev' = Len(log)
    /\ Goto("fetched")
    /\ UNCHANGED <<log, started, pos, peerVars, life>>

LockForResync ==
    /\ pc = "fetched"
    /\ Goto("apply")
    /\ UNCHANGED <<log, started, snap, todo, rev, pos, peerVars, life>>

(* An error, or the context was cancelled. The first Get is                *)
(* NewClientPicker's, which then gives up.                                 *)
FetchFails ==
    /\ pc = "get"
    /\ rev' = NoRev
    /\ Goto(IF started THEN "openWatch" ELSE "ended")
    /\ UNCHANGED <<log, started, snap, todo, pos, peerVars, life>>

ApplyOne(p) ==
    /\ pc = "apply"
    /\ p \in todo /\ \A q \in todo : p <= q
    /\ Connect(p)
    /\ todo' = todo \ {p}
    /\ UNCHANGED <<log, started, pc, snap, rev, pos, life>>

ApplyEnd ==
    /\ pc = "apply" /\ todo = {}
    /\ Goto("prune")
    /\ UNCHANGED <<log, started, snap, todo, rev, pos, peerVars, life>>

PruneOne(p) ==
    /\ pc = "prune" /\ p \in clients \ snap
    /\ Disconnect(p)
    /\ UNCHANGED <<log, goVars, life>>

(* startServiceDiscovery starts the goroutine, which fetches again.        *)
PruneEnd ==
    /\ pc = "prune" /\ clients \subseteq snap
    /\ started' = TRUE
    /\ Goto(IF started THEN "openWatch" ELSE "get")
    /\ UNCHANGED <<log, snap, todo, rev, pos, peerVars, life>>

-----------------------------------------------------------------------------
(* watchOnce and the loop around it.                                       *)

(* Mutant: the watch starts at the present revision though there was a     *)
(* snapshot.                                                               *)
OpenWatchNow ==
    /\ pc = "openWatch"
    /\ pos' = Len(log)
    /\ Goto("watch")
    /\ UNCHANGED <<log, started, snap, todo, rev, peerVars, life>>

(* The watch starts after the snapshot or, without one, at the present.    *)
OpenWatch ==
    /\ pc = "openWatch"
    /\ pos' = IF rev = NoRev THEN Len(log) ELSE rev
    /\ Goto("watch")
    /\ UNCHANGED <<log, started, snap, todo, rev, peerVars, life>>

(* Of a response and the end of the context, select takes either.          *)
Receive ==
    /\ pc = "watch" /\ pos < Len(log)
    /\ Goto("handle")
    /\ UNCHANGED <<log, started, snap, todo, rev, pos, peerVars, life>>

(* Mutant: deletions are not looked at.                                    *)
HandlePutsOnly ==
    /\ pc = "handle"
    /\ LET event == log[pos + 1]
       IN  IF event.put THEN Connect(event.addr) ELSE UNCHANGED peerVars
    /\ pos' = pos + 1
    /\ Goto("watch")
    /\ UNCHANGED <<log, started, snap, todo, rev, life>>

(* handleWatchEvents                                                       *)
Handle ==
    /\ pc = "handle"
    /\ LET event == log[pos + 1]
       IN  IF event.put THEN Connect(event.addr) ELSE Disconnect(event.addr)
    /\ pos' = pos + 1
    /\ Goto("watch")
    /\ UNCHANGED <<log, started, snap, todo, rev, life>>

(* The channel is closed or reports an error.                              *)
WatchBreaks ==
    /\ pc = "watch"
    /\ Goto("sleep")
    /\ UNCHANGED <<log, started, snap, todo, rev, pos, peerVars, life>>

WakeUp ==
    /\ pc = "sleep"
    /\ Goto("get")
    /\ UNCHANGED <<log, started, snap, todo, rev, pos, peerVars, life>>

End ==
    /\ pc \in {"watch", "sleep"} /\ life # "open"
    /\ Goto("ended")
    /\ UNCHANGED <<log, started, snap, todo, rev, pos, peerVars, life>>

-----------------------------------------------------------------------------
(* ClientPicker.Close: cancels the context, then waits for the mutex.      *)

Cancel ==
    /\ started /\ life = "open"
    /\ life' = "cancelled"
    /\ UNCHANGED <<log, goVars, peerVars>>

CloseClients ==
    /\ life = "cancelled"
    /\ pc \notin {"apply", "prune"}
    /\ life' = "closed"
    /\ open' = open \ clients
    /\ UNCHANGED <<log, goVars, clients, ring>>

-----------------------------------------------------------------------------
Discover ==
    \/ Fetch \/ FetchFails
    \/ \E p \in Peers : ApplyOne(p) \/ PruneOne(p)
    \/ LockForResync \/ ApplyEnd \/ PruneEnd
    \/ OpenWatch \/ Receive \/ Handle \/ WakeUp \/ End

Next ==
    \/ \E p \in Peers, put \in BOOLEAN : Happens(p, put)
    \/ Discover
    \/ WatchBreaks
    \/ Cancel \/ CloseClients

Spec == Init /\ [][Next]_vars

(* The discovery goroutine goes on as long as it can: a Get returns or     *)
(* times out, and what etcd has to deliver arrives unless the watch breaks.*)
(* It need not break; nodes need not come or go, nor anybody close the     *)
(* picker.                                                                 *)
FairSpec == Spec /\ WF_vars(Discover)

-----------------------------------------------------------------------------
(* Type correctness.                                                       *)
TypeOK ==
    /\ log \in Seq([addr : Peers, put : BOOLEAN])
    /\ started \in BOOLEAN
    /\ pc \in PCs
    /\ snap \subseteq Peers /\ todo \subseteq snap
    /\ rev \in Nat \cup {NoRev}
    /\ pos \in 0 .. Len(log)
    /\ clients \subseteq Peers \ Unusable
    /\ open \subseteq Peers
    /\ life \in {"open", "cancelled", "closed"}

(* hashMap and nodeHashes agree: a virtual node on the ring belongs to a   *)
(* member, and is one of those the member has placed (addNodeLocked and    *)
(* removeNodeLocked, also when hashes collide).                            *)
RingExact == Exact(ring)

(* Whatever a key hashes to, PickPeer answers with this node or with a     *)
(* client, and the client is connected unless Close has begun.             *)
PickPeerAnswers ==
    /\ Members(ring) = clients \cup {Self}
    /\ \A h \in Hashes : Owner(ring, h) \in clients \cup {Self}
    /\ life = "open" => open = clients

(* While the watch follows a snapshot, the clients are the nodes that were *)
(* registered at the revision it has reached: nothing is missed in         *)
(* between, and nothing is kept that is gone (fetchAllServices, watchOnce).*)
FollowsEtcd ==
    pc \in {"watch", "handle"} /\ rev # NoRev =>
        clients = RegisteredAt(pos) \ Unusable

(* A change of membership moves a key only from a node that leaves or to a *)
(* node that comes, also when their virtual nodes collide ("stable         *)
(* key-to-owner mapping" of consistent_hash.go).                           *)
MinimalRemapping ==
    [][\A h \in Hashes :
        Owner(ring, h)' # Owner(ring, h) =>
            \/ Owner(ring, h) \notin Members(ring')
            \/ Owner(ring, h)' \notin Members(ring)]_vars

(* As long as the watch follows a snapshot and nothing more happens in     *)
(* etcd, the clients become the registered nodes.                          *)
CatchesUp ==
    []<>(\/ clients = Registered \ Unusable
         \/ life # "open" \/ pc = "ended"
         \/ pc \notin {"watch", "handle"} \/ rev = NoRev)
=============================================================================
