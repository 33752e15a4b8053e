----------------------------- MODULE GroupProofs -----------------------------
(***************************************************************************)
(* The two sides of a group of swifty_cache (group.go): how it loads a     *)
(* key, for every set of nodes, callers and values and however the rings   *)
(* change (GroupLoad), and how it is registered, used and closed, for any  *)
(* number of names, groups and goroutines (GroupRegistry).                 *)
(***************************************************************************)
EXTENDS GroupLoad, GroupRegistry, TLAPS

-----------------------------------------------------------------------------
(* GroupLoad                                                               *)

(* A thread between LoadOrStore and m.Delete is the one in its node's map, *)
(* and a thread in a map is between them.                                  *)
InDoIsInMap == \A t \in Threads : pc[t] \in InDo => flight[NodeOf(t)] = t
InMapIsInDo ==
    \A n \in Nodes :
        flight[n] # NoThread => pc[flight[n]] \in InDo /\ NodeOf(flight[n]) = n

(* A handler that runs has a node, and a caller that has not forwarded its *)
(* request yet has no handler.                                             *)
HandlerPlaced == \A c \in Calls : pc[Handler(c)] # "idle" => at[c] \in Nodes
NotForwarded ==
    \A c \in Calls :
        pc[User(c)] \in {"start", "join", "recheck", "pick"} =>
            pc[Handler(c)] = "idle"

IInv ==
    /\ TypeOK
    /\ InDoIsInMap
    /\ InMapIsInDo
    /\ HandlerPlaced
    /\ NotForwarded
    /\ ResultOrError
    /\ WaitersHaveLeader
    /\ NoRedundantLoad

-----------------------------------------------------------------------------
LEMMA ThreadFacts ==
    /\ \A c \in Calls : /\ User(c) \in Threads /\ Handler(c) \in Threads
                        /\ User(c)[1] = c /\ User(c)[2] = "user"
                        /\ Handler(c)[1] = c /\ Handler(c)[2] = "peer"
    /\ \A c, d \in Calls : /\ User(c) # Handler(d)
                           /\ User(c) = User(d) => c = d
                           /\ Handler(c) = Handler(d) => c = d
    /\ \A t \in Threads : /\ t[1] \in Calls
                          /\ t[2] = "user" => t = User(t[1])
                          /\ t[2] # "user" => t = Handler(t[1])
  BY DEF Threads, User, Handler

(* A thread that runs has a node.                                          *)
LEMMA RunsSomewhere ==
    ASSUME TypeOK, HandlerPlaced, NEW t \in Threads, pc[t] # "idle"
    PROVE  NodeOf(t) \in Nodes
<1>1. CASE t[2] = "user"
  BY <1>1, ThreadFacts, GroupLoadAssumption DEF NodeOf
<1>2. CASE t[2] # "user"
  BY <1>2, ThreadFacts DEF NodeOf, HandlerPlaced
<1>3. QED
  BY <1>1, <1>2

LEMMA NodeKept ==
    ASSUME UNCHANGED at, NEW t
    PROVE  NodeOf(t)' = NodeOf(t)
  BY DEF NodeOf

LEMMA InitIInv == Init => IInv
  BY GroupLoadAssumption, ThreadFacts
  DEF Init, IInv, TypeOK, InDoIsInMap, InMapIsInDo, HandlerPlaced, NotForwarded,
      ResultOrError, WaitersHaveLeader, NoRedundantLoad, PCs, InDo, Loading,
      NoSync, Syncs

(* A step of one thread that stays in Do or stays out of it, and leaves    *)
(* the other threads, the map and the cache alone.                         *)
Early == {"start", "join", "recheck", "pick"}

LEMMA MoveStep ==
    ASSUME IInv, NEW t \in Threads, NEW p \in PCs,
           Goto(t, p),
           pc[t] \notin {"idle", "wait", "unlink"},
           p \notin {"wait", "unlink"},
           pc[t] \in InDo <=> p \in InDo,
           p \in Early => pc[t] \in Early,
           res' \in [Threads -> Values \cup {NoValue, Error}],
           \A u \in Threads : u = t \/ res'[u] = res[u],
           p = "store" => res'[t] \in Values,
           p \in {"finish", "return"} => res'[t] \in Values \cup {Error},
           raced' \in [Nodes -> BOOLEAN],
           \A n \in Nodes : raced'[n] = raced[n] \/ (pc[t] \in InDo /\ n = NodeOf(t)),
           p \in Loading /\ cache[NodeOf(t)] # NoValue => raced'[NodeOf(t)],
           UNCHANGED <<cache, owner, flight, joined, at, sync>>
    PROVE  IInv'
<1>1. /\ pc' \in [Threads -> PCs]
      /\ pc'[t] = p
      /\ \A u \in Threads : u # t => pc'[u] = pc[u]
  BY DEF IInv, TypeOK, Goto
<1>2. \A u : NodeOf(u)' = NodeOf(u)
  BY NodeKept
<1>3. TypeOK'
  BY <1>1 DEF IInv, TypeOK
<1>4. InDoIsInMap'
  BY <1>1, <1>2 DEF IInv, InDoIsInMap
<1>5. InMapIsInDo'
  BY <1>1, <1>2 DEF IInv, InMapIsInDo, TypeOK
<1>6. HandlerPlaced'
  BY <1>1, ThreadFacts DEF IInv, HandlerPlaced
<1>7. NotForwarded'
  BY <1>1, ThreadFacts DEF IInv, NotForwarded, Early
<1>8. ResultOrError'
  BY <1>1 DEF IInv, ResultOrError
<1>9. WaitersHaveLeader'
  BY <1>1, <1>2 DEF IInv, WaitersHaveLeader, TypeOK
<1>10. NoRedundantLoad'
  <2> SUFFICES ASSUME NEW u \in Threads, pc'[u] \in Loading,
                      cache[NodeOf(u)] # NoValue
               PROVE  raced'[NodeOf(u)]
    BY <1>2 DEF NoRedundantLoad
  <2>1. CASE u = t
    BY <2>1, <1>1
  <2>2. CASE u # t
    <3>1. pc[u] \in Loading /\ pc[u] \in InDo /\ raced[NodeOf(u)]
      BY <2>2, <1>1 DEF IInv, NoRedundantLoad, Loading, InDo
    <3>2. NodeOf(u) \in Nodes
      BY <3>1, RunsSomewhere DEF IInv, InDo
    <3>3. ~(pc[t] \in InDo /\ NodeOf(u) = NodeOf(t))
      BY <3>1, <2>2 DEF IInv, InDoIsInMap
    <3>4. QED
      BY <3>1, <3>2, <3>3
  <2>3. QED
    BY <2>1, <2>2
<1>11. QED
  BY <1>3, <1>4, <1>5, <1>6, <1>7, <1>8, <1>9, <1>10 DEF IInv

-----------------------------------------------------------------------------
LEMMA GetStep == ASSUME IInv, NEW c \in Calls, Get(c) PROVE IInv'
<1>1. /\ User(c) \in Threads /\ pc[User(c)] = "idle"
      /\ pc' \in [Threads -> PCs] /\ pc'[User(c)] = "start"
      /\ \A u \in Threads : u # User(c) => pc'[u] = pc[u]
  BY ThreadFacts DEF IInv, TypeOK, Get, Goto, PCs
<1>2. UNCHANGED <<cache, owner, flight, joined, at, res, raced, sync>>
  BY DEF Get
<1>3. \A u : NodeOf(u)' = NodeOf(u)
  BY <1>2, NodeKept
<1>4. TypeOK' /\ InDoIsInMap'
  BY <1>1, <1>2, <1>3 DEF IInv, TypeOK, InDoIsInMap, InDo
<1>5. InMapIsInDo'
  BY <1>1, <1>2, <1>3 DEF IInv, InMapIsInDo, InDo, TypeOK
<1>6. HandlerPlaced' /\ NotForwarded'
  BY <1>1, <1>2, ThreadFacts DEF IInv, HandlerPlaced, NotForwarded, Get
<1>7. ResultOrError' /\ NoRedundantLoad'
  BY <1>1, <1>2, <1>3 DEF IInv, ResultOrError, NoRedundantLoad, Loading
<1>8. WaitersHaveLeader'
  BY <1>1, <1>2, <1>3 DEF IInv, WaitersHaveLeader, TypeOK, InDo
<1>9. QED
  BY <1>4, <1>5, <1>6, <1>7, <1>8 DEF IInv

LEMMA LookUpStep == ASSUME IInv, NEW t \in Threads, LookUp(t) PROVE IInv'
<1>1. NodeOf(t) \in Nodes
  BY RunsSomewhere DEF IInv, LookUp
<1>2. CASE cache[NodeOf(t)] # NoValue
  <2>1. "return" \in PCs /\ Goto(t, "return") /\ Carry(t, cache[NodeOf(t)])
    BY <1>2 DEF LookUp, PCs
  <2>2. cache[NodeOf(t)] \in Values
    BY <1>1, <1>2 DEF IInv, TypeOK
  <2>3. QED
    BY <2>1, <2>2, MoveStep DEF LookUp, Carry, IInv, TypeOK, InDo, Early, Loading
<1>3. CASE cache[NodeOf(t)] = NoValue
  <2>1. "join" \in PCs /\ Goto(t, "join")
    BY <1>3 DEF LookUp, PCs
  <2>2. QED
    BY <2>1, <1>3, MoveStep DEF LookUp, IInv, TypeOK, InDo, Early, Loading
<1>4. QED
  BY <1>2, <1>3

LEMMA RecheckStep == ASSUME IInv, NEW t \in Threads, Recheck(t) PROVE IInv'
<1>1. NodeOf(t) \in Nodes
  BY RunsSomewhere DEF IInv, Recheck
<1>2. CASE cache[NodeOf(t)] # NoValue
  <2>1. "finish" \in PCs /\ Goto(t, "finish") /\ Carry(t, cache[NodeOf(t)])
    BY <1>2 DEF Recheck, PCs, InDo
  <2>2. cache[NodeOf(t)] \in Values
    BY <1>1, <1>2 DEF IInv, TypeOK
  <2>3. QED
    BY <2>1, <2>2, <1>2, MoveStep DEF Recheck, Carry, IInv, TypeOK, InDo, Early, Loading
<1>3. CASE cache[NodeOf(t)] = NoValue
  <2>1. "pick" \in PCs /\ Goto(t, "pick")
    BY <1>3 DEF Recheck, PCs, InDo
  <2>2. raced' = [raced EXCEPT ![NodeOf(t)] = FALSE] /\ res' = res
    BY <1>3 DEF Recheck
  <2>3. /\ raced' \in [Nodes -> BOOLEAN]
        /\ \A n \in Nodes : raced'[n] = raced[n] \/ n = NodeOf(t)
    BY <2>2 DEF IInv, TypeOK
  <2>4. QED
    BY <2>1, <2>2, <2>3, <1>3, MoveStep DEF Recheck, IInv, TypeOK, InDo, Early, Loading
<1>4. QED
  BY <1>2, <1>3

LEMMA LoadHereStep == ASSUME IInv, NEW t \in Threads, LoadHere(t) PROVE IInv'
<1>1. "getter" \in PCs /\ Goto(t, "getter")
  BY DEF LoadHere, PCs, InDo
<1>2. cache[NodeOf(t)] # NoValue => raced[NodeOf(t)]
  BY DEF LoadHere, IInv, NoRedundantLoad, Loading
<1>3. QED
  BY <1>1, <1>2, MoveStep DEF LoadHere, IInv, TypeOK, InDo, Early, Loading

LEMMA GetterStep == ASSUME IInv, NEW t \in Threads, Getter(t) PROVE IInv'
<1>1. cache[NodeOf(t)] # NoValue => raced[NodeOf(t)]
  BY DEF Getter, IInv, NoRedundantLoad, Loading
<1>2. CASE \E v \in Values : Carry(t, v) /\ Goto(t, "store")
  <2>1. PICK v \in Values : Carry(t, v) /\ Goto(t, "store")
    BY <1>2
  <2>2. "store" \in PCs
    BY DEF PCs, InDo
  <2>3. QED
    BY <2>1, <2>2, <1>1, MoveStep DEF Getter, Carry, IInv, TypeOK, InDo, Early, Loading
<1>3. CASE Carry(t, Error) /\ Goto(t, "finish")
  <2>1. "finish" \in PCs
    BY DEF PCs, InDo
  <2>2. QED
    BY <2>1, <1>3, MoveStep DEF Getter, Carry, IInv, TypeOK, InDo, Early, Loading
<1>4. QED
  BY <1>2, <1>3 DEF Getter

LEMMA TimeoutStep == ASSUME IInv, NEW c \in Calls, Timeout(c) PROVE IInv'
<1>1. "getter" \in PCs /\ User(c) \in Threads
  BY ThreadFacts DEF PCs, InDo
<1>2. cache[NodeOf(User(c))] # NoValue => raced[NodeOf(User(c))]
  BY <1>1 DEF Timeout, IInv, NoRedundantLoad, Loading
<1>3. QED
  BY <1>1, <1>2, MoveStep DEF Timeout, IInv, TypeOK, InDo, Early, Loading

(* A caller that has its outcome goes; its slot is free again.             *)
LEMMA ReturnStep == ASSUME IInv, NEW c \in Calls, Return(c) PROVE IInv'
<1>1. "idle" \in PCs /\ User(c) \in Threads
  BY ThreadFacts DEF PCs
<1>2. QED
  BY <1>1, MoveStep DEF Return, Carry, IInv, TypeOK, InDo, Early, Loading

LEMMA FollowStep == ASSUME IInv, NEW t \in Threads, Follow(t) PROVE IInv'
<1> DEFINE leader == flight[NodeOf(t)]
<1>1. NodeOf(t) \in Nodes
  BY RunsSomewhere DEF IInv, Follow
<1>2. leader \in Threads /\ pc[leader] \in InDo /\ leader # t
  BY <1>1 DEF IInv, TypeOK, InMapIsInDo, Follow, InDo
<1>3. CASE pc[leader] = "unlink"
  <2>1. "return" \in PCs /\ Goto(t, "return") /\ Carry(t, res[leader])
    BY <1>3 DEF Follow, PCs
  <2>2. res[leader] \in Values \cup {Error}
    BY <1>2, <1>3 DEF IInv, ResultOrError
  <2>3. UNCHANGED <<cache, owner, flight, joined, at, raced, sync>>
    BY <1>3 DEF Follow
  <2>4. QED
    BY <2>1, <2>2, <2>3, MoveStep DEF Follow, Carry, IInv, TypeOK, InDo, Early, Loading
<1>4. CASE pc[leader] # "unlink"
  <2>1. /\ pc' = [pc EXCEPT ![t] = "wait"]
        /\ joined' = [joined EXCEPT ![t] = leader]
        /\ pc[t] = "join"
        /\ UNCHANGED <<cache, owner, flight, at, res, raced, sync>>
    BY <1>4 DEF Follow, Goto
  <2>2. /\ pc' \in [Threads -> PCs] /\ pc'[t] = "wait"
        /\ \A u \in Threads : u # t => pc'[u] = pc[u]
        /\ joined' \in [Threads -> Threads \cup {NoThread}] /\ joined'[t] = leader
        /\ \A u \in Threads : u # t => joined'[u] = joined[u]
    BY <2>1, <1>2 DEF IInv, TypeOK, PCs
  <2>3. \A u : NodeOf(u)' = NodeOf(u)
    BY <2>1, NodeKept
  <2>4. TypeOK' /\ InDoIsInMap'
    BY <2>1, <2>2, <2>3 DEF IInv, TypeOK, InDoIsInMap, InDo
  <2>5. InMapIsInDo'
    BY <2>1, <2>2, <2>3 DEF IInv, InMapIsInDo, InDo, TypeOK
  <2>6. HandlerPlaced' /\ NotForwarded'
    BY <2>1, <2>2, ThreadFacts DEF IInv, HandlerPlaced, NotForwarded
  <2>7. ResultOrError' /\ NoRedundantLoad'
    BY <2>1, <2>2, <2>3 DEF IInv, ResultOrError, NoRedundantLoad, Loading
  <2>8. WaitersHaveLeader'
    <3> SUFFICES ASSUME NEW u \in Threads, pc'[u] = "wait"
                 PROVE  /\ joined'[u] # NoThread
                        /\ flight[NodeOf(u)] = joined'[u]
                        /\ pc'[joined'[u]] \in InDo \ {"unlink"}
      BY <2>1, <2>3 DEF WaitersHaveLeader
    <3>1. CASE u = t
      BY <3>1, <2>2, <1>2, <1>4, GroupLoadAssumption
    <3>2. CASE u # t
      BY <3>2, <2>1, <2>2 DEF IInv, WaitersHaveLeader, TypeOK, InDo
    <3>3. QED
      BY <3>1, <3>2
  <2>9. QED
    BY <2>4, <2>5, <2>6, <2>7, <2>8 DEF IInv
<1>5. QED
  BY <1>3, <1>4

LEMMA LeadStep == ASSUME IInv, NEW t \in Threads, Lead(t) PROVE IInv'
<1> DEFINE n == NodeOf(t)
<1>1. n \in Nodes
  BY RunsSomewhere DEF IInv, Lead
<1>2. /\ pc' \in [Threads -> PCs] /\ pc'[t] = "recheck" /\ pc[t] = "join"
      /\ \A u \in Threads : u # t => pc'[u] = pc[u]
      /\ flight' \in [Nodes -> Threads \cup {NoThread}] /\ flight'[n] = t
      /\ \A m \in Nodes : m # n => flight'[m] = flight[m]
      /\ flight[n] = NoThread
      /\ UNCHANGED <<cache, owner, joined, at, res, raced, sync>>
  BY <1>1 DEF IInv, TypeOK, Lead, Goto, PCs, InDo
<1>3. \A u : NodeOf(u)' = NodeOf(u)
  BY <1>2, NodeKept
<1>4. \A u \in Threads : pc[u] # "idle" => NodeOf(u) \in Nodes
  BY RunsSomewhere DEF IInv
<1>5. TypeOK'
  BY <1>2 DEF IInv, TypeOK
<1>6. InDoIsInMap'
  <2> SUFFICES ASSUME NEW u \in Threads, pc'[u] \in InDo
               PROVE  flight'[NodeOf(u)] = u
    BY <1>3 DEF InDoIsInMap
  <2>1. CASE u = t
    BY <2>1, <1>2
  <2>2. CASE u # t
    <3>1. pc[u] \in InDo /\ flight[NodeOf(u)] = u /\ NodeOf(u) \in Nodes
      BY <2>2, <1>2, <1>4 DEF IInv, InDoIsInMap, InDo
    <3>2. NodeOf(u) # n
      BY <3>1, <1>2, GroupLoadAssumption
    <3>3. QED
      BY <3>1, <3>2, <1>2
  <2>3. QED
    BY <2>1, <2>2
<1>7. InMapIsInDo'
  BY <1>2, <1>3 DEF IInv, InMapIsInDo, InDo, TypeOK
<1>8. HandlerPlaced' /\ NotForwarded'
  BY <1>2, ThreadFacts DEF IInv, HandlerPlaced, NotForwarded
<1>9. ResultOrError' /\ NoRedundantLoad'
  BY <1>2, <1>3 DEF IInv, ResultOrError, NoRedundantLoad, Loading
<1>10. WaitersHaveLeader'
  <2> SUFFICES ASSUME NEW u \in Threads, pc'[u] = "wait"
               PROVE  /\ joined[u] # NoThread
                      /\ flight'[NodeOf(u)] = joined[u]
                      /\ pc'[joined[u]] \in InDo \ {"unlink"}
    BY <1>2, <1>3 DEF WaitersHaveLeader
  <2>1. /\ pc[u] = "wait" /\ joined[u] # NoThread /\ NodeOf(u) \in Nodes
        /\ flight[NodeOf(u)] = joined[u]
        /\ pc[joined[u]] \in InDo \ {"unlink"}
    BY <1>2, <1>4 DEF IInv, WaitersHaveLeader
  <2>2. joined[u] \in Threads /\ joined[u] # t
    BY <2>1, <1>2 DEF IInv, TypeOK, InDo
  <2>3. QED
    BY <2>1, <2>2, <1>2
<1>11. QED
  BY <1>5, <1>6, <1>7, <1>8, <1>9, <1>10 DEF IInv

LEMMA StoreStep == ASSUME IInv, NEW t \in Threads, Store(t) PROVE IInv'
<1> DEFINE n == NodeOf(t)
<1>1. n \in Nodes
  BY RunsSomewhere DEF IInv, Store
<1>2. /\ pc' \in [Threads -> PCs] /\ pc'[t] = "finish" /\ pc[t] = "store"
      /\ \A u \in Threads : u # t => pc'[u] = pc[u]
      /\ res[t] \in Values
      /\ cache' \in [Nodes -> Values \cup {NoValue}]
      /\ \A m \in Nodes : m # n => cache'[m] = cache[m]
      /\ UNCHANGED <<owner, flight, joined, at, res, raced, sync>>
  BY <1>1 DEF IInv, TypeOK, ResultOrError, Store, Goto, PCs, InDo
<1>3. \A u : NodeOf(u)' = NodeOf(u)
  BY <1>2, NodeKept
<1>4. TypeOK' /\ InDoIsInMap'
  BY <1>2, <1>3 DEF IInv, TypeOK, InDoIsInMap, InDo
<1>5. InMapIsInDo'
  BY <1>2, <1>3 DEF IInv, InMapIsInDo, InDo, TypeOK
<1>6. HandlerPlaced' /\ NotForwarded'
  BY <1>2, ThreadFacts DEF IInv, HandlerPlaced, NotForwarded
<1>7. ResultOrError'
  BY <1>2 DEF IInv, ResultOrError
<1>8. NoRedundantLoad'
  <2> SUFFICES ASSUME NEW u \in Threads, pc'[u] \in Loading,
                      cache'[NodeOf(u)] # NoValue
               PROVE  raced[NodeOf(u)]
    BY <1>2, <1>3 DEF NoRedundantLoad
  <2>1. u # t /\ pc[u] \in Loading /\ pc[u] \in InDo
    BY <1>2 DEF Loading, InDo
  <2>2. NodeOf(u) \in Nodes
    BY <2>1, RunsSomewhere DEF IInv, InDo
  <2>3. NodeOf(u) # n
    BY <2>1, <1>2 DEF IInv, InDoIsInMap, InDo
  <2>4. QED
    BY <2>1, <2>2, <2>3, <1>2 DEF IInv, NoRedundantLoad
<1>9. WaitersHaveLeader'
  BY <1>2, <1>3 DEF IInv, WaitersHaveLeader, TypeOK, InDo
<1>10. QED
  BY <1>4, <1>5, <1>6, <1>7, <1>8, <1>9 DEF IInv

LEMMA DoneStep == ASSUME IInv, NEW t \in Threads, Done(t) PROVE IInv'
<1> DEFINE W == Waiting(t)
<1>1. \A u \in Threads : u \in W <=> pc[u] = "wait" /\ joined[u] = t
  BY DEF Waiting
<1>2. t \notin W
  BY DEF Waiting, Done
<1> HIDE DEF W
<1>3. /\ pc' \in [Threads -> PCs] /\ pc'[t] = "unlink" /\ pc[t] = "finish"
      /\ \A u \in W : u \in Threads => pc'[u] = "return"
      /\ \A u \in Threads \ W : u # t => pc'[u] = pc[u]
      /\ \A u \in W : u \in Threads => res'[u] = res[t]
      /\ \A u \in Threads \ W : res'[u] = res[u]
      /\ \A u \in Threads \ W : joined'[u] = joined[u]
      /\ UNCHANGED <<cache, owner, flight, at, raced, sync>>
  BY <1>2 DEF IInv, TypeOK, Done, PCs, InDo, W
<1>4. TypeOK'
  BY <1>3 DEF IInv, TypeOK, Done, W
<1>5. \A u : NodeOf(u)' = NodeOf(u)
  BY <1>3, NodeKept
<1>6. InDoIsInMap'
  BY <1>3, <1>5, <1>1 DEF IInv, InDoIsInMap, InDo
<1>7. InMapIsInDo'
  BY <1>3, <1>5, <1>1 DEF IInv, InMapIsInDo, InDo, TypeOK
<1>8. HandlerPlaced' /\ NotForwarded'
  BY <1>1, <1>3, ThreadFacts DEF IInv, HandlerPlaced, NotForwarded
<1>9. ResultOrError'
  BY <1>1, <1>3 DEF IInv, ResultOrError
<1>10. NoRedundantLoad'
  BY <1>1, <1>3, <1>5 DEF IInv, NoRedundantLoad, Loading
<1>11. WaitersHaveLeader'
  BY <1>1, <1>3, <1>5 DEF IInv, WaitersHaveLeader, TypeOK, InDo
<1>12. QED
  BY <1>4, <1>6, <1>7, <1>8, <1>9, <1>10, <1>11 DEF IInv

LEMMA UnlinkStep == ASSUME IInv, NEW t \in Threads, Unlink(t) PROVE IInv'
<1> DEFINE n == NodeOf(t)
<1>1. n \in Nodes /\ flight[n] = t
  BY RunsSomewhere DEF IInv, Unlink, InDoIsInMap, InDo
<1>2. /\ pc' \in [Threads -> PCs] /\ pc'[t] = "return" /\ pc[t] = "unlink"
      /\ \A u \in Threads : u # t => pc'[u] = pc[u]
      /\ flight' \in [Nodes -> Threads \cup {NoThread}] /\ flight'[n] = NoThread
      /\ \A m \in Nodes : m # n => flight'[m] = flight[m]
      /\ raced' \in [Nodes -> BOOLEAN]
      /\ \A m \in Nodes : m # n => raced'[m] = raced[m]
      /\ UNCHANGED <<cache, owner, joined, at, res, sync>>
  BY <1>1 DEF IInv, TypeOK, Unlink, Goto, PCs, InDo
<1>3. \A u : NodeOf(u)' = NodeOf(u)
  BY <1>2, NodeKept
<1>4. \A u \in Threads : pc[u] # "idle" => NodeOf(u) \in Nodes
  BY RunsSomewhere DEF IInv
<1>5. \A u \in Threads : pc'[u] \in InDo => /\ u # t /\ pc[u] \in InDo
                                           /\ NodeOf(u) \in Nodes /\ NodeOf(u) # n
  BY <1>1, <1>2, <1>4 DEF IInv, InDoIsInMap, InDo
<1>6. TypeOK'
  BY <1>2 DEF IInv, TypeOK
<1>7. InDoIsInMap'
  BY <1>2, <1>3, <1>5 DEF IInv, InDoIsInMap
<1>8. InMapIsInDo'
  BY <1>1, <1>2, <1>3 DEF IInv, InMapIsInDo, InDo, TypeOK
<1>9. HandlerPlaced' /\ NotForwarded'
  BY <1>2, ThreadFacts DEF IInv, HandlerPlaced, NotForwarded
<1>10. ResultOrError'
  BY <1>2 DEF IInv, ResultOrError
<1>11. NoRedundantLoad'
  BY <1>2, <1>3, <1>5 DEF IInv, NoRedundantLoad, Loading, InDo
<1>12. WaitersHaveLeader'
  <2> SUFFICES ASSUME NEW u \in Threads, pc'[u] = "wait"
               PROVE  /\ joined[u] # NoThread
                      /\ flight'[NodeOf(u)] = joined[u]
                      /\ pc'[joined[u]] \in InDo \ {"unlink"}
    BY <1>2, <1>3 DEF WaitersHaveLeader
  <2>1. /\ pc[u] = "wait" /\ joined[u] # NoThread /\ NodeOf(u) \in Nodes
        /\ flight[NodeOf(u)] = joined[u]
        /\ pc[joined[u]] \in InDo \ {"unlink"}
    BY <1>2, <1>4 DEF IInv, WaitersHaveLeader
  <2>2. joined[u] \in Threads /\ joined[u] # t
    BY <2>1, <1>2 DEF IInv, TypeOK
  <2>3. QED
    BY <2>1, <2>2, <1>1, <1>2
<1>13. QED
  BY <1>6, <1>7, <1>8, <1>9, <1>10, <1>11, <1>12 DEF IInv

(* The map, the callers' outcomes and the waiters are as before; one node  *)
(* or ring or goroutine of a write changes.                                *)
LEMMA ForwardStep == ASSUME IInv, NEW c \in Calls, Forward(c) PROVE IInv'
<1> DEFINE u == User(c)
           h == Handler(c)
<1>1. /\ u \in Threads /\ h \in Threads /\ u # h
      /\ pc[u] = "pick" /\ pc[h] = "idle"
      /\ NodeOf(u) = Home[c] /\ Home[c] \in Nodes
  BY ThreadFacts, GroupLoadAssumption DEF Forward, IInv, NotForwarded, NodeOf
<1>2. /\ pc' \in [Threads -> PCs] /\ pc'[u] = "rpc" /\ pc'[h] = "start"
      /\ \A w \in Threads : w # u /\ w # h => pc'[w] = pc[w]
      /\ at' \in [Calls -> Nodes \cup {NoNode}] /\ at'[c] \in Nodes
      /\ \A d \in Calls : d # c => at'[d] = at[d]
      /\ UNCHANGED <<cache, owner, flight, joined, res, raced, sync>>
  BY <1>1 DEF IInv, TypeOK, Forward, PCs, InDo
<1>3. \A w \in Threads : w # h => NodeOf(w)' = NodeOf(w)
  BY <1>2, ThreadFacts DEF NodeOf
<1>4. TypeOK' /\ InDoIsInMap'
  BY <1>1, <1>2, <1>3 DEF IInv, TypeOK, InDoIsInMap, InDo
<1>5. InMapIsInDo'
  BY <1>1, <1>2, <1>3 DEF IInv, InMapIsInDo, InDo, TypeOK
<1>6. HandlerPlaced' /\ NotForwarded'
  BY <1>1, <1>2, ThreadFacts DEF IInv, HandlerPlaced, NotForwarded
<1>7. ResultOrError' /\ NoRedundantLoad'
  BY <1>1, <1>2, <1>3 DEF IInv, ResultOrError, NoRedundantLoad, Loading
<1>8. WaitersHaveLeader'
  BY <1>1, <1>2, <1>3 DEF IInv, WaitersHaveLeader, TypeOK, InDo
<1>9. QED
  BY <1>4, <1>5, <1>6, <1>7, <1>8 DEF IInv

(* A handler ends: its node is forgotten; its caller may move on.          *)
LEMMA HandlerEnds ==
    ASSUME IInv, NEW c \in Calls,
           pc[Handler(c)] \in {"start", "return"},
           pc' \in [Threads -> PCs], pc'[Handler(c)] = "idle",
           \A w \in Threads :
               w # Handler(c) =>
                   \/ pc'[w] = pc[w] /\ res'[w] = res[w]
                   \/ /\ w = User(c) /\ pc[w] = "rpc"
                      /\ \/ pc'[w] = "getter"
                         \/ pc'[w] = "store" /\ res'[w] \in Values,
           res' \in [Threads -> Values \cup {NoValue, Error}],
           at' = [at EXCEPT ![c] = NoNode],
           UNCHANGED <<cache, owner, flight, joined, raced, sync>>
    PROVE  IInv'
<1> DEFINE h == Handler(c)
<1>1. /\ h \in Threads /\ User(c) \in Threads /\ h # User(c)
      /\ at' \in [Calls -> Nodes \cup {NoNode}]
      /\ \A d \in Calls : d # c => at'[d] = at[d]
  BY ThreadFacts DEF IInv, TypeOK
<1>2. \A w \in Threads : w # h => NodeOf(w)' = NodeOf(w)
  BY <1>1, ThreadFacts DEF NodeOf
<1>3. \A w \in Threads : w # h =>
          /\ pc'[w] \in InDo \ {"unlink"} <=> pc[w] \in InDo \ {"unlink"}
          /\ pc'[w] \in Loading <=> pc[w] \in Loading
          /\ pc'[w] = pc[w] \/ pc'[w] \in {"getter", "store"}
  BY DEF InDo, Loading
<1>4. TypeOK' /\ InDoIsInMap'
  BY <1>1, <1>2 DEF IInv, TypeOK, InDoIsInMap, InDo
<1>5. InMapIsInDo'
  BY <1>1, <1>2, <1>3 DEF IInv, InMapIsInDo, InDo, TypeOK
<1>6. HandlerPlaced' /\ NotForwarded'
  BY <1>1, <1>3, ThreadFacts DEF IInv, HandlerPlaced, NotForwarded
<1>7. ResultOrError'
  BY <1>1 DEF IInv, ResultOrError
<1>8. NoRedundantLoad'
  BY <1>1, <1>2, <1>3 DEF IInv, NoRedundantLoad, Loading
<1>9. WaitersHaveLeader'
  BY <1>1, <1>2, <1>3 DEF IInv, WaitersHaveLeader, TypeOK, InDo
<1>10. QED
  BY <1>4, <1>5, <1>6, <1>7, <1>8, <1>9 DEF IInv

LEMMA ReplyStep == ASSUME IInv, NEW c \in Calls, Reply(c) PROVE IInv'
<1> DEFINE u == User(c)
           h == Handler(c)
<1>1. /\ h \in Threads /\ u \in Threads /\ h # u
      /\ pc[h] = "return" /\ res[h] \in Values \cup {Error}
      /\ at' = [at EXCEPT ![c] = NoNode]
      /\ UNCHANGED <<cache, owner, flight, joined, raced, sync>>
  BY ThreadFacts DEF Reply, IInv, ResultOrError
<1>2. CASE pc[u] = "rpc" /\ res[h] # Error
  <2>1. /\ pc' = [pc EXCEPT ![u] = "store", ![h] = "idle"]
        /\ res' = [res EXCEPT ![u] = res[h], ![h] = NoValue]
    BY <1>2 DEF Reply
  <2>2. /\ pc' \in [Threads -> PCs] /\ pc'[h] = "idle" /\ pc'[u] = "store"
        /\ \A w \in Threads : w # h /\ w # u => pc'[w] = pc[w] /\ res'[w] = res[w]
        /\ res' \in [Threads -> Values \cup {NoValue, Error}] /\ res'[u] \in Values
    BY <2>1, <1>1, <1>2 DEF IInv, TypeOK, PCs, InDo
  <2>3. QED
    BY <2>2, <1>1, <1>2, HandlerEnds
<1>3. CASE pc[u] = "rpc" /\ res[h] = Error
  <2>1. /\ pc' = [pc EXCEPT ![u] = "getter", ![h] = "idle"]
        /\ res' = [res EXCEPT ![h] = NoValue]
    BY <1>3 DEF Reply, Carry
  <2>2. /\ pc' \in [Threads -> PCs] /\ pc'[h] = "idle" /\ pc'[u] = "getter"
        /\ \A w \in Threads : w # h /\ w # u => pc'[w] = pc[w] /\ res'[w] = res[w]
        /\ res' \in [Threads -> Values \cup {NoValue, Error}]
    BY <2>1, <1>1 DEF IInv, TypeOK, PCs, InDo
  <2>3. QED
    BY <2>2, <1>1, <1>3, HandlerEnds
<1>4. CASE pc[u] # "rpc"
  <2>1. /\ pc' = [pc EXCEPT ![h] = "idle"]
        /\ res' = [res EXCEPT ![h] = NoValue]
    BY <1>4 DEF Reply, Goto, Carry
  <2>2. /\ pc' \in [Threads -> PCs] /\ pc'[h] = "idle"
        /\ \A w \in Threads : w # h => pc'[w] = pc[w] /\ res'[w] = res[w]
        /\ res' \in [Threads -> Values \cup {NoValue, Error}]
    BY <2>1, <1>1 DEF IInv, TypeOK, PCs, InDo
  <2>3. QED
    BY <2>2, <1>1, HandlerEnds
<1>5. QED
  BY <1>2, <1>3, <1>4

LEMMA RequestLostStep == ASSUME IInv, NEW c \in Calls, RequestLost(c) PROVE IInv'
<1>1. Handler(c) \in Threads
  BY ThreadFacts
<1>2. /\ pc[Handler(c)] = "start"
      /\ pc' \in [Threads -> PCs] /\ pc'[Handler(c)] = "idle"
      /\ \A w \in Threads : w # Handler(c) => pc'[w] = pc[w]
  BY <1>1 DEF RequestLost, Goto, IInv, TypeOK, PCs
<1>3. /\ res' = res /\ at' = [at EXCEPT ![c] = NoNode]
      /\ UNCHANGED <<cache, owner, flight, joined, raced, sync>>
  BY DEF RequestLost
<1>4. res' \in [Threads -> Values \cup {NoValue, Error}]
  BY <1>3 DEF IInv, TypeOK
<1>5. QED
  BY <1>2, <1>3, <1>4, HandlerEnds

(* A write, from the user or from a peer: whoever loads has been told.     *)
LEMMA WriteAtStep ==
    ASSUME IInv, NEW n \in Nodes, NEW v \in Values \cup {NoValue}, WriteAt(n, v),
           sync' \in [Calls -> Syncs],
           UNCHANGED <<owner, flight, pc, joined, at, res>>
    PROVE  IInv'
<1>1. /\ cache' \in [Nodes -> Values \cup {NoValue}]
      /\ \A m \in Nodes : m # n => cache'[m] = cache[m] /\ raced'[m] = raced[m]
      /\ raced' \in [Nodes -> BOOLEAN]
      /\ flight[n] # NoThread => raced'[n]
  BY DEF IInv, TypeOK, WriteAt
<1>2. \A u : NodeOf(u)' = NodeOf(u)
  BY NodeKept
<1>3. TypeOK' /\ InDoIsInMap' /\ InMapIsInDo' /\ HandlerPlaced' /\ NotForwarded'
  BY <1>1, <1>2 DEF IInv, TypeOK, InDoIsInMap, InMapIsInDo, HandlerPlaced, NotForwarded
<1>4. ResultOrError' /\ WaitersHaveLeader'
  BY <1>2 DEF IInv, ResultOrError, WaitersHaveLeader
<1>5. NoRedundantLoad'
  <2> SUFFICES ASSUME NEW u \in Threads, pc[u] \in Loading,
                      cache'[NodeOf(u)] # NoValue
               PROVE  raced'[NodeOf(u)]
    BY <1>2 DEF NoRedundantLoad
  <2>1. NodeOf(u) \in Nodes /\ flight[NodeOf(u)] = u
    BY RunsSomewhere DEF IInv, InDoIsInMap, Loading, InDo
  <2>2. CASE NodeOf(u) = n
    BY <2>1, <2>2, <1>1, GroupLoadAssumption
  <2>3. CASE NodeOf(u) # n
    BY <2>1, <2>3, <1>1 DEF IInv, NoRedundantLoad
  <2>4. QED
    BY <2>2, <2>3
<1>6. QED
  BY <1>3, <1>4, <1>5 DEF IInv

LEMMA WriteStep ==
    ASSUME IInv, NEW c \in Writers, Set(c) \/ Delete(c)
    PROVE  IInv'
<1>1. PICK v \in Values \cup {NoValue} : Write(c, v)
  BY DEF Set, Delete
<1>2. c \in Calls /\ Home[c] \in Nodes
  BY GroupLoadAssumption
<1>3. sync' \in [Calls -> Syncs]
  BY <1>1, <1>2 DEF Write, Syncs, IInv, TypeOK
<1>4. QED
  BY <1>1, <1>2, <1>3, WriteAtStep DEF Write

LEMMA SyncStep ==
    ASSUME IInv, NEW c \in Calls, SyncPick(c) \/ SyncDeliver(c) \/ SyncLost(c)
    PROVE  IInv'
<1>1. NoSync \in Syncs /\ sync[c] \in Syncs /\ owner[Home[c]] \in Nodes
  BY GroupLoadAssumption DEF NoSync, Syncs, IInv, TypeOK
<1>2. CASE SyncDeliver(c)
  <2>1. sync' \in [Calls -> Syncs]
    BY <1>1, <1>2 DEF SyncDeliver, IInv, TypeOK
  <2>2. sync[c].v \in Values \cup {NoValue}
    BY <1>1 DEF Syncs
  <2>3. CASE sync[c].to \in Nodes
    BY <1>2, <2>1, <2>2, <2>3, WriteAtStep DEF SyncDeliver
  <2>4. CASE sync[c].to \notin Nodes
    <3>1. cache' = cache /\ raced' = raced
      BY <1>2, <2>4 DEF SyncDeliver, WriteAt, IInv, TypeOK
    <3>2. QED
      BY <1>2, <2>1, <3>1, NodeKept
      DEF SyncDeliver, IInv, TypeOK, InDoIsInMap, InMapIsInDo, HandlerPlaced,
          NotForwarded, ResultOrError, WaitersHaveLeader, NoRedundantLoad
  <2>5. QED
    BY <2>3, <2>4
<1>3. CASE SyncPick(c) \/ SyncLost(c)
  <2>1. sync' \in [Calls -> Syncs]
    <3>1. sync \in [Calls -> Syncs]
      BY DEF IInv, TypeOK
    <3>2. [sync[c] EXCEPT !.to = owner[Home[c]], !.step = "send"] \in Syncs
      BY <1>1 DEF Syncs
    <3>3. PICK s \in Syncs : sync' = [sync EXCEPT ![c] = s]
      BY <1>1, <1>3, <3>1, <3>2 DEF SyncPick, SyncLost
    <3>4. QED
      BY <3>1, <3>3
  <2>2. UNCHANGED <<cache, owner, flight, pc, joined, at, res, raced>>
    BY <1>3 DEF SyncPick, SyncLost
  <2>3. TypeOK'
    BY <2>1, <2>2 DEF IInv, TypeOK
  <2>4. InDoIsInMap' /\ InMapIsInDo' /\ WaitersHaveLeader' /\ NoRedundantLoad'
    BY <2>2, NodeKept
    DEF IInv, InDoIsInMap, InMapIsInDo, WaitersHaveLeader, NoRedundantLoad
  <2>5. HandlerPlaced' /\ NotForwarded' /\ ResultOrError'
    BY <2>2 DEF IInv, HandlerPlaced, NotForwarded, ResultOrError
  <2>6. QED
    BY <2>3, <2>4, <2>5 DEF IInv
<1>4. QED
  BY <1>2, <1>3

(* What the environment does.                                              *)
LEMMA OutsideStep ==
    ASSUME IInv, NEW n \in Nodes, NEW o \in Nodes, Forget(n) \/ RingChange(n, o)
    PROVE  IInv'
<1>1. /\ cache' \in [Nodes -> Values \cup {NoValue}]
      /\ owner' \in [Nodes -> Nodes]
      /\ \A m \in Nodes : cache'[m] # NoValue => cache[m] # NoValue
      /\ UNCHANGED <<flight, pc, joined, at, res, raced, sync>>
  BY DEF Forget, RingChange, IInv, TypeOK
<1>2. \A u : NodeOf(u)' = NodeOf(u)
  BY <1>1, NodeKept
<1>3. NoRedundantLoad'
  BY <1>1, <1>2, RunsSomewhere DEF IInv, NoRedundantLoad, Loading
<1>4. QED
  BY <1>1, <1>2, <1>3
  DEF IInv, TypeOK, InDoIsInMap, InMapIsInDo, HandlerPlaced, NotForwarded,
      ResultOrError, WaitersHaveLeader

LEMMA NextIInv == IInv /\ [Next]_vars => IInv'
<1> SUFFICES ASSUME IInv, [Next]_vars PROVE IInv'
  OBVIOUS
<1>1. CASE UNCHANGED vars
  BY <1>1, NodeKept
  DEF vars, IInv, TypeOK, InDoIsInMap, InMapIsInDo, HandlerPlaced, NotForwarded,
      ResultOrError, WaitersHaveLeader, NoRedundantLoad
<1>2. ASSUME NEW t \in Threads, Step(t) PROVE IInv'
  BY <1>2, LookUpStep, LeadStep, FollowStep, RecheckStep, LoadHereStep, GetterStep,
     StoreStep, DoneStep, UnlinkStep DEF Step
<1>3. ASSUME NEW c \in Calls, UserStep(c) \/ HandlerStep(c) PROVE IInv'
  BY <1>2, <1>3, ThreadFacts, ForwardStep, TimeoutStep, ReturnStep, ReplyStep
  DEF UserStep, HandlerStep
<1>4. QED
  BY <1>1, <1>3, GetStep, RequestLostStep, WriteStep, SyncStep, OutsideStep DEF Next

-----------------------------------------------------------------------------
(* Every variable has its type; in particular a cache never holds the      *)
(* error of a failed load.                                                 *)
THEOREM TypeCorrect == Spec => []TypeOK
<1>1. IInv => TypeOK
  BY DEF IInv
<1>2. QED
  BY <1>1, InitIInv, NextIInv, PTL DEF Spec

(* On a node at most one thread at a time runs the function of Do.         *)
THEOREM SingleLeader == Spec => []OneLeader
<1>1. IInv => OneLeader
  BY DEF IInv, InDoIsInMap, OneLeader
<1>2. QED
  BY <1>1, InitIInv, NextIInv, PTL DEF Spec

(* No waiter of Do is left behind.                                         *)
THEOREM NoLostWaiter == Spec => []WaitersHaveLeader
<1>1. IInv => WaitersHaveLeader
  BY DEF IInv
<1>2. QED
  BY <1>1, InitIInv, NextIInv, PTL DEF Spec

(* A load overwrites only what was written while it was under way.         *)
THEOREM LoadsOnlyWhatIsMissing == Spec => []NoRedundantLoad
<1>1. IInv => NoRedundantLoad
  BY DEF IInv
<1>2. QED
  BY <1>1, InitIInv, NextIInv, PTL DEF Spec

-----------------------------------------------------------------------------
(* GroupRegistry: the registry and the Cache wrapper                       *)

Closers == {"cacheClose", "closeLock", "closeLocked", "unregister"}
Working == Places \ {"idle", "next"}

(* A goroutine at work is in a group that has been allocated; so are the   *)
(* groups DestroyAllGroups has taken.                                      *)
Placed ==
    /\ \A p \in Procs : where[p] \in Working =>
           on[p] \in Groups /\ named[on[p]] \in Names
    /\ \A p \in Procs : \A g \in todo[p] : named[g] \in Names

(* A registered group is registered under its own name.                    *)
OwnName == \A n \in Names : registry[n] # NoGroup => named[registry[n]] = n

(* The two flags of a Cache and its running store say the same.            *)
FlagsAgree ==
    \A g \in Groups :
        (store[g] <=> initialized[g]) /\ running[g] = (IF store[g] THEN 1 ELSE 0)

(* Only the goroutine that set Group.closed goes on to close the cache.    *)
OneCloser ==
    /\ \A p, q \in Procs :
           where[p] \in Closers /\ where[q] \in Closers /\ on[p] = on[q] => p = q
    /\ \A p \in Procs : where[p] \in Closers => gclosed[on[p]]
    /\ \A p \in Procs : where[p] = "cacheClose" => ~cclosed[on[p]]

(* The flags are set in order, each by the closer: between gclosed and     *)
(* cclosed it is at CloseCache, and a closed cache has a store only until  *)
(* the closer has taken it.                                                *)
ClosedInOrder ==
    \A g \in Groups :
        /\ gclosed[g] => named[g] \in Names
        /\ cclosed[g] => gclosed[g]
        /\ gclosed[g] /\ ~cclosed[g] =>
               \E p \in Procs : on[p] = g /\ where[p] = "cacheClose"
        /\ cclosed[g] /\ store[g] =>
               \E p \in Procs : on[p] = g /\ where[p] \in {"closeLock", "closeLocked"}

ReadersHaveStore == \A p \in Procs : where[p] = "use" => store[on[p]]

RegistryIInv == /\ RegistryTypeOK
        /\ Placed
        /\ OwnName
        /\ FlagsAgree
        /\ OneCloser
        /\ ClosedInOrder
        /\ ReadersHaveStore
        /\ NoClosedGroupLeft

LEMMA RegistryInitIInv == RegistryInit => RegistryIInv
BY GroupRegistryAssumption
   DEF RegistryInit, RegistryIInv, RegistryTypeOK, Placed, OwnName, FlagsAgree, OneCloser,
       ClosedInOrder,
       ReadersHaveStore, NoClosedGroupLeft, Places, Working, Closers

-----------------------------------------------------------------------------
(* The registry.                                                           *)

LEMMA NewGroupStep ==
  ASSUME RegistryIInv, NEW p \in Procs, NEW n \in Names, NEW g \in Groups, NewGroup(p, n, g)
  PROVE  RegistryIInv'
BY GroupRegistryAssumption
   DEF NewGroup, cacheVars, RegistryIInv, RegistryTypeOK, Placed, OwnName, FlagsAgree,
       OneCloser, ClosedInOrder, ReadersHaveStore, NoClosedGroupLeft, Places, Working, Closers

LEMMA DestroyGroupStep ==
  ASSUME RegistryIInv, NEW p \in Procs, NEW n \in Names, DestroyGroup(p, n)
  PROVE  RegistryIInv'
BY GroupRegistryAssumption
   DEF DestroyGroup, Enter, cacheVars, RegistryIInv, RegistryTypeOK, Placed, OwnName, FlagsAgree,
       OneCloser, ClosedInOrder, ReadersHaveStore, NoClosedGroupLeft, Places, Working, Closers

LEMMA DestroyAllStep ==
  ASSUME RegistryIInv, NEW p \in Procs, DestroyAllGroups(p)
  PROVE  RegistryIInv'
<1> DEFINE taken == {registry[n] : n \in Names} \ {NoGroup}
<1>1. /\ where' = [where EXCEPT ![p] = "next"] /\ on' = [on EXCEPT ![p] = NoGroup]
      /\ todo' = [todo EXCEPT ![p] = taken] /\ registry' = [n \in Names |-> NoGroup]
      /\ where[p] = "idle"
      /\ UNCHANGED <<named, gclosed, cclosed, initialized, store, running, writer>>
  BY DEF DestroyAllGroups, Enter, cacheVars
<1>2. /\ taken \subseteq Groups
      /\ \A g \in taken : named[g] \in Names
  BY DEF RegistryIInv, RegistryTypeOK, OwnName
<1> HIDE DEF taken
<1>3. RegistryTypeOK'
  BY <1>1, <1>2 DEF RegistryIInv, RegistryTypeOK, Places
<1>4. Placed'
  BY <1>1, <1>2 DEF RegistryIInv, RegistryTypeOK, Placed, Places, Working
<1>5. OwnName' /\ NoClosedGroupLeft'
  BY <1>1 DEF OwnName, NoClosedGroupLeft
<1>6. FlagsAgree' /\ OneCloser' /\ ClosedInOrder' /\ ReadersHaveStore'
  BY <1>1 DEF RegistryIInv, RegistryTypeOK, FlagsAgree, OneCloser, ClosedInOrder,
     ReadersHaveStore, Closers
<1> QED
  BY <1>3, <1>4, <1>5, <1>6 DEF RegistryIInv

LEMMA NextToCloseStep ==
  ASSUME RegistryIInv, NEW p \in Procs, NextToClose(p)
  PROVE  RegistryIInv'
<1> USE GroupRegistryAssumption DEF RegistryIInv, RegistryTypeOK, Places
<1>1. where[p] = "next" /\ UNCHANGED <<registry, named, gclosed, cclosed, initialized,
                                    store, running, writer>>
  BY DEF NextToClose, groupVars, cacheVars
<1>2. CASE \E g \in todo[p] : /\ Enter(p, g, "close")
                              /\ todo' = [todo EXCEPT ![p] = @ \ {g}]
  <2>1. PICK g \in todo[p] : /\ where' = [where EXCEPT ![p] = "close"]
                             /\ on' = [on EXCEPT ![p] = g]
                             /\ todo' = [todo EXCEPT ![p] = @ \ {g}]
    BY <1>2 DEF Enter
  <2>2. g \in Groups /\ named[g] \in Names
    BY DEF Placed
  <2>3. RegistryTypeOK'
    BY <1>1, <2>1, <2>2
  <2>4. Placed' /\ OwnName' /\ FlagsAgree'
    BY <1>1, <2>1, <2>2 DEF Placed, OwnName, FlagsAgree, Working
  <2>5. OneCloser' /\ ReadersHaveStore'
    BY <1>1, <2>1, <2>2 DEF OneCloser, ReadersHaveStore, Closers
  <2>6. ClosedInOrder' /\ NoClosedGroupLeft'
    BY <1>1, <2>1, <2>2 DEF ClosedInOrder, NoClosedGroupLeft
  <2> QED
    BY <2>3, <2>4, <2>5, <2>6
<1>3. CASE todo[p] = {} /\ Leave(p)
  BY <1>1, <1>3 DEF Leave, Placed, OwnName, FlagsAgree, OneCloser, ClosedInOrder,
                    ReadersHaveStore, NoClosedGroupLeft, Working, Closers
<1> QED
  BY <1>2, <1>3 DEF NextToClose

-----------------------------------------------------------------------------
(* Group.Close.                                                            *)

LEMMA CallCloseStep ==
  ASSUME RegistryIInv, NEW p \in Procs, NEW g \in Groups, CallClose(p, g)
  PROVE  RegistryIInv'
BY GroupRegistryAssumption
   DEF CallClose, Enter, groupVars, cacheVars, RegistryIInv, RegistryTypeOK, Placed, OwnName,
       FlagsAgree,
       OneCloser, ClosedInOrder, ReadersHaveStore, NoClosedGroupLeft, Places, Working, Closers

LEMMA CloseGroupStep ==
  ASSUME RegistryIInv, NEW p \in Procs, CloseGroup(p)
  PROVE  RegistryIInv'
BY GroupRegistryAssumption
   DEF CloseGroup, MovesTo, groupVars, cacheVars, RegistryIInv, RegistryTypeOK, Placed, OwnName,
       FlagsAgree,
       OneCloser, ClosedInOrder, ReadersHaveStore, NoClosedGroupLeft, Places, Working, Closers

LEMMA CloseCacheStep ==
  ASSUME RegistryIInv, NEW p \in Procs, CloseCache(p)
  PROVE  RegistryIInv'
BY GroupRegistryAssumption
   DEF CloseCache, MovesTo, groupVars, RegistryIInv, RegistryTypeOK, Placed, OwnName, FlagsAgree,
       OneCloser, ClosedInOrder, ReadersHaveStore, NoClosedGroupLeft, Places, Working, Closers

LEMMA CloseStoreStep ==
  ASSUME RegistryIInv, NEW p \in Procs, CloseStore(p)
  PROVE  RegistryIInv'
<1> DEFINE g == on[p]
<1>1. g \in Groups /\ where[p] = "closeLocked" /\ \A q \in Procs : where[q] = "use" => on[q] # g
  BY DEF RegistryIInv, RegistryTypeOK, Placed, CloseStore, Readers, Places, Working
<1>2. /\ where' = [where EXCEPT ![p] = "unregister"]
      /\ store' = [store EXCEPT ![g] = FALSE]
      /\ initialized' = [initialized EXCEPT ![g] = FALSE]
      /\ running' = [running EXCEPT ![g] = IF store[g] THEN @ - 1 ELSE @]
      /\ writer' = [writer EXCEPT ![g] = NoProc]
      /\ UNCHANGED <<on, todo, registry, named, gclosed, cclosed>>
  BY DEF CloseStore, MovesTo, Release, groupVars
<1>3. running[g] = IF store[g] THEN 1 ELSE 0
  BY <1>1 DEF RegistryIInv, FlagsAgree
<1> HIDE DEF g
<1>4. RegistryTypeOK'
  BY <1>1, <1>2, <1>3 DEF RegistryIInv, RegistryTypeOK, Places
<1>5. FlagsAgree'
  <2>1. running'[g] = 0 /\ store'[g] = FALSE /\ initialized'[g] = FALSE
    BY <1>1, <1>2, <1>3 DEF RegistryIInv, RegistryTypeOK
  <2>2. \A h \in Groups \ {g} : /\ store'[h] = store[h]
                                /\ initialized'[h] = initialized[h]
                                /\ running'[h] = running[h]
    BY <1>1, <1>2 DEF RegistryIInv, RegistryTypeOK
  <2> QED
    BY <2>1, <2>2 DEF RegistryIInv, FlagsAgree
<1>6. Placed' /\ OwnName' /\ OneCloser'
  BY <1>1, <1>2 DEF RegistryIInv, RegistryTypeOK, Placed, OwnName, OneCloser, Places, Working,
     Closers
<1>7. ClosedInOrder'
  BY <1>1, <1>2 DEF g, RegistryIInv, RegistryTypeOK, ClosedInOrder
<1>8. ReadersHaveStore' /\ NoClosedGroupLeft'
  BY <1>1, <1>2 DEF RegistryIInv, RegistryTypeOK, ReadersHaveStore, NoClosedGroupLeft
<1> QED
  BY <1>4, <1>5, <1>6, <1>7, <1>8 DEF RegistryIInv

LEMMA UnregisterStep ==
  ASSUME RegistryIInv, NEW p \in Procs, Unregister(p)
  PROVE  RegistryIInv'
BY GroupRegistryAssumption
   DEF Unregister, MovesTo, cacheVars, RegistryIInv, RegistryTypeOK, Placed, OwnName, FlagsAgree,
       OneCloser, ClosedInOrder, ReadersHaveStore, NoClosedGroupLeft, Places, Working, Closers

-----------------------------------------------------------------------------
(* The operations on a group.                                              *)

LEMMA StartStep ==
  ASSUME RegistryIInv, NEW p \in Procs, NEW g \in Groups,
         NEW operation \in {"add", "read", "clear"}, Start(p, g, operation)
  PROVE  RegistryIInv'
BY GroupRegistryAssumption
   DEF Start, Enter, groupVars, cacheVars, RegistryIInv, RegistryTypeOK, Placed, OwnName,
       FlagsAgree,
       OneCloser, ClosedInOrder, ReadersHaveStore, NoClosedGroupLeft, Places, Working, Closers

(* A step of an operation that leaves the store as it is: the goroutine    *)
(* goes on in the same group, or is done.                                  *)
QuietStep(p, label) ==
    /\ where[p] \in Working \ Closers /\ label \in Places \ Closers
    /\ where' = [where EXCEPT ![p] = label]
    /\ \/ label \in Working /\ UNCHANGED on
       \/ label = "idle" /\ on' = [on EXCEPT ![p] = NoGroup]
    /\ label = "use" => store[on[p]]
    /\ writer' \in [Groups -> Procs \cup {NoProc}]
    /\ UNCHANGED <<registry, named, gclosed, cclosed, initialized, store, running, todo>>

LEMMA QuietStepKeepsIInv ==
  ASSUME RegistryIInv, NEW p \in Procs, NEW label, QuietStep(p, label)
  PROVE  RegistryIInv'
<1> USE DEF QuietStep, RegistryIInv, RegistryTypeOK
<1>1. RegistryTypeOK'
  OBVIOUS
<1>2. Placed' /\ OwnName' /\ FlagsAgree'
  BY DEF Placed, OwnName, FlagsAgree, Places, Working
<1>3. OneCloser'
  BY DEF OneCloser, Places, Working, Closers
<1>4. ClosedInOrder'
  BY DEF ClosedInOrder, Closers
<1>5. NoClosedGroupLeft'
  BY DEF NoClosedGroupLeft, Closers
<1>6. ReadersHaveStore'
  BY DEF ReadersHaveStore, Working
<1> QED
  BY <1>1, <1>2, <1>3, <1>4, <1>5, <1>6

LEMMA AddStep ==
  ASSUME RegistryIInv, NEW p \in Procs, Add(p)
  PROVE  RegistryIInv'
<1>1. QuietStep(p, "idle") \/ QuietStep(p, "ensure")
  BY DEF Add, QuietStep, MovesTo, Leave, groupVars, cacheVars, RegistryIInv, RegistryTypeOK,
     Places, Working, Closers
<1> QED
  BY <1>1, QuietStepKeepsIInv

LEMMA ReadStep ==
  ASSUME RegistryIInv, NEW p \in Procs, Read(p)
  PROVE  RegistryIInv'
<1>1. QuietStep(p, "idle") \/ QuietStep(p, "rlock")
  BY DEF Read, QuietStep, MovesTo, Leave, groupVars, cacheVars, RegistryIInv, RegistryTypeOK,
     Places, Working, Closers
<1> QED
  BY <1>1, QuietStepKeepsIInv

LEMMA EnsureStep ==
  ASSUME RegistryIInv, NEW p \in Procs, EnsureInitialized(p)
  PROVE  RegistryIInv'
<1>1. QuietStep(p, "rlock") \/ QuietStep(p, "initLock")
  BY DEF EnsureInitialized, QuietStep, MovesTo, groupVars, cacheVars, RegistryIInv,
     RegistryTypeOK, Places, Working, Closers
<1> QED
  BY <1>1, QuietStepKeepsIInv

LEMMA LockStep ==
  ASSUME RegistryIInv, NEW p \in Procs, Lock(p)
  PROVE  RegistryIInv'
<1>1. on[p] \in Groups /\ writer' \in [Groups -> Procs \cup {NoProc}]
  BY DEF Lock, RegistryIInv, RegistryTypeOK, Placed, Places, Working
<1>2. CASE where[p] = "closeLock"
  <2>1. /\ where' = [where EXCEPT ![p] = "closeLocked"]
        /\ UNCHANGED <<on, todo, registry, named, gclosed, cclosed, initialized,
                       store, running>>
    BY <1>2 DEF Lock, MovesTo, groupVars
  <2>2. RegistryTypeOK' /\ Placed' /\ OwnName' /\ FlagsAgree'
    BY <1>1, <1>2, <2>1 DEF RegistryIInv, RegistryTypeOK, Placed, OwnName, FlagsAgree, Places,
       Working
  <2>3. OneCloser' /\ ReadersHaveStore'
    BY <1>2, <2>1 DEF RegistryIInv, RegistryTypeOK, OneCloser, ReadersHaveStore, Closers
  <2>4. ClosedInOrder' /\ NoClosedGroupLeft'
    BY <1>2, <2>1 DEF RegistryIInv, RegistryTypeOK, ClosedInOrder, NoClosedGroupLeft
  <2> QED
    BY <2>2, <2>3, <2>4 DEF RegistryIInv
<1>3. CASE where[p] # "closeLock"
  <2>1. QuietStep(p, "initLocked") \/ QuietStep(p, "clearLocked")
    BY <1>1, <1>3 DEF Lock, QuietStep, MovesTo, groupVars, Places, Working, Closers
  <2> QED
    BY <2>1, QuietStepKeepsIInv
<1> QED
  BY <1>2, <1>3

LEMMA RLockStep ==
  ASSUME RegistryIInv, NEW p \in Procs, RLock(p)
  PROVE  RegistryIInv'
<1>1. QuietStep(p, "idle") \/ QuietStep(p, "use")
  BY DEF RLock, QuietStep, MovesTo, Leave, groupVars, cacheVars, RegistryIInv, RegistryTypeOK,
     Places, Working, Closers
<1> QED
  BY <1>1, QuietStepKeepsIInv

LEMMA RUnlockStep ==
  ASSUME RegistryIInv, NEW p \in Procs, RUnlock(p)
  PROVE  RegistryIInv'
<1>1. QuietStep(p, "idle")
  BY DEF RUnlock, QuietStep, Leave, groupVars, cacheVars, RegistryIInv, RegistryTypeOK, Places,
     Working, Closers
<1> QED
  BY <1>1, QuietStepKeepsIInv

LEMMA ClearStep ==
  ASSUME RegistryIInv, NEW p \in Procs, Clear(p)
  PROVE  RegistryIInv'
<1>1. QuietStep(p, "idle") \/ QuietStep(p, "clearLock")
  BY DEF Clear, QuietStep, MovesTo, Leave, groupVars, cacheVars, RegistryIInv, RegistryTypeOK,
     Places, Working, Closers
<1> QED
  BY <1>1, QuietStepKeepsIInv

LEMMA ClearStoreStep ==
  ASSUME RegistryIInv, NEW p \in Procs, ClearStore(p)
  PROVE  RegistryIInv'
<1>1. QuietStep(p, "idle")
  BY DEF ClearStore, QuietStep, Leave, Release, groupVars, RegistryIInv, RegistryTypeOK, Places,
     Working, Closers
<1> QED
  BY <1>1, QuietStepKeepsIInv

LEMMA InitStoreStep ==
  ASSUME RegistryIInv, NEW p \in Procs, InitStore(p)
  PROVE  RegistryIInv'
<1> DEFINE g == on[p]
           create == ~cclosed[g] /\ ~initialized[g]
<1>1. g \in Groups /\ where[p] = "initLocked"
  BY DEF RegistryIInv, Placed, InitStore, Places, Working
<1>2. /\ where' = [where EXCEPT ![p] = "rlock"]
      /\ store' = [store EXCEPT ![g] = @ \/ create]
      /\ initialized' = [initialized EXCEPT ![g] = @ \/ create]
      /\ running' = [running EXCEPT ![g] = IF create THEN @ + 1 ELSE @]
      /\ writer' = [writer EXCEPT ![g] = NoProc]
      /\ UNCHANGED <<on, todo, registry, named, gclosed, cclosed>>
  BY DEF InitStore, MovesTo, Release, groupVars
<1>3. CASE ~create
  <2>1. UNCHANGED <<store, initialized, running>>
    BY <1>1, <1>2, <1>3 DEF RegistryIInv, RegistryTypeOK
  <2> HIDE DEF g, create
  <2>2. RegistryTypeOK'
    BY <1>1, <1>2, <2>1, GroupRegistryAssumption DEF RegistryIInv, RegistryTypeOK, Places
  <2>3. Placed' /\ OwnName' /\ FlagsAgree' /\ OneCloser'
    BY <1>1, <1>2, <2>1 DEF RegistryIInv, RegistryTypeOK, Placed, OwnName, FlagsAgree, OneCloser,
                            Places, Working, Closers
  <2>4. ClosedInOrder' /\ ReadersHaveStore' /\ NoClosedGroupLeft'
    BY <1>1, <1>2, <2>1 DEF RegistryIInv, RegistryTypeOK, ClosedInOrder, ReadersHaveStore,
       NoClosedGroupLeft
  <2> QED
    BY <2>2, <2>3, <2>4 DEF RegistryIInv
<1>4. CASE create
  <2>1. ~cclosed[g] /\ ~store[g] /\ running[g] = 0
    BY <1>1, <1>4 DEF RegistryIInv, FlagsAgree
  <2>2. /\ store' = [store EXCEPT ![g] = TRUE]
        /\ initialized' = [initialized EXCEPT ![g] = TRUE]
        /\ running' = [running EXCEPT ![g] = 1]
    <3>1. (store[g] \/ create) = TRUE /\ (initialized[g] \/ create) = TRUE
      BY <1>4
    <3>2. (IF create THEN running[g] + 1 ELSE running[g]) = 1
      BY <1>4, <2>1
    <3> HIDE DEF g, create
    <3> QED
      BY <1>2, <3>1, <3>2
  <2> HIDE DEF g, create
  <2>3. RegistryTypeOK'
    BY <1>1, <1>2, <2>2, GroupRegistryAssumption DEF RegistryIInv, RegistryTypeOK, Places
  <2>4. Placed' /\ OwnName' /\ OneCloser'
    BY <1>1, <1>2, <2>2 DEF RegistryIInv, RegistryTypeOK, Placed, OwnName, OneCloser, Places,
       Working, Closers
  <2>5. FlagsAgree'
    BY <1>1, <2>2 DEF RegistryIInv, RegistryTypeOK, FlagsAgree
  <2>6. ClosedInOrder'
    BY <1>1, <1>2, <2>1, <2>2 DEF RegistryIInv, RegistryTypeOK, ClosedInOrder
  <2>7. ReadersHaveStore' /\ NoClosedGroupLeft'
    BY <1>1, <1>2, <2>2 DEF RegistryIInv, RegistryTypeOK, ReadersHaveStore, NoClosedGroupLeft
  <2> QED
    BY <2>3, <2>4, <2>5, <2>6, <2>7 DEF RegistryIInv
<1> QED
  BY <1>3, <1>4

-----------------------------------------------------------------------------

LEMMA RegistryStepIInv ==
  ASSUME RegistryIInv, [RegistryNext]_registryVars
  PROVE  RegistryIInv'
<1>1. CASE UNCHANGED registryVars
  BY <1>1 DEF registryVars, RegistryIInv, RegistryTypeOK, Placed, OwnName, FlagsAgree, OneCloser,
     ClosedInOrder,
              ReadersHaveStore, NoClosedGroupLeft, Places, Working, Closers
<1>2. ASSUME NEW p \in Procs, Begin(p)
      PROVE  RegistryIInv'
  BY <1>2, NewGroupStep, DestroyGroupStep, DestroyAllStep, CallCloseStep, StartStep
     DEF Begin
<1>3. ASSUME NEW p \in Procs, Continue(p)
      PROVE  RegistryIInv'
  BY <1>3, NextToCloseStep, CloseGroupStep, CloseCacheStep, LockStep, CloseStoreStep,
     UnregisterStep, AddStep, ReadStep, EnsureStep, InitStoreStep, RLockStep, RUnlockStep,
     ClearStep, ClearStoreStep DEF Continue
<1> QED
  BY <1>1, <1>2, <1>3 DEF RegistryNext

THEOREM RegistryInvariance == RegistrySpec => []RegistryIInv
<1>1. RegistryIInv /\ [RegistryNext]_registryVars => RegistryIInv'
  BY RegistryStepIInv
<1> QED
  BY RegistryInitIInv, <1>1, PTL DEF RegistrySpec

(* Type correctness of the registry and the Cache wrapper: in particular a *)
(* Cache never has two stores running, although every first Add may try to *)
(* create one (ensureInitialized of cache.go).                             *)
THEOREM RegistryTypeCorrect == RegistrySpec => []RegistryTypeOK
<1>1. RegistryIInv => RegistryTypeOK
  BY DEF RegistryIInv
<1> QED
  BY RegistryInvariance, <1>1, PTL

(* Once Group.Close is through with the cache, the store is gone and stays *)
(* gone: no Add that was under way brings one back, so no cleanup goroutine*)
(* is leaked (Cache.Close and ensureInitialized of cache.go).              *)
THEOREM StoreDiesWithGroup == RegistrySpec => []NoStoreLeak
<1>1. RegistryIInv => NoStoreLeak
  BY DEF RegistryIInv, FlagsAgree, ClosedInOrder, NoStoreLeak, Closing
<1> QED
  BY RegistryInvariance, <1>1, PTL

(* Whoever reads or writes the store under Cache.mu finds it open.         *)
THEOREM StoreOpenWhileUsed == RegistrySpec => []NoUseAfterClose
<1>1. RegistryIInv => NoUseAfterClose
  BY DEF RegistryIInv, RegistryTypeOK, Placed, FlagsAgree, ReadersHaveStore, NoUseAfterClose,
     Places, Working
<1> QED
  BY RegistryInvariance, <1>1, PTL

(* A closed group is in the registry only while the goroutine that closed  *)
(* it has still to remove it (Group.Close of group.go).                    *)
THEOREM ClosedGroupsLeave == RegistrySpec => []NoClosedGroupLeft
<1>1. RegistryIInv => NoClosedGroupLeft
  BY DEF RegistryIInv
<1> QED
  BY RegistryInvariance, <1>1, PTL
=============================================================================
