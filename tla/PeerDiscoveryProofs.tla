------------------------- MODULE PeerDiscoveryProofs -------------------------
(***************************************************************************)
(* Safety of the ring and of discovery, for any number of nodes, any       *)
(* hashes, collisions included, and any history of registrations; and of a *)
(* node's registration, whose steps are such a history.                    *)
(***************************************************************************)
EXTENDS CacheCluster, WellFoundedInduction, TLAPS

-----------------------------------------------------------------------------
(* The ring.                                                               *)

LEMMA NewRingExact ==
    ASSUME NEW n
    PROVE  /\ Exact(Add(NewRing, n))
           /\ Members(Add(NewRing, n)) = {n}
           /\ Keys(Add(NewRing, n)) = VHash[n]
           /\ Add(NewRing, n).nodeHashes[n] = VHash[n]
BY DEF Exact, Add, NewRing, Members, Keys

LEMMA AddExact ==
    ASSUME NEW r, NEW n, Exact(r)
    PROVE  /\ Exact(Add(r, n))
           /\ Members(Add(r, n)) = Members(r) \cup {n}
           /\ \A m \in Members(r) : Add(r, n).nodeHashes[m] = r.nodeHashes[m]
BY DEF Exact, Add, Members, Keys

LEMMA RemoveExact ==
    ASSUME NEW r, NEW n \in Members(r), Exact(r)
    PROVE  /\ Exact(Remove(r, n))
           /\ Members(Remove(r, n)) = Members(r) \ {n}
           /\ \A m \in Members(r) \ {n} : Remove(r, n).nodeHashes[m] = r.nodeHashes[m]
BY DEF Exact, Remove, Members, Keys

LEMMA SmallestExists ==
    ASSUME NEW S \in SUBSET Nat, S # {}
    PROVE  \E k \in S : \A j \in S : k <= j
<1>1. PICK k \in S : \A j \in S : ~ (<<j, k>> \in OpToRel(<, Nat))
  BY NatLessThanWellFounded, WFMin
<1>2. \A j \in S : ~ (j < k)
  BY <1>1 DEF OpToRel
<1> QED
  BY <1>2

(* A ring with a virtual node gives every hash an owner that is a member.  *)
LEMMA OwnerIsMember ==
    ASSUME NEW r, NEW h \in Nat, Exact(r), Keys(r) \subseteq Nat, Keys(r) # {}
    PROVE  Owner(r, h) \in Members(r)
<1> DEFINE after == {k \in Keys(r) : k >= h}
           S == IF after = {} THEN Keys(r) ELSE after
           first == CHOOSE k \in S : \A j \in S : k <= j
<1>1. S \in SUBSET Nat /\ S # {} /\ S \subseteq Keys(r)
  OBVIOUS
<1>2. first \in S
  BY <1>1, SmallestExists
<1>3. Owner(r, h) = r.hashMap[first]
  BY DEF Owner
<1> QED
  BY <1>1, <1>2, <1>3 DEF Exact

-----------------------------------------------------------------------------
(* Who owns a hash, before and after a change of the ring.                 *)

(* Get ends at the virtual node k for a key that hashes to h.              *)
Hits(r, h, k) ==
    LET after == {j \in Keys(r) : j >= h}
        S == IF after = {} THEN Keys(r) ELSE after
    IN  k \in S /\ \A j \in S : k <= j

LEMMA OwnerHits ==
    ASSUME NEW r, NEW h \in Nat, Keys(r) \subseteq Nat, Keys(r) # {}
    PROVE  /\ \E k \in Keys(r) : Hits(r, h, k)
           /\ \A k \in Keys(r) : Hits(r, h, k) => Owner(r, h) = r.hashMap[k]
<1> DEFINE after == {k \in Keys(r) : k >= h}
           S == IF after = {} THEN Keys(r) ELSE after
           first == CHOOSE k \in S : \A j \in S : k <= j
<1>1. S \in SUBSET Nat /\ S # {} /\ S \subseteq Keys(r)
  OBVIOUS
<1>2. first \in S /\ \A j \in S : first <= j
  BY <1>1, SmallestExists
<1>3. Owner(r, h) = r.hashMap[first]
  BY DEF Owner
<1>4. \A k : Hits(r, h, k) <=> k \in S /\ \A j \in S : k <= j
  BY DEF Hits
<1> HIDE DEF first, S
<1>5. ASSUME NEW k, Hits(r, h, k) PROVE k = first
  <2>1. k \in Nat /\ first \in Nat /\ k <= first /\ first <= k
    BY <1>1, <1>2, <1>4, <1>5
  <2> QED
    BY <2>1
<1> QED
  BY <1>1, <1>2, <1>3, <1>4, <1>5

(* A virtual node that is hit still is, when others go.                    *)
LEMMA HitsAmongFewer ==
    ASSUME NEW r, NEW s, NEW h \in Nat, Keys(r) \subseteq Nat, Keys(s) \subseteq Keys(r),
           NEW k \in Keys(s), Hits(r, h, k)
    PROVE  Hits(s, h, k)
BY DEF Hits

(* The owner of h changes only from a node that leaves or to one that comes*)
Remaps(r, s, h) ==
    Owner(s, h) # Owner(r, h) =>
        Owner(r, h) \notin Members(s) \/ Owner(s, h) \notin Members(r)

LEMMA AddRemaps ==
    ASSUME NEW r, NEW n, NEW h \in Nat, Exact(r), Keys(r) \subseteq Nat, Keys(r) # {},
           Keys(Add(r, n)) \subseteq Nat
    PROVE  Remaps(r, Add(r, n), h)
<1> DEFINE s == Add(r, n)
<1>1. CASE n \in Members(r)
  BY <1>1 DEF Add, Remaps
<1>2. CASE n \notin Members(r)
  <2>1. /\ Keys(r) \subseteq Keys(s)
        /\ \A k \in Keys(r) : s.hashMap[k] = r.hashMap[k]
        /\ \A k \in Keys(s) \ Keys(r) : s.hashMap[k] = n
    BY <1>2 DEF Add, Keys
  <2> HIDE DEF s
  <2>2. PICK k \in Keys(s) : Hits(s, h, k) /\ Owner(s, h) = s.hashMap[k]
    BY <2>1, OwnerHits DEF s
  <2>3. CASE k \in Keys(r)
    <3>1. Hits(r, h, k)
      BY <2>1, <2>2, <2>3, HitsAmongFewer DEF s
    <3>2. Owner(r, h) = r.hashMap[k]
      BY <2>3, <3>1, OwnerHits
    <3> QED
      BY <2>1, <2>2, <2>3, <3>2 DEF Remaps, s
  <2>4. CASE k \notin Keys(r)
    BY <1>2, <2>1, <2>2, <2>4 DEF Remaps, s
  <2> QED
    BY <2>3, <2>4
<1> QED
  BY <1>1, <1>2

LEMMA RemoveRemaps ==
    ASSUME NEW r, NEW n \in Members(r), NEW h \in Nat, Exact(r), Keys(r) \subseteq Nat,
           Keys(Remove(r, n)) # {}
    PROVE  Remaps(r, Remove(r, n), h)
<1> DEFINE s == Remove(r, n)
<1>1. /\ Keys(s) = Keys(r) \ r.nodeHashes[n] /\ Members(s) = Members(r) \ {n}
      /\ \A k \in Keys(s) : s.hashMap[k] = r.hashMap[k]
      /\ \A k \in r.nodeHashes[n] : r.hashMap[k] = n
  BY DEF Remove, Keys, Members, Exact
<1> HIDE DEF s
<1>2. Keys(r) # {} /\ Keys(s) # {} /\ Keys(s) \subseteq Keys(r)
  BY <1>1 DEF s
<1>3. PICK k \in Keys(r) : Hits(r, h, k) /\ Owner(r, h) = r.hashMap[k]
  BY <1>2, OwnerHits
<1>4. CASE k \in Keys(s)
  <2>1. Hits(s, h, k)
    BY <1>2, <1>3, <1>4, HitsAmongFewer
  <2>2. Keys(s) \subseteq Nat
    BY <1>2
  <2>3. Owner(s, h) = s.hashMap[k]
    BY <1>2, <1>4, <2>1, <2>2, OwnerHits
  <2> QED
    BY <1>1, <1>3, <1>4, <2>3 DEF Remaps, s
<1>5. CASE k \notin Keys(s)
  BY <1>1, <1>3, <1>5 DEF Remaps, s
<1> QED
  BY <1>4, <1>5

-----------------------------------------------------------------------------
(* etcd.                                                                   *)

Events == [addr : Peers, put : BOOLEAN]
LogType == Seq(Events)

LEMMA ElementOfSeq ==
    ASSUME NEW S, NEW s \in Seq(S), NEW i \in Nat, i < Len(s)
    PROVE  s[i + 1] \in S
OBVIOUS

LEMMA EventType ==
    ASSUME log \in LogType, NEW i \in Nat, i < Len(log)
    PROVE  log[i + 1].addr \in Peers /\ log[i + 1].put \in BOOLEAN
<1>1. log[i + 1] \in Events
  BY ElementOfSeq DEF LogType
<1> QED
  BY <1>1 DEF Events

LEMMA PrefixKept ==
    ASSUME log \in LogType, NEW p \in Peers, NEW put \in BOOLEAN,
           log' = Append(log, [addr |-> p, put |-> put]),
           NEW i \in 0 .. Len(log)
    PROVE  RegisteredAt(i)' = RegisteredAt(i)
<1>1. \A j \in 1 .. i : log'[j] = log[j]
  BY DEF LogType, Events
<1>2. \A j \in 1 .. i : \A k \in j + 1 .. i : k \in 1 .. i
  OBVIOUS
<1>3. ASSUME NEW q \in Peers
      PROVE  q \in RegisteredAt(i)' <=> q \in RegisteredAt(i)
  BY <1>1, <1>2 DEF RegisteredAt
<1>4. RegisteredAt(i) \subseteq Peers /\ RegisteredAt(i)' \subseteq Peers
  BY DEF RegisteredAt
<1> QED
  BY <1>3, <1>4

LEMMA OneEventMore ==
    ASSUME log \in LogType, NEW i \in Nat, i < Len(log)
    PROVE  RegisteredAt(i + 1) =
               IF log[i + 1].put THEN RegisteredAt(i) \cup {log[i + 1].addr}
               ELSE RegisteredAt(i) \ {log[i + 1].addr}
<1>1. log[i + 1].addr \in Peers /\ log[i + 1].put \in BOOLEAN
  BY EventType
<1>2. ASSUME NEW p \in Peers, p # log[i + 1].addr
      PROVE  p \in RegisteredAt(i + 1) <=> p \in RegisteredAt(i)
  <2>1. ASSUME p \in RegisteredAt(i) PROVE p \in RegisteredAt(i + 1)
    <3>1. PICK j \in 1 .. i : /\ log[j].addr = p /\ log[j].put
                             /\ \A k \in j + 1 .. i : log[k].addr # p
      BY <2>1 DEF RegisteredAt
    <3>2. j \in 1 .. i + 1 /\ \A k \in j + 1 .. i + 1 : k = i + 1 \/ k \in j + 1 .. i
      OBVIOUS
    <3> QED
      BY <1>2, <3>1, <3>2 DEF RegisteredAt
  <2>2. ASSUME p \in RegisteredAt(i + 1) PROVE p \in RegisteredAt(i)
    <3>1. PICK j \in 1 .. i + 1 : /\ log[j].addr = p /\ log[j].put
                                 /\ \A k \in j + 1 .. i + 1 : log[k].addr # p
      BY <2>2 DEF RegisteredAt
    <3>2. j \in 1 .. i /\ \A k \in j + 1 .. i : k \in j + 1 .. i + 1
      BY <1>2, <3>1
    <3> QED
      BY <3>1, <3>2 DEF RegisteredAt
  <2> QED
    BY <2>1, <2>2
<1>3. log[i + 1].addr \in RegisteredAt(i + 1) <=> log[i + 1].put
  BY <1>1 DEF RegisteredAt
<1>4. RegisteredAt(i) \subseteq Peers /\ RegisteredAt(i + 1) \subseteq Peers
  BY DEF RegisteredAt
<1>5. CASE log[i + 1].put = TRUE
  BY <1>1, <1>2, <1>3, <1>4, <1>5
<1>6. CASE log[i + 1].put = FALSE
  BY <1>1, <1>2, <1>3, <1>4, <1>6
<1> QED
  BY <1>1, <1>5, <1>6
-----------------------------------------------------------------------------
(* The inductive invariant.                                                *)

(* The ring has this node, with all its virtual nodes, and the clients.    *)
OnRing ==
    /\ Exact(ring)
    /\ Members(ring) = clients \cup {Self}
    /\ ring.nodeHashes[Self] = VHash[Self]
    /\ Keys(ring) \subseteq Nat

Connected == life = "open" => open = clients

(* How much of the snapshot, or of the log, the clients reflect.           *)
UpToDate ==
    /\ pc \in {"fetched", "apply", "prune"} =>
           /\ rev # NoRev
           /\ snap = RegisteredAt(rev)
           /\ snap \ (todo \cup Unusable) \subseteq clients
    /\ pc = "prune" => todo = {}
    /\ pc \in {"fetched", "apply", "prune", "openWatch"} /\ rev # NoRev => rev <= Len(log)
    /\ pc = "openWatch" /\ rev # NoRev => clients = RegisteredAt(rev) \ Unusable
    /\ pc = "handle" => pos < Len(log)
    /\ FollowsEtcd

IInv == TypeOK /\ OnRing /\ Connected /\ UpToDate

LEMMA InitIInv == Init => IInv
<1> SUFFICES ASSUME Init PROVE IInv
  OBVIOUS
<1>1. TypeOK
  <2>1. log \in Seq([addr : Peers, put : BOOLEAN]) /\ pos \in 0 .. Len(log)
    BY DEF Init
  <2> QED
    BY <2>1 DEF Init, TypeOK, PCs, NoRev
<1>2. OnRing
  BY NewRingExact, HashAssumption, DiscoveryAssumption DEF Init, OnRing
<1>3. Connected /\ UpToDate
  BY DEF Init, Connected, UpToDate, FollowsEtcd
<1> QED
  BY <1>1, <1>2, <1>3 DEF IInv

LEMMA ConnectKeeps ==
    ASSUME IInv, NEW p \in Peers, Connect(p), UNCHANGED life
    PROVE  /\ OnRing' /\ Connected'
           /\ clients' = clients \cup ({p} \ Unusable)
           /\ open' \subseteq Peers
<1>1. CASE p \in clients \cup Unusable
  BY <1>1 DEF IInv, TypeOK, OnRing, Connected, Connect, peerVars
<1>2. CASE p \notin clients \cup Unusable
  <2>1. Self \in Members(ring) /\ Exact(ring)
    BY DEF IInv, OnRing
  <2>2. ring' = Add(ring, p) /\ clients' = clients \cup {p} /\ open' = open \cup {p}
    BY <1>2 DEF Connect
  <2>3. /\ Exact(ring') /\ Members(ring') = Members(ring) \cup {p}
        /\ ring'.nodeHashes[Self] = ring.nodeHashes[Self]
    BY <2>1, <2>2, AddExact
  <2>4. Keys(ring') \subseteq Keys(ring) \cup VHash[p]
    BY <2>2 DEF Add, Keys
  <2>5. VHash[p] \subseteq Nat
    BY HashAssumption DEF Peers
  <2> QED
    BY <1>2, <2>2, <2>3, <2>4, <2>5 DEF IInv, TypeOK, OnRing, Connected
<1> QED
  BY <1>1, <1>2

LEMMA DisconnectKeeps ==
    ASSUME IInv, NEW p \in Peers, Disconnect(p), UNCHANGED life
    PROVE  /\ OnRing' /\ Connected'
           /\ clients' = clients \ {p}
           /\ open' \subseteq Peers
<1>1. CASE p \notin clients
  BY <1>1 DEF IInv, TypeOK, OnRing, Connected, Disconnect, peerVars
<1>2. CASE p \in clients
  <2>1. p \in Members(ring) /\ p # Self /\ Self \in Members(ring) /\ Exact(ring)
    BY <1>2 DEF IInv, OnRing, Peers
  <2>2. ring' = Remove(ring, p) /\ clients' = clients \ {p} /\ open' = open \ {p}
    BY <1>2 DEF Disconnect
  <2>3. /\ Exact(ring') /\ Members(ring') = Members(ring) \ {p}
        /\ ring'.nodeHashes[Self] = ring.nodeHashes[Self]
    BY <2>1, <2>2, RemoveExact
  <2>4. Keys(ring') \subseteq Keys(ring)
    BY <2>2 DEF Remove, Keys
  <2> QED
    BY <1>2, <2>1, <2>2, <2>3, <2>4 DEF IInv, TypeOK, OnRing, Connected
<1> QED
  BY <1>1, <1>2

(* The steps that leave clients, ring and connections alone.               *)
LEMMA PeersKept ==
    ASSUME IInv, UNCHANGED <<clients, ring>>,
           life' = "open" => life = "open" /\ open' = open
    PROVE  OnRing' /\ Connected'
BY DEF IInv, OnRing, Connected

LEMMA StepIInv == IInv /\ [Next]_vars => IInv'
<1> SUFFICES ASSUME IInv, [Next]_vars PROVE IInv'
  OBVIOUS
<1> USE DEF PCs, NoRev
<1>1. ASSUME NEW p \in Peers, NEW put \in BOOLEAN, Happens(p, put) PROVE IInv'
  <2>1. TypeOK'
    BY <1>1 DEF Happens, IInv, TypeOK, goVars, peerVars
  <2>2. \A i \in 0 .. Len(log) : RegisteredAt(i)' = RegisteredAt(i)
    BY <1>1, PrefixKept DEF Happens, IInv, TypeOK, LogType, Events
  <2>3. Len(log') = Len(log) + 1 /\ Len(log) \in Nat
    BY <1>1 DEF Happens, IInv, TypeOK
  <2>4. UpToDate'
    BY <1>1, <2>2, <2>3
       DEF Happens, IInv, TypeOK, UpToDate, FollowsEtcd, goVars, peerVars
  <2> QED
    BY <1>1, <2>1, <2>4, PeersKept DEF Happens, IInv, peerVars
<1>2. CASE Fetch
  <2>1. Registered \subseteq Peers /\ Len(log) \in Nat
    BY DEF Registered, RegisteredAt, IInv, TypeOK
  <2>2. TypeOK' /\ UpToDate'
    BY <1>2, <2>1 DEF Fetch, Goto, IInv, TypeOK, UpToDate, FollowsEtcd, peerVars,
                      Registered, RegisteredAt
  <2> QED
    BY <1>2, <2>2, PeersKept DEF Fetch, IInv, peerVars
<1>3. CASE FetchFails
  <2>1. TypeOK' /\ UpToDate'
    BY <1>3 DEF FetchFails, Goto, IInv, TypeOK, UpToDate, FollowsEtcd, peerVars
  <2> QED
    BY <1>3, <2>1, PeersKept DEF FetchFails, IInv, peerVars
<1>4. ASSUME NEW p \in Peers, ApplyOne(p) PROVE IInv'
  <2>1. /\ OnRing' /\ Connected' /\ open' \subseteq Peers
        /\ clients' = clients \cup ({p} \ Unusable)
    BY <1>4, ConnectKeeps DEF ApplyOne
  <2>2. TypeOK'
    BY <1>4, <2>1 DEF ApplyOne, IInv, TypeOK
  <2>3. UpToDate'
    BY <1>4, <2>1 DEF ApplyOne, IInv, TypeOK, UpToDate, FollowsEtcd, RegisteredAt
  <2> QED
    BY <2>1, <2>2, <2>3 DEF IInv
<1>5. ASSUME NEW p \in Peers, PruneOne(p) PROVE IInv'
  <2>1. /\ OnRing' /\ Connected' /\ open' \subseteq Peers
        /\ clients' = clients \ {p}
    BY <1>5, DisconnectKeeps DEF PruneOne, goVars
  <2>2. TypeOK'
    BY <1>5, <2>1 DEF PruneOne, IInv, TypeOK, goVars
  <2>3. UpToDate'
    BY <1>5, <2>1 DEF PruneOne, IInv, TypeOK, UpToDate, FollowsEtcd, goVars, RegisteredAt
  <2> QED
    BY <2>1, <2>2, <2>3 DEF IInv
<1>6. CASE LockForResync \/ ApplyEnd
  <2>1. TypeOK' /\ UpToDate'
    BY <1>6 DEF LockForResync, ApplyEnd, Goto, IInv, TypeOK, UpToDate, FollowsEtcd, peerVars, RegisteredAt
  <2> QED
    BY <1>6, <2>1, PeersKept DEF LockForResync, ApplyEnd, IInv, peerVars
<1>7. CASE PruneEnd
  <2>1. clients = snap \ Unusable /\ snap = RegisteredAt(rev)
    BY <1>7 DEF PruneEnd, IInv, TypeOK, UpToDate
  <2>2. TypeOK' /\ UpToDate'
    BY <1>7, <2>1
       DEF PruneEnd, Goto, IInv, TypeOK, UpToDate, FollowsEtcd, peerVars, RegisteredAt
  <2> QED
    BY <1>7, <2>2, PeersKept DEF PruneEnd, IInv, peerVars
<1>8. CASE OpenWatch
  <2>1. TypeOK' /\ UpToDate'
    BY <1>8
       DEF OpenWatch, Goto, IInv, TypeOK, UpToDate, FollowsEtcd, peerVars, RegisteredAt
  <2> QED
    BY <1>8, <2>1, PeersKept DEF OpenWatch, IInv, peerVars
<1>9. CASE Receive
  <2>1. TypeOK' /\ UpToDate'
    BY <1>9
       DEF Receive, Goto, IInv, TypeOK, UpToDate, FollowsEtcd, peerVars, RegisteredAt
  <2> QED
    BY <1>9, <2>1, PeersKept DEF Receive, IInv, peerVars
<1>10. CASE Handle
  <2> DEFINE p == log[pos + 1].addr
  <2>1. pos \in Nat /\ pos < Len(log) /\ log \in LogType /\ p \in Peers
    <3>1. pos \in Nat /\ pos < Len(log) /\ log \in LogType
      BY <1>10 DEF Handle, IInv, TypeOK, UpToDate, LogType, Events
    <3> QED
      BY <3>1, EventType
  <2>2. RegisteredAt(pos + 1) = IF log[pos + 1].put THEN RegisteredAt(pos) \cup {p}
                                ELSE RegisteredAt(pos) \ {p}
    BY <2>1, OneEventMore
  <2>3. /\ OnRing' /\ Connected' /\ open' \subseteq Peers
        /\ clients' = IF log[pos + 1].put THEN clients \cup ({p} \ Unusable)
                      ELSE clients \ {p}
    <3>1. CASE log[pos + 1].put
      <4>1. Connect(p) /\ life' = life
        BY <1>10, <3>1 DEF Handle
      <4> QED
        BY <2>1, <3>1, <4>1, ConnectKeeps
    <3>2. CASE ~log[pos + 1].put
      <4>1. Disconnect(p) /\ life' = life
        BY <1>10, <3>2 DEF Handle
      <4> QED
        BY <2>1, <3>2, <4>1, DisconnectKeeps
    <3> QED
      BY <3>1, <3>2
  <2>4. TypeOK'
    BY <1>10, <2>1, <2>3 DEF Handle, Goto, IInv, TypeOK
  <2>5. rev # NoRev => clients = RegisteredAt(pos) \ Unusable
    BY <1>10 DEF Handle, IInv, UpToDate, FollowsEtcd
  <2>6. rev # NoRev => clients' = RegisteredAt(pos + 1) \ Unusable
    BY <2>2, <2>3, <2>5
  <2>7. /\ log' = log /\ pos' = pos + 1 /\ rev' = rev /\ pc' = "watch"
    BY <1>10 DEF Handle, Goto
  <2>8. RegisteredAt(pos)' = RegisteredAt(pos + 1)
    BY <2>7 DEF RegisteredAt
  <2>9. UpToDate'
    BY <2>6, <2>7, <2>8 DEF UpToDate, FollowsEtcd
  <2> QED
    BY <2>3, <2>4, <2>9 DEF IInv
<1>11. CASE WatchBreaks \/ WakeUp \/ End
  <2>1. TypeOK' /\ UpToDate'
    BY <1>11
       DEF WatchBreaks, WakeUp, End, Goto, IInv, TypeOK, UpToDate, FollowsEtcd, peerVars
  <2> QED
    BY <1>11, <2>1, PeersKept DEF WatchBreaks, WakeUp, End, IInv, peerVars
<1>12. CASE Cancel \/ CloseClients
  <2>1. TypeOK'
    BY <1>12 DEF Cancel, CloseClients, IInv, TypeOK, goVars, peerVars
  <2>2. UNCHANGED <<log, goVars, clients>>
    BY <1>12 DEF Cancel, CloseClients, peerVars
  <2>3. UpToDate'
    BY <2>2 DEF IInv, UpToDate, FollowsEtcd, goVars, RegisteredAt
  <2> QED
    BY <1>12, <2>1, <2>3, PeersKept DEF Cancel, CloseClients, IInv, peerVars
<1>13. CASE UNCHANGED vars
  <2>1. TypeOK' /\ UpToDate'
    BY <1>13
       DEF vars, goVars, peerVars, IInv, TypeOK, UpToDate, FollowsEtcd, RegisteredAt
  <2> QED
    BY <1>13, <2>1, PeersKept DEF vars, peerVars, IInv
<1> QED
  BY <1>1, <1>2, <1>3, <1>4, <1>5, <1>6, <1>7, <1>8, <1>9, <1>10, <1>11, <1>12, <1>13
     DEF Next, Discover

THEOREM Invariance == Spec => []IInv
BY InitIInv, StepIInv, PTL DEF Spec

(* Type correctness of discovery (peers.go).                               *)
THEOREM TypeCorrect == Spec => []TypeOK
<1>1. IInv => TypeOK
  BY DEF IInv
<1> QED
  BY Invariance, <1>1, PTL

(* The two maps of the ring agree whatever nodes come and go, and whatever *)
(* virtual nodes collide (consistent_hash.go).                             *)
THEOREM RingStaysExact == Spec => []RingExact
<1>1. IInv => RingExact
  BY DEF IInv, OnRing, RingExact
<1> QED
  BY Invariance, <1>1, PTL

(* PickPeer always has an answer: this node or a connected client          *)
(* (PickPeer of peers.go, Get of consistent_hash.go).                      *)
THEOREM EveryKeyHasAnOwner == Spec => []PickPeerAnswers
<1>1. IInv => PickPeerAnswers
  <2> SUFFICES ASSUME IInv PROVE PickPeerAnswers
    OBVIOUS
  <2>1. Keys(ring) # {}
    BY DiscoveryAssumption DEF IInv, OnRing, Exact
  <2>2. \A h \in Hashes : Owner(ring, h) \in Members(ring)
    BY <2>1, OwnerIsMember, HashAssumption DEF IInv, OnRing
  <2> QED
    BY <2>2 DEF IInv, OnRing, Connected, PickPeerAnswers
<1> QED
  BY Invariance, <1>1, PTL

(* A watch that follows a snapshot misses nothing: the clients are the     *)
(* nodes registered at the revision it has reached (fetchAllServices,      *)
(* watchOnce).                                                             *)
THEOREM WatchFollowsEtcd == Spec => []FollowsEtcd
<1>1. IInv => FollowsEtcd
  BY DEF IInv, UpToDate
<1> QED
  BY Invariance, <1>1, PTL

LEMMA RingStep ==
    ASSUME IInv, [Next]_vars
    PROVE  \/ ring' = ring
           \/ \E p \in Peers : ring' = Add(ring, p)
           \/ \E p \in Members(ring) : ring' = Remove(ring, p)
<1>1. ASSUME NEW p \in Peers, Connect(p)
      PROVE  ring' = ring \/ ring' = Add(ring, p)
  BY <1>1 DEF Connect, peerVars
<1>2. ASSUME NEW p \in Peers, Disconnect(p)
      PROVE  ring' = ring \/ (p \in Members(ring) /\ ring' = Remove(ring, p))
  BY <1>2 DEF Disconnect, peerVars, IInv, OnRing
<1>3. ASSUME NEW p \in Peers, ApplyOne(p)
      PROVE  ring' = ring \/ ring' = Add(ring, p)
  BY <1>1, <1>3 DEF ApplyOne
<1>4. ASSUME NEW p \in Peers, PruneOne(p)
      PROVE  ring' = ring \/ (p \in Members(ring) /\ ring' = Remove(ring, p))
  BY <1>2, <1>4 DEF PruneOne
<1>5. CASE Handle
  <2> DEFINE p == log[pos + 1].addr
  <2>1. p \in Peers
    <3>1. pos \in Nat /\ pos < Len(log) /\ log \in LogType
      BY <1>5 DEF Handle, IInv, TypeOK, UpToDate, LogType, Events
    <3> QED
      BY <3>1, EventType
  <2>2. Connect(p) \/ Disconnect(p)
    BY <1>5 DEF Handle
  <2> HIDE DEF p
  <2> QED
    BY <1>1, <1>2, <2>1, <2>2
<1>6. ASSUME Fetch \/ FetchFails \/ LockForResync \/ ApplyEnd \/ PruneEnd \/ OpenWatch \/ Receive
             \/ WakeUp \/ End \/ WatchBreaks \/ Cancel \/ CloseClients \/ UNCHANGED vars
             \/ \E p \in Peers, put \in BOOLEAN : Happens(p, put)
      PROVE  ring' = ring
  BY <1>6 DEF Fetch, FetchFails, LockForResync, ApplyEnd, PruneEnd, OpenWatch, Receive, WakeUp,
              End, WatchBreaks, Cancel, CloseClients, Happens, vars, peerVars
<1> QED
  BY <1>3, <1>4, <1>5, <1>6 DEF Next, Discover

(* A node that comes takes keys to itself and from nobody to a third, and  *)
(* one that leaves gives away only its own, whatever virtual nodes collide *)
(* and whatever order the members came in (consistent_hash.go).            *)
THEOREM KeysStayPut == Spec => MinimalRemapping
<1> DEFINE A == \A h \in Hashes : Remaps(ring, ring', h)
<1>1. IInv => Keys(ring) # {} /\ Keys(ring) \subseteq Nat /\ Exact(ring)
  BY DiscoveryAssumption DEF IInv, OnRing, Exact
<1>2. IInv' => Keys(ring') # {} /\ Keys(ring') \subseteq Nat
  BY DiscoveryAssumption DEF IInv, OnRing, Exact, Keys, Members
<1>3. IInv /\ IInv' /\ [Next]_vars => A
  <2> SUFFICES ASSUME IInv, IInv', [Next]_vars, NEW h \in Hashes
               PROVE  Remaps(ring, ring', h)
    OBVIOUS
  <2>1. h \in Nat
    BY HashAssumption
  <2>2. CASE ring' = ring
    BY <2>2 DEF Remaps
  <2>3. ASSUME NEW p \in Peers, ring' = Add(ring, p) PROVE Remaps(ring, ring', h)
    BY <1>1, <1>2, <2>1, <2>3, AddRemaps
  <2>4. ASSUME NEW p \in Members(ring), ring' = Remove(ring, p) PROVE Remaps(ring, ring', h)
    BY <1>1, <1>2, <2>1, <2>4, RemoveRemaps
  <2> QED
    BY <2>2, <2>3, <2>4, RingStep
<1>4. IInv /\ [Next]_vars => IInv'
  BY StepIInv
<1>5. A <=> (\A h \in Hashes :
                Owner(ring, h)' # Owner(ring, h) =>
                    \/ Owner(ring, h) \notin Members(ring')
                    \/ Owner(ring, h)' \notin Members(ring))
  BY DEF Remaps
<1> HIDE DEF A
<1> QED
  BY InitIInv, <1>3, <1>4, <1>5, PTL DEF Spec, MinimalRemapping

-----------------------------------------------------------------------------
(* The cluster: what a node does to register itself is a history of        *)
(* discovery.                                                              *)

LEMMA ClusterStep == [ClusterNext]_<<vars, regVars>> => [Next]_vars
<1> SUFFICES ASSUME [ClusterNext]_<<vars, regVars>> PROVE [Next]_vars
  OBVIOUS
<1>1. CASE NodeStep
  BY <1>1, ClusterAssumption DEF NodeStep, Next
<1>2. CASE OtherStep
  BY <1>2 DEF OtherStep, Next
<1>3. CASE (Discover \/ WatchBreaks \/ Cancel \/ CloseClients) /\ UNCHANGED regVars
  BY <1>3 DEF Next
<1>4. CASE UNCHANGED <<vars, regVars>>
  BY <1>4
<1> QED
  BY <1>1, <1>2, <1>3, <1>4 DEF ClusterNext

(* Every behaviour of the cluster is one of discovery, so that what is     *)
(* proved of discovery holds while the node registers, loses its lease,    *)
(* registers again and stops (register.go, peers.go).                      *)
THEOREM ClusterIsDiscovery == ClusterSpec => Spec
<1>1. ClusterInit => Init
  BY DEF ClusterInit
<1> QED
  BY <1>1, ClusterStep, PTL DEF ClusterSpec, Spec

LEMMA EventRegisters ==
    ASSUME log \in LogType, NEW p \in Peers, NEW put \in BOOLEAN,
           log' = Append(log, [addr |-> p, put |-> put])
    PROVE  /\ p \in Registered' <=> put
           /\ \A q \in Peers \ {p} : q \in Registered' <=> q \in Registered
<1> DEFINE n == Len(log)
<1>1. /\ n \in Nat /\ Len(log') = n + 1
      /\ log'[n + 1].addr = p /\ log'[n + 1].put = put
      /\ \A j \in 1 .. n : log'[j] = log[j]
  BY DEF LogType, Events
<1>2. p \in Registered' <=> put
  <2>1. n + 1 \in 1 .. n + 1 /\ \A k \in n + 2 .. n + 1 : FALSE
    BY <1>1
  <2>2. ASSUME put PROVE p \in Registered'
    BY <1>1, <2>1, <2>2 DEF Registered, RegisteredAt
  <2>3. ASSUME p \in Registered' PROVE put
    <3>1. PICK j \in 1 .. n + 1 : /\ log'[j].addr = p /\ log'[j].put
                                 /\ \A k \in j + 1 .. n + 1 : log'[k].addr # p
      BY <1>1, <2>3 DEF Registered, RegisteredAt
    <3>2. j = n + 1
      BY <1>1, <3>1
    <3> QED
      BY <1>1, <3>1, <3>2
  <2> QED
    BY <2>2, <2>3
<1>3. ASSUME NEW q \in Peers \ {p} PROVE q \in Registered' <=> q \in Registered
  <2>1. ASSUME q \in Registered PROVE q \in Registered'
    <3>1. PICK j \in 1 .. n : /\ log[j].addr = q /\ log[j].put
                             /\ \A k \in j + 1 .. n : log[k].addr # q
      BY <2>1 DEF Registered, RegisteredAt
    <3>2. j \in 1 .. n + 1 /\ \A k \in j + 1 .. n + 1 : k = n + 1 \/ k \in j + 1 .. n
      BY <1>1
    <3>3. \A k \in j + 1 .. n + 1 : log'[k].addr # q
      BY <1>1, <1>3, <3>1, <3>2
    <3> QED
      BY <1>1, <3>1, <3>2, <3>3 DEF Registered, RegisteredAt
  <2>2. ASSUME q \in Registered' PROVE q \in Registered
    <3>1. PICK j \in 1 .. n + 1 : /\ log'[j].addr = q /\ log'[j].put
                                 /\ \A k \in j + 1 .. n + 1 : log'[k].addr # q
      BY <1>1, <2>2 DEF Registered, RegisteredAt
    <3>2. j \in 1 .. n /\ \A k \in j + 1 .. n : k \in j + 1 .. n + 1 /\ k \in 1 .. n
      BY <1>1, <1>3, <3>1
    <3> QED
      BY <1>1, <3>1, <3>2 DEF Registered, RegisteredAt
  <2> QED
    BY <2>1, <2>2
<1> QED
  BY <1>2, <1>3

(* The node's key is what etcd has of it, and the goroutine's own lease is *)
(* the newest one, which the key is on unless it has run out.              *)
KeyInLog == key # 0 <=> Node \in Registered

NewestLease ==
    /\ node = "put" => leases > 0
    /\ node \in {"keep", "run"} /\ leases \in live => key = leases
    /\ node = "run" => mine = leases

RInv == RegTypeOK /\ KeyInLog /\ NewestLease

LEMMA InitRInv == ClusterInit => RInv
<1> SUFFICES ASSUME ClusterInit PROVE RInv
  OBVIOUS
<1>1. Registered = {}
  BY DEF ClusterInit, Init, Registered, RegisteredAt
<1>2. RegInit
  BY DEF ClusterInit
<1>3. RegTypeOK /\ NewestLease
  <2>1. 0 \in 0 .. MaxLeases /\ 0 \in 0 .. 0
    BY RegistrationAssumption
  <2>2. RegTypeOK
    BY <1>2, <2>1 DEF RegInit, RegTypeOK
  <2> QED
    BY <1>2, <2>2 DEF RegInit, NewestLease
<1>4. KeyInLog
  BY <1>1, <1>2 DEF RegInit, KeyInLog
<1> QED
  BY <1>3, <1>4 DEF RInv

(* What the node does to its own variables, whatever etcd makes of it.     *)
LEMMA NodeTypes ==
    ASSUME RegTypeOK, NewestLease, Quiet \/ Put \/ Deletes
    PROVE  RegTypeOK' /\ NewestLease'
<1> USE RegistrationAssumption DEF RegTypeOK, NewestLease
<1>1. CASE Register \/ StopNode \/ GrantFails \/ PutFails \/ KeepAliveFails
  BY <1>1 DEF Register, StopNode, GrantFails, PutFails, KeepAliveFails, Fails
<1>2. CASE Grant
  BY <1>2 DEF Grant, Fails
<1>3. CASE KeepAlive
  BY <1>3 DEF KeepAlive
<1>4. CASE ChannelCloses \/ Resume \/ RevokeFails
  BY <1>4 DEF ChannelCloses, Resume, RevokeFails
<1>5. CASE Put
  BY <1>5 DEF Put, Fails
<1>6. CASE Revoke
  BY <1>6 DEF Revoke, Drop
<1>7. ASSUME NEW id \in live, Expire(id) PROVE RegTypeOK' /\ NewestLease'
  BY <1>7 DEF Expire, Drop
<1> QED
  BY <1>1, <1>2, <1>3, <1>4, <1>5, <1>6, <1>7 DEF Quiet, Deletes

LEMMA StepRInv == log \in LogType /\ RInv /\ [ClusterNext]_<<vars, regVars>> => RInv'
<1> SUFFICES ASSUME log \in LogType, RInv, [ClusterNext]_<<vars, regVars>> PROVE RInv'
  OBVIOUS
<1> USE ClusterAssumption
<1>1. ASSUME Quiet, UNCHANGED vars PROVE RInv'
  <2>1. RegTypeOK' /\ NewestLease'
    BY <1>1, NodeTypes DEF RInv
  <2>2. UNCHANGED <<key, log>>
    BY <1>1 DEF vars, Quiet, Register, StopNode, Grant, GrantFails, PutFails, KeepAlive,
                KeepAliveFails, ChannelCloses, Resume, RevokeFails
  <2>3. KeyInLog'
    BY <2>2 DEF RInv, KeyInLog, Registered, RegisteredAt
  <2> QED
    BY <2>1, <2>3 DEF RInv
<1>2. ASSUME Put, Happens(Node, TRUE) PROVE RInv'
  <2>1. RegTypeOK' /\ NewestLease'
    BY <1>2, NodeTypes DEF RInv
  <2>2. key' # 0
    BY <1>2 DEF Put, RInv, RegTypeOK
  <2>3. Node \in Registered'
    BY <1>2, EventRegisters DEF Happens
  <2> QED
    BY <2>1, <2>2, <2>3 DEF RInv, KeyInLog
<1>3. ASSUME Deletes, IF key' = key THEN UNCHANGED vars ELSE Happens(Node, FALSE)
      PROVE  RInv'
  <2>1. RegTypeOK' /\ NewestLease'
    BY <1>3, NodeTypes DEF RInv
  <2>2. CASE key' = key
    <3>1. log' = log
      BY <1>3, <2>2 DEF vars
    <3>2. KeyInLog'
      BY <2>2, <3>1 DEF RInv, KeyInLog, Registered, RegisteredAt
    <3> QED
      BY <2>1, <3>2 DEF RInv
  <2>3. CASE key' # key
    <3>1. key' = 0
      BY <1>3, <2>3 DEF Deletes, Revoke, Expire, Drop
    <3>2. Node \notin Registered'
      BY <1>3, <2>3, EventRegisters DEF Happens
    <3> QED
      BY <2>1, <3>1, <3>2 DEF RInv, KeyInLog
  <2> QED
    BY <2>2, <2>3
<1>4. CASE OtherStep
  <2>1. PICK p \in Peers \ {Node}, put \in BOOLEAN : Happens(p, put)
    BY <1>4 DEF OtherStep
  <2>2. Node \in Registered' <=> Node \in Registered
    BY <2>1, EventRegisters DEF Happens
  <2> QED
    BY <1>4, <2>2 DEF OtherStep, regVars, RInv, RegTypeOK, KeyInLog, NewestLease
<1>5. ASSUME UNCHANGED regVars, log' = log PROVE RInv'
  BY <1>5 DEF regVars, RInv, RegTypeOK, KeyInLog, NewestLease, Registered, RegisteredAt
<1>6. ASSUME Discover \/ WatchBreaks \/ Cancel \/ CloseClients PROVE log' = log
  BY <1>6 DEF Discover, Fetch, FetchFails, ApplyOne, PruneOne, LockForResync, ApplyEnd,
              PruneEnd, OpenWatch, Receive, Handle, WakeUp, End, WatchBreaks, Cancel,
              CloseClients
<1>7. CASE UNCHANGED <<vars, regVars>>
  BY <1>5, <1>7 DEF vars
<1> QED
  BY <1>1, <1>2, <1>3, <1>4, <1>5, <1>6, <1>7 DEF ClusterNext, NodeStep

THEOREM ClusterInvariance == ClusterSpec => [](IInv /\ RInv)
<1>1. IInv => log \in LogType
  BY DEF IInv, TypeOK, LogType, Events
<1>2. ClusterSpec => []IInv
  BY ClusterIsDiscovery, Invariance, PTL
<1>3. IInv /\ RInv /\ [ClusterNext]_<<vars, regVars>> => RInv'
  BY <1>1, StepRInv
<1> QED
  BY <1>2, <1>3, InitRInv, PTL DEF ClusterSpec

(* While a lease that etcd has is kept alive, the node is registered and   *)
(* its key is on that lease, whatever attempts failed before (registerLease *)
(* and the loop of Register).                                              *)
THEOREM KeptLeaseRegisters == ClusterSpec => []RunsRegistered
<1>1. RInv => RunsRegistered
  <2> SUFFICES ASSUME RInv, node = "run", mine \in live
               PROVE  key = mine /\ Node \in Registered
    BY DEF RunsRegistered
  <2>1. key = mine /\ mine # 0
    BY DEF RInv, RegTypeOK, NewestLease
  <2> QED
    BY <2>1 DEF RInv, KeyInLog
<1> QED
  BY ClusterInvariance, <1>1, PTL
=============================================================================
