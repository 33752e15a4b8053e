-------------------------- MODULE RpcClientProofs --------------------------
(***************************************************************************)
(* Safety of a client's connections, for any callers, addresses and        *)
(* history of the registry.                                                *)
(***************************************************************************)
EXTENDS RpcClient, FiniteSetTheorems, NaturalsInduction, WellFoundedInduction, TLAPS

(* TypeOK in three parts: the calls, the registry, the pools.              *)
CallTypes ==
    /\ mode \in {"static", "registry"}
    /\ pc \in [Callers -> PCs] /\ addr \in [Callers -> Addrs]

RegTypes ==
    /\ outer \subseteq Callers /\ pend \in Callers \cup {Watcher, None}
    /\ known \in BOOLEAN /\ cache \subseteq Addrs
    /\ watch \in {"none", "start", "open", "apply", "ended"}
    /\ missed \in BOOLEAN /\ ended \in BOOLEAN
    /\ etcd \subseteq Addrs /\ changes \in 0 .. MaxChanges

EventTypes ==
    /\ events \in Seq(Addrs \X BOOLEAN)
    /\ watch = "apply" => events # <<>>

PoolTypes ==
    /\ pools \subseteq Addrs /\ due \subseteq Addrs
    /\ closed \in [Addrs -> BOOLEAN] /\ conn \in [Addrs -> {"none", "live", "dead"}]
    /\ lock \in [Addrs -> Callers \cup {None}]
    /\ sockets \in [Addrs -> Nat]
    /\ closer \in {"no", "range", "done"}

(* A pool counts its connection; one that is closed has none.              *)
Counted ==
    \A a \in Addrs :
        /\ sockets[a] = IF conn[a] = "live" THEN 1 ELSE 0
        /\ closed[a] => conn[a] # "live"

(* Who dials holds the pool's mutex, and has found it open and without a   *)
(* live connection.                                                        *)
Dialling ==
    \A c \in Callers :
        pc[c] = "dial" => /\ lock[addr[c]] = c
                          /\ ~closed[addr[c]] /\ conn[addr[c]] # "live"

(* In static mode there is one pool, and Close finds it.                   *)
OnePool ==
    mode = "static" =>
        /\ pools = {Target} /\ due \subseteq {Target}
        /\ \A c \in Callers : pc[c] \in {"idle", "acquire", "dial"} /\ addr[c] = Target
        /\ \A a \in Addrs \ {Target} : conn[a] # "live"
        /\ closer # "no" => due = {Target} \/ closed[Target]
        /\ closer = "done" => due = {}

PoolInv == PoolTypes /\ Counted /\ Dialling /\ OnePool

(* Events come to an open watch only, and only a known service is watched. *)
Watched ==
    /\ watch \notin {"open", "apply"} => events = <<>>
    /\ ~known => watch = "none"

FollowInv == Watched /\ CacheFollowsEtcd

(* Who writes the registry, or waits to, is known to pend: one at a time.  *)
(* Who asks etcd has found the service missing with the lock in hand.      *)
Writers ==
    /\ \A c \in Callers : pc[c] \in {"initLocked", "get"} => pend = c
    /\ \A c \in Callers : pc[c] = "get" => ~known /\ outer = {}
    /\ watch = "apply" => pend = Watcher

IInv == CallTypes /\ RegTypes /\ EventTypes /\ FollowInv /\ Writers /\ PoolInv

LEMMA TypesAreTypes == IInv => TypeOK
BY DEF IInv, PoolInv, CallTypes, RegTypes, EventTypes, PoolTypes, TypeOK

LEMMA InitIInv == Init => IInv
<1> SUFFICES ASSUME Init PROVE IInv
  OBVIOUS
<1> USE ClientAssumption
<1>1. CallTypes
  BY DEF Init, CallTypes, PCs
<1>2. RegTypes
  <2>1. 0 \in 0 .. MaxChanges
    OBVIOUS
  <2> QED
    BY <2>1 DEF Init, RegTypes
<1>3. EventTypes
  BY DEF Init, EventTypes
<1>4. PoolTypes
  BY DEF Init, PoolTypes
<1>5. Counted /\ Dialling /\ OnePool
  BY DEF Init, Counted, Dialling, OnePool
<1>6. FollowInv
  BY DEF Init, FollowInv, Watched, CacheFollowsEtcd
<1>7. Writers
  BY DEF Init, Writers
<1> QED
  BY <1>1, <1>2, <1>3, <1>4, <1>5, <1>6, <1>7 DEF IInv, PoolInv

-----------------------------------------------------------------------------
(* What the events still to be applied make of a set: without an event     *)
(* nothing; an event that arrives last acts on the outcome (etcd's step);  *)
(* one that is applied first changes nothing in it (the watch's step).     *)

LEMMA AppliedNone ==
    ASSUME NEW set \in SUBSET Addrs PROVE Applied(set, <<>>) = set
<1>1. ASSUME NEW es, Len(es) = 0 PROVE Applied(set, es) = set
  BY <1>1 DEF Applied
<1> QED
  BY <1>1

LEMMA AppliedLast ==
    ASSUME NEW set \in SUBSET Addrs, NEW es \in Seq(Addrs \X BOOLEAN),
           NEW e \in Addrs \X BOOLEAN
    PROVE  Applied(set, Append(es, e)) = After(Applied(set, es), e)
<1> DEFINE fs == Append(es, e)
<1>0. PICK a \in Addrs, there \in BOOLEAN : e = <<a, there>>
  OBVIOUS
<1>1. ASSUME NEW b \in Addrs
      PROVE  b \in Applied(set, fs) <=>
                 (b = a /\ there) \/ (b \in Applied(set, es) /\ (b = a => there))
  <2> DEFINE n == Len(es)
             From(i) == IF i = 0 THEN b \in set ELSE es[i] = <<b, TRUE>>
             Out(i) == es[i] = <<b, FALSE>>
             FromF(i) == IF i = 0 THEN b \in set ELSE fs[i] = <<b, TRUE>>
             OutF(i) == fs[i] = <<b, FALSE>>
  <2>1. n \in Nat /\ Len(fs) = n + 1 /\ fs[n + 1] = <<a, there>>
    BY <1>0
  <2>2. \A i \in 1 .. n : fs[i] = es[i]
    OBVIOUS
  <2>3. b \in Applied(set, es) <=> \E i \in 0 .. n : From(i) /\ \A j \in i + 1 .. n : ~Out(j)
    BY DEF Applied
  <2>4. b \in Applied(set, fs) <=>
            \E i \in 0 .. n + 1 : FromF(i) /\ \A j \in i + 1 .. n + 1 : ~OutF(j)
    BY <2>1 DEF Applied
  <2>5. /\ \A i \in 1 .. n : (FromF(i) <=> From(i)) /\ (OutF(i) <=> Out(i))
        /\ FromF(0) <=> From(0)
    BY <2>2
  <2>6. (FromF(n + 1) <=> b = a /\ there) /\ (OutF(n + 1) <=> b = a /\ ~there)
    <3>0. n + 1 # 0
      BY <2>1
    <3> HIDE DEF n, fs
    <3>1. FromF(n + 1) <=> <<a, there>> = <<b, TRUE>>
      BY <2>1, <3>0
    <3>2. OutF(n + 1) <=> <<a, there>> = <<b, FALSE>>
      BY <2>1
    <3> QED
      BY <3>1, <3>2
  <2> HIDE DEF n, fs, From, Out, FromF, OutF
  <2>7. ASSUME NEW i \in 0 .. n, From(i), \A j \in i + 1 .. n : ~Out(j), b = a => there
        PROVE  \E k \in 0 .. n + 1 : FromF(k) /\ \A j \in k + 1 .. n + 1 : ~OutF(j)
    <3>1. i \in 0 .. n + 1 /\ FromF(i)
      BY <2>1, <2>5, <2>7
    <3>2. \A j \in i + 1 .. n + 1 : ~OutF(j)
      BY <2>1, <2>5, <2>6, <2>7
    <3> QED
      BY <3>1, <3>2
  <2>8. ASSUME b = a, there
        PROVE  \E k \in 0 .. n + 1 : FromF(k) /\ \A j \in k + 1 .. n + 1 : ~OutF(j)
    <3>1. n + 1 \in 0 .. n + 1 /\ \A j \in (n + 1) + 1 .. n + 1 : FALSE
      BY <2>1
    <3> QED
      BY <2>6, <2>8, <3>1
  <2>9. ASSUME NEW k \in 0 .. n + 1, FromF(k), \A j \in k + 1 .. n + 1 : ~OutF(j)
        PROVE  \/ b = a /\ there
               \/ (b = a => there) /\ \E i \in 0 .. n : From(i) /\ \A j \in i + 1 .. n : ~Out(j)
    <3>1. CASE k = n + 1
      BY <2>6, <2>9, <3>1
    <3>2. CASE k # n + 1
      <4>1. k \in 0 .. n /\ From(k)
        BY <2>1, <2>5, <2>9, <3>2
      <4>2. (\A j \in k + 1 .. n : ~Out(j)) /\ n + 1 \in k + 1 .. n + 1
        BY <2>1, <2>5, <2>9, <4>1
      <4> QED
        BY <2>6, <2>9, <4>1, <4>2
    <3> QED
      BY <3>1, <3>2
  <2> QED
    BY <2>3, <2>4, <2>7, <2>8, <2>9
<1>2. Applied(set, es) \subseteq Addrs /\ Applied(set, fs) \subseteq Addrs
  BY DEF Applied
<1>3. After(Applied(set, es), e) \subseteq Addrs
  BY <1>0, <1>2 DEF After
<1>4. \A b \in Addrs : b \in After(Applied(set, es), e) <=>
                           (b = a /\ there) \/ (b \in Applied(set, es) /\ (b = a => there))
  BY <1>0 DEF After
<1> QED
  BY <1>1, <1>2, <1>3, <1>4

LEMMA AppliedFirst ==
    ASSUME NEW set \in SUBSET Addrs, NEW es \in Seq(Addrs \X BOOLEAN), es # <<>>
    PROVE  Applied(After(set, Head(es)), Tail(es)) = Applied(set, es)
<1> DEFINE ts == Tail(es)
           e == Head(es)
<1>1. PICK a \in Addrs, there \in BOOLEAN : e = <<a, there>>
  OBVIOUS
<1>2. ASSUME NEW b \in Addrs
      PROVE  b \in Applied(After(set, e), ts) <=> b \in Applied(set, es)
  <2> DEFINE n == Len(ts)
             From(i) == IF i = 0 THEN b \in set ELSE es[i] = <<b, TRUE>>
             Out(i) == es[i] = <<b, FALSE>>
             FromT(i) == IF i = 0 THEN b \in After(set, e) ELSE ts[i] = <<b, TRUE>>
             OutT(i) == ts[i] = <<b, FALSE>>
  <2>1. n \in Nat /\ Len(es) = n + 1 /\ es[1] = e
    OBVIOUS
  <2>2. \A i \in 1 .. n : ts[i] = es[i + 1]
    OBVIOUS
  <2>3. b \in Applied(set, es) <=>
            \E i \in 0 .. n + 1 : From(i) /\ \A j \in i + 1 .. n + 1 : ~Out(j)
    BY <2>1 DEF Applied
  <2>4. b \in Applied(After(set, e), ts) <=>
            \E i \in 0 .. n : FromT(i) /\ \A j \in i + 1 .. n : ~OutT(j)
    BY DEF Applied
  <2>5. \A i \in 1 .. n : (FromT(i) <=> From(i + 1)) /\ (OutT(i) <=> Out(i + 1))
    <3> SUFFICES ASSUME NEW i \in 1 .. n
                 PROVE  (FromT(i) <=> From(i + 1)) /\ (OutT(i) <=> Out(i + 1))
      OBVIOUS
    <3>1. i # 0 /\ i + 1 # 0 /\ ts[i] = es[i + 1]
      BY <2>1, <2>2
    <3> QED
      BY <3>1
  <2>6. (From(1) <=> b = a /\ there) /\ (Out(1) <=> b = a /\ ~there)
    <3> HIDE DEF e
    <3>1. From(1) <=> <<a, there>> = <<b, TRUE>>
      BY <1>1, <2>1
    <3>2. Out(1) <=> <<a, there>> = <<b, FALSE>>
      BY <1>1, <2>1
    <3> QED
      BY <3>1, <3>2
  <2>7. FromT(0) <=> From(1) \/ (From(0) /\ ~Out(1))
    <3>1. b \in After(set, e) <=> (b = a /\ there) \/ (b \in set /\ ~(b = a /\ ~there))
      <4>1. e[1] = a /\ e[2] = there
        BY <1>1
      <4> QED
        BY <4>1 DEF After
    <3>2. (FromT(0) <=> b \in After(set, e)) /\ (From(0) <=> b \in set)
      OBVIOUS
    <3> QED
      BY <2>6, <3>1, <3>2, Zenon
  <2> HIDE DEF n, From, Out, FromT, OutT
  <2>8. ASSUME NEW i \in 0 .. n + 1, From(i), \A j \in i + 1 .. n + 1 : ~Out(j)
        PROVE  \E k \in 0 .. n : FromT(k) /\ \A j \in k + 1 .. n : ~OutT(j)
    <3>1. CASE i \in {0, 1}
      <4>1. i = 0 => 1 \in i + 1 .. n + 1
        BY <2>1
      <4>2. FromT(0) /\ 0 \in 0 .. n
        BY <2>1, <2>7, <2>8, <3>1, <4>1
      <4>3. \A j \in 0 + 1 .. n : ~OutT(j)
        BY <2>1, <2>5, <2>8, <3>1
      <4> QED
        BY <4>2, <4>3
    <3>2. CASE i \notin {0, 1}
      <4>1. i - 1 \in 1 .. n /\ i - 1 \in 0 .. n /\ (i - 1) + 1 = i
        BY <2>1, <2>8, <3>2
      <4>2. FromT(i - 1)
        BY <2>5, <2>8, <4>1
      <4>3. \A j \in (i - 1) + 1 .. n : ~OutT(j)
        BY <2>1, <2>5, <2>8, <4>1
      <4> QED
        BY <4>1, <4>2, <4>3
    <3> QED
      BY <3>1, <3>2
  <2>9. ASSUME NEW k \in 0 .. n, FromT(k), \A j \in k + 1 .. n : ~OutT(j)
        PROVE  \E i \in 0 .. n + 1 : From(i) /\ \A j \in i + 1 .. n + 1 : ~Out(j)
    <3>1. \A j \in (k + 1) + 1 .. n + 1 : ~Out(j)
      <4> SUFFICES ASSUME NEW j \in (k + 1) + 1 .. n + 1 PROVE ~Out(j)
        OBVIOUS
      <4>1. j - 1 \in k + 1 .. n /\ j - 1 \in 1 .. n /\ (j - 1) + 1 = j
        BY <2>1
      <4> QED
        BY <2>5, <2>9, <4>1
    <3>2. CASE k # 0 \/ From(1)
      <4>1. From(k + 1) /\ k + 1 \in 0 .. n + 1
        <5>1. CASE k # 0
          <6>1. k \in 1 .. n
            BY <2>1, <5>1
          <6> QED
            BY <2>1, <2>5, <2>9, <6>1
        <5>2. CASE k = 0
          BY <2>1, <3>2, <5>2
        <5> QED
          BY <5>1, <5>2
      <4> QED
        BY <3>1, <4>1
    <3>3. CASE k = 0 /\ ~From(1)
      <4>1. From(0) /\ ~Out(1) /\ 0 \in 0 .. n + 1
        BY <2>1, <2>7, <2>9, <3>3
      <4>2. \A j \in 0 + 1 .. n + 1 : ~Out(j)
        BY <2>1, <3>1, <3>3, <4>1
      <4> QED
        BY <4>1, <4>2
    <3> QED
      BY <3>2, <3>3
  <2> QED
    BY <2>3, <2>4, <2>8, <2>9
<1>3. Applied(set, es) \subseteq Addrs /\ Applied(After(set, e), ts) \subseteq Addrs
  BY DEF Applied
<1> QED
  BY <1>2, <1>3

-----------------------------------------------------------------------------
(* The steps that leave the pools alone.                                   *)

LEMMA PoolsKept ==
    ASSUME CallTypes, PoolInv, UNCHANGED <<mode, poolVars, closeVars>>,
           \A c \in Callers : pc'[c] = "dial" => pc[c] = "dial" /\ addr'[c] = addr[c],
           mode = "static" => \A c \in Callers :
               pc'[c] \in {"idle", "acquire", "dial"} /\ addr'[c] = Target
    PROVE  PoolInv'
<1>1. UNCHANGED <<pools, closed, conn, lock, sockets, closer, due>>
  BY DEF poolVars, closeVars
<1>2. PoolTypes' /\ Counted'
  BY <1>1 DEF PoolInv, PoolTypes, Counted
<1>3. Dialling'
  BY <1>1 DEF PoolInv, Dialling
<1>4. OnePool'
  BY <1>1 DEF PoolInv, OnePool
<1> QED
  BY <1>2, <1>3, <1>4 DEF PoolInv

LEMMA CallersWait ==
    ASSUME IInv, UNCHANGED <<mode, callVars, poolVars, closeVars>>
    PROVE  CallTypes' /\ PoolInv'
<1>1. UNCHANGED <<pc, addr, mode>>
  BY DEF callVars
<1>2. CallTypes'
  BY <1>1 DEF IInv, CallTypes
<1>3. mode = "static" => \A c \in Callers :
          pc[c] \in {"idle", "acquire", "dial"} /\ addr[c] = Target
  BY DEF IInv, PoolInv, OnePool
<1> QED
  BY <1>1, <1>2, <1>3, PoolsKept DEF IInv

LEMMA WritersStay ==
    ASSUME IInv, UNCHANGED <<outer, pend, known, watch>>,
           \A c \in Callers : pc'[c] \in {"initLocked", "get"} => pc'[c] = pc[c]
    PROVE  Writers'
BY DEF IInv, Writers

LEMMA EtcdStep ==
    ASSUME IInv, NEW a \in Addrs, Server(a) PROVE IInv'
<1>1. PICK there \in BOOLEAN : Changed(a, there)
  BY DEF Server, Register, LeaseEnds
<1>2. UNCHANGED Others
  BY DEF Server, Register, LeaseEnds
<1>3. etcd' \subseteq Addrs /\ changes' \in 0 .. MaxChanges
  <2>1. etcd \subseteq Addrs /\ changes \in 0 .. MaxChanges /\ MaxChanges \in Nat
    BY ClientAssumption DEF IInv, RegTypes
  <2>2. CASE Register(a)
    <3>1. changes < MaxChanges /\ changes' = changes + 1 /\ etcd' = etcd \cup {a}
      BY <2>2 DEF Register
    <3> QED
      BY <2>1, <3>1
  <2>3. CASE LeaseEnds(a)
    <3>1. changes' = changes /\ etcd' = etcd \ {a}
      BY <2>3 DEF LeaseEnds
    <3> QED
      BY <2>1, <3>1
  <2> QED
    BY <2>2, <2>3 DEF Server
<1>4. RegTypes'
  BY <1>1, <1>2, <1>3 DEF Changed, Others, regVars, IInv, RegTypes
<1>5. EventTypes'
  <2>1. watch' = watch /\ <<a, there>> \in Addrs \X BOOLEAN
    BY <1>2 DEF Others
  <2>2. CASE watch \in {"open", "apply"}
    <3>1. events' = Append(events, <<a, there>>) /\ events \in Seq(Addrs \X BOOLEAN)
      BY <1>1, <2>2 DEF Changed, IInv, EventTypes
    <3> QED
      BY <2>1, <3>1 DEF EventTypes
  <2>3. CASE watch \notin {"open", "apply"}
    BY <1>1, <2>1, <2>3 DEF Changed, IInv, EventTypes
  <2> QED
    BY <2>2, <2>3
<1>6. FollowInv'
  <2>1. /\ UNCHANGED <<known, cache, watch>>
        /\ Watched /\ (known /\ ~missed => Applied(cache, events) = etcd)
        /\ cache \in SUBSET Addrs /\ events \in Seq(Addrs \X BOOLEAN)
    BY <1>2 DEF Others, regVars, IInv, FollowInv, CacheFollowsEtcd, RegTypes, EventTypes
  <2>2. \E is \in BOOLEAN : /\ Changed(a, is)
                           /\ etcd' = IF is THEN etcd \cup {a} ELSE etcd \ {a}
    BY DEF Server, Register, LeaseEnds
  <2>3. PICK is \in BOOLEAN : /\ Changed(a, is)
                             /\ etcd' = IF is THEN etcd \cup {a} ELSE etcd \ {a}
    BY <2>2
  <2>4. CASE watch \in {"open", "apply"}
    <3>1. events' = Append(events, <<a, is>>) /\ (known' /\ ~missed' => known /\ ~missed)
      BY <2>1, <2>3, <2>4 DEF Changed
    <3>2. Applied(cache, events') = After(Applied(cache, events), <<a, is>>)
      BY <2>1, <3>1, AppliedLast
    <3>3. CacheFollowsEtcd'
      BY <2>1, <2>3, <3>1, <3>2 DEF After, CacheFollowsEtcd
    <3> QED
      BY <2>1, <2>4, <3>3 DEF FollowInv, Watched
  <2>5. CASE watch \notin {"open", "apply"}
    <3>1. events' = events /\ ~(known' /\ ~missed')
      BY <2>1, <2>3, <2>5 DEF Changed
    <3> QED
      BY <2>1, <3>1 DEF FollowInv, Watched, CacheFollowsEtcd
  <2> QED
    BY <2>4, <2>5
<1>7. Writers'
  <2>1. UNCHANGED <<outer, pend, known, watch, pc>>
    BY <1>2 DEF Others, regVars, callVars
  <2> QED
    BY <2>1, WritersStay
<1> QED
  BY <1>2, <1>4, <1>5, <1>6, <1>7, CallersWait DEF Others, IInv

LEMMA WatcherStep ==
    ASSUME IInv, WatchStep \/ WatchBreaks \/ CloseRegistry PROVE IInv'
<1>1. UNCHANGED <<mode, callVars, serverVars, poolVars, closeVars, outer>>
  BY DEF WatchStep, WatchOpens, WatchLocks, WatchApplies, WatchBreaks, CloseRegistry, NoWatch
<1>2. CASE WatchOpens \/ WatchLocks \/ WatchBreaks \/ CloseRegistry
  <2>1. RegTypes'
    BY <1>1, <1>2 DEF WatchOpens, WatchLocks, WatchBreaks, CloseRegistry, serverVars, IInv,
                      RegTypes
  <2>2. EventTypes'
    <3>1. CASE WatchBreaks
      BY <3>1 DEF WatchBreaks, EventTypes
    <3>2. CASE WatchOpens \/ WatchLocks \/ CloseRegistry
      <4>1. events' = events /\ (watch' = "apply" => watch = "apply" \/ events # <<>>)
        BY <3>2 DEF WatchOpens, WatchLocks, CloseRegistry
      <4> QED
        BY <4>1 DEF IInv, EventTypes
    <3> QED
      BY <1>2, <3>1, <3>2
  <2>3. FollowInv'
    <3>1. /\ UNCHANGED <<known, cache, etcd>>
          /\ Watched /\ (known /\ ~missed => Applied(cache, events) = etcd)
      BY <1>1, <1>2 DEF WatchOpens, WatchLocks, WatchBreaks, CloseRegistry, serverVars, IInv,
                        FollowInv, CacheFollowsEtcd
    <3>2. CASE WatchBreaks
      <4>1. /\ watch = "open" /\ watch' = "start" /\ events' = <<>>
            /\ ~missed' => ~missed /\ events = <<>>
        BY <3>2 DEF WatchBreaks
      <4>2. known' => known /\ known
        BY <3>1
      <4>3. CacheFollowsEtcd'
        BY <3>1, <4>1 DEF CacheFollowsEtcd
      <4> QED
        BY <3>1, <4>1, <4>3 DEF FollowInv, Watched
    <3>3. CASE WatchOpens \/ WatchLocks \/ CloseRegistry
      <4>1. /\ UNCHANGED <<events, missed>>
            /\ \/ watch = "start" /\ watch' \in {"ended", "open"}
               \/ watch = "open" /\ watch' = "apply"
               \/ watch' = watch
        BY <3>3 DEF WatchOpens, WatchLocks, CloseRegistry
      <4> QED
        BY <3>1, <4>1 DEF FollowInv, Watched, CacheFollowsEtcd
    <3> QED
      BY <1>2, <3>2, <3>3
  <2>4. Writers'
    <3>1. UNCHANGED <<pc, outer, known>>
      BY <1>1, <1>2 DEF WatchOpens, WatchLocks, WatchBreaks, CloseRegistry, callVars
    <3>2. CASE WatchLocks
      <4>1. pend = None /\ pend' = Watcher /\ watch' = "apply"
        BY <3>2 DEF WatchLocks
      <4>2. \A c \in Callers : pc[c] \notin {"initLocked", "get"}
        BY <4>1, ClientAssumption DEF IInv, Writers
      <4> QED
        BY <3>1, <4>1, <4>2 DEF Writers
    <3>3. CASE WatchOpens \/ WatchBreaks \/ CloseRegistry
      <4>1. pend' = pend /\ (watch' = "apply" => watch = "apply")
        BY <3>3 DEF WatchOpens, WatchBreaks, CloseRegistry
      <4> QED
        BY <3>1, <4>1 DEF IInv, Writers
    <3> QED
      BY <1>2, <3>2, <3>3
  <2> QED
    BY <1>1, <2>1, <2>2, <2>3, <2>4, CallersWait DEF IInv
<1>3. CASE WatchApplies
  <2>1. events # <<>> /\ events \in Seq(Addrs \X BOOLEAN)
    BY <1>3 DEF WatchApplies, IInv, EventTypes
  <2>2. Head(events) \in Addrs \X BOOLEAN /\ Tail(events) \in Seq(Addrs \X BOOLEAN)
    BY <2>1
  <2>3. After(cache, Head(events)) \subseteq Addrs
    BY <2>2 DEF After, IInv, RegTypes
  <2>4. RegTypes'
    BY <1>1, <1>3, <2>3 DEF WatchApplies, serverVars, IInv, RegTypes
  <2>5. EventTypes'
    <3>1. events' = Tail(events) /\ watch' = "open"
      BY <1>3 DEF WatchApplies
    <3>2. events' \in Seq(Addrs \X BOOLEAN)
      BY <2>2, <3>1, Zenon
    <3> QED
      BY <3>1, <3>2 DEF EventTypes
  <2>6. FollowInv'
    <3>1. /\ cache' = After(cache, Head(events)) /\ events' = Tail(events)
          /\ watch = "apply" /\ watch' = "open" /\ UNCHANGED <<known, missed, etcd>>
      BY <1>1, <1>3 DEF WatchApplies, serverVars
    <3>2. /\ cache \in SUBSET Addrs /\ Watched
          /\ known /\ ~missed => Applied(cache, events) = etcd
      BY DEF IInv, RegTypes, FollowInv, CacheFollowsEtcd
    <3>3. Applied(cache', events') = Applied(cache, events)
      BY <2>1, <3>1, <3>2, AppliedFirst
    <3> QED
      BY <3>1, <3>2, <3>3 DEF FollowInv, Watched, CacheFollowsEtcd
  <2>7. Writers'
    <3>1. /\ watch = "apply" /\ watch' = "open" /\ UNCHANGED <<pc, known>>
      BY <1>1, <1>3 DEF WatchApplies, callVars
    <3>2. \A c \in Callers : pc[c] \notin {"initLocked", "get"}
      BY <3>1, ClientAssumption DEF IInv, Writers
    <3> QED
      BY <3>1, <3>2 DEF Writers
  <2> QED
    BY <1>1, <2>4, <2>5, <2>6, <2>7, CallersWait DEF IInv
<1> QED
  BY <1>2, <1>3 DEF WatchStep

(* The steps of a call in Discover, and its look into the map of pools.    *)
LEMMA DiscoverStep ==
    ASSUME IInv, NEW c \in Callers,
           Call(c) \/ RLock(c) \/ RLockInner(c) \/ LockForInit(c) \/ InitService(c)
             \/ GetAnswered(c) \/ GetFails(c) \/ Copy(c) \/ Load(c)
    PROVE  IInv'
<1>1. UNCHANGED <<mode, poolVars, closeVars, missed, ended, events, serverVars>>
  BY DEF Call, RLock, RLockInner, LockForInit, InitService, GetAnswered, GetFails, Copy, Load,
         NoReg, NoPool, watchVars
<1>2. \E l \in PCs \ {"dial"} : pc' = [pc EXCEPT ![c] = l]
  BY DEF Call, RLock, RLockInner, LockForInit, InitService, GetAnswered, GetFails, Copy, Load,
         Instances, Goto, PCs
<1>3. \E a \in Addrs : addr' = [addr EXCEPT ![c] = a]
  <2>1. addr' = addr \/ \E a \in Addrs : addr' = [addr EXCEPT ![c] = a]
    BY ClientAssumption
       DEF Call, RLock, RLockInner, LockForInit, InitService, GetAnswered, GetFails, Copy, Load,
           Instances, IInv, RegTypes
  <2>2. addr = [addr EXCEPT ![c] = addr[c]] /\ addr[c] \in Addrs
    BY DEF IInv, CallTypes
  <2> QED
    BY <2>1, <2>2
<1>4. CallTypes'
  BY <1>1, <1>2, <1>3 DEF IInv, CallTypes
<1>5. RegTypes'
  <2>1. outer' \subseteq Callers /\ pend' \in Callers \cup {Watcher, None}
    BY DEF Call, RLock, RLockInner, LockForInit, InitService, GetAnswered, GetFails, Copy, Load,
           NoPool, regVars, IInv,
           RegTypes
  <2>2. known' \in BOOLEAN /\ cache' \subseteq Addrs /\ watch' \in {watch, "start"}
    BY DEF Call, RLock, RLockInner, LockForInit, InitService, GetAnswered, GetFails, Copy, Load,
           NoReg, NoPool, regVars,
           watchVars, IInv, RegTypes
  <2> QED
    BY <1>1, <2>1, <2>2 DEF serverVars, IInv, RegTypes
<1>6. EventTypes'
  <2>1. watch' \in {watch, "start"}
    BY DEF Call, RLock, RLockInner, LockForInit, InitService, GetAnswered, GetFails, Copy, Load,
           NoReg, NoPool, watchVars
  <2> QED
    BY <1>1, <2>1 DEF IInv, EventTypes
<1>7. PoolInv'
  <2>1. \A d \in Callers : pc'[d] = "dial" => pc[d] = "dial" /\ addr'[d] = addr[d]
    BY <1>2, <1>3 DEF IInv, CallTypes
  <2>2. ASSUME mode = "static"
        PROVE  \A d \in Callers :
                   pc'[d] \in {"idle", "acquire", "dial"} /\ addr'[d] = Target
    <3>1. pc[c] \in {"idle", "acquire", "dial"} /\ \A d \in Callers : addr[d] = Target
      BY <2>2 DEF IInv, PoolInv, OnePool
    <3>2. Call(c)
      BY <3>1 DEF RLock, RLockInner, LockForInit, InitService, GetAnswered, GetFails, Copy, Load
    <3>3. pc' = [pc EXCEPT ![c] = "acquire"] /\ addr' = [addr EXCEPT ![c] = Target]
      BY <2>2, <3>2 DEF Call, Goto
    <3> QED
      BY <2>2, <3>1, <3>3 DEF IInv, CallTypes, PoolInv, OnePool
  <2> QED
    BY <1>1, <2>1, <2>2, PoolsKept DEF IInv
<1>8. FollowInv'
  <2>1. /\ UNCHANGED <<events, missed, etcd>> /\ cache \in SUBSET Addrs /\ etcd \in SUBSET Addrs
        /\ Watched /\ (known /\ ~missed => Applied(cache, events) = etcd)
    BY <1>1 DEF serverVars, IInv, RegTypes, FollowInv, CacheFollowsEtcd
  <2>2. \/ UNCHANGED <<known, cache, watch>>
        \/ ~known /\ cache' = etcd /\ watch' = "start" /\ known'
    BY DEF IInv, Writers, Call, RLock, RLockInner, LockForInit, InitService, GetAnswered,
           GetFails, Copy, Load, NoReg, NoPool, regVars,
           watchVars
  <2>3. CASE UNCHANGED <<known, cache, watch>>
    BY <2>1, <2>3 DEF FollowInv, Watched, CacheFollowsEtcd
  <2>4. CASE ~known /\ cache' = etcd /\ watch' = "start" /\ known'
    <3>1. events = <<>>
      BY <2>1, <2>4 DEF Watched
    <3>2. Applied(cache', events') = etcd'
      BY <2>1, <2>4, <3>1, AppliedNone
    <3> QED
      BY <2>1, <2>4, <3>1, <3>2 DEF FollowInv, Watched, CacheFollowsEtcd
  <2> QED
    BY <2>2, <2>3, <2>4
<1>9. Writers'
  <2> USE DEF Goto
  <2>1. watch' = "apply" => watch = "apply" /\ UNCHANGED watch
    BY DEF Call, RLock, RLockInner, LockForInit, InitService, GetAnswered, GetFails, Copy, Load,
           NoReg, NoPool, watchVars
  <2>2. CASE LockForInit(c)
    <3>1. /\ pend = None /\ pend' = c /\ pc' = [pc EXCEPT ![c] = "initLocked"]
          /\ UNCHANGED <<outer, known, watch>>
      BY <2>2 DEF LockForInit, NoReg, watchVars
    <3>2. watch # "apply" /\ \A d \in Callers : pc[d] \notin {"initLocked", "get"}
      BY <3>1, ClientAssumption DEF IInv, Writers
    <3> QED
      BY <3>1, <3>2 DEF IInv, CallTypes, Writers
  <2>3. CASE InitService(c) /\ ~known
    <3>1. /\ pc[c] = "initLocked" /\ outer = {} /\ pc' = [pc EXCEPT ![c] = "get"]
          /\ UNCHANGED <<pend, outer, known, watch>>
      BY <2>3 DEF InitService, NoReg, watchVars
    <3> QED
      BY <2>3, <3>1 DEF IInv, CallTypes, Writers
  <2>4. CASE (InitService(c) /\ known) \/ GetAnswered(c) \/ GetFails(c)
    <3>1. pc[c] \in {"initLocked", "get"} /\ \E l \in {"copy", "idle"} : pc' = [pc EXCEPT ![c] = l]
      BY <2>4 DEF InitService, GetAnswered, GetFails
    <3>2. \A d \in Callers : d # c => pc[d] \notin {"initLocked", "get"}
      BY <3>1 DEF IInv, Writers
    <3>3. watch # "apply"
      BY <3>1, ClientAssumption DEF IInv, Writers
    <3> QED
      BY <2>1, <3>1, <3>2, <3>3 DEF IInv, CallTypes, Writers
  <2>5. CASE RLock(c)
    <3>1. pend = None /\ (\E l \in {"inner", "init"} : pc' = [pc EXCEPT ![c] = l])
          /\ UNCHANGED <<pend, known, watch>>
      BY <2>5 DEF RLock, NoReg, watchVars
    <3>2. \A d \in Callers : pc[d] \notin {"initLocked", "get"}
      BY <3>1, ClientAssumption DEF IInv, Writers
    <3> QED
      BY <3>1, <3>2 DEF IInv, CallTypes, Writers
  <2>6. CASE RLockInner(c)
    <3>1. pend = None /\ (\E l \in {"idle", "pool"} : pc' = [pc EXCEPT ![c] = l])
          /\ UNCHANGED <<pend, known, watch>>
      BY <2>6 DEF RLockInner, Instances, NoReg, watchVars
    <3>2. \A d \in Callers : pc[d] \notin {"initLocked", "get"}
      BY <3>1, ClientAssumption DEF IInv, Writers
    <3> QED
      BY <3>1, <3>2 DEF IInv, CallTypes, Writers
  <2>7. CASE Call(c) \/ Copy(c) \/ Load(c)
    <3>1. UNCHANGED <<outer, pend, known, watch>>
      BY <2>7 DEF Call, Copy, Load, NoReg, NoPool, regVars, watchVars
    <3>2. \E l \in PCs \ {"initLocked", "get"} : pc' = [pc EXCEPT ![c] = l]
      BY <2>7 DEF Call, Copy, Load, Instances, PCs
    <3>3. \A d \in Callers : pc'[d] \in {"initLocked", "get"} => pc'[d] = pc[d]
      BY <3>2 DEF IInv, CallTypes
    <3> QED
      BY <3>1, <3>3, WritersStay
  <2> QED
    BY <2>2, <2>3, <2>4, <2>5, <2>6, <2>7
<1> QED
  BY <1>4, <1>5, <1>6, <1>7, <1>8, <1>9 DEF IInv

-----------------------------------------------------------------------------
(* The steps that touch the pools leave the registry alone.                *)

LEMMA RegKept ==
    ASSUME IInv, UNCHANGED <<regVars, watchVars, serverVars>>
    PROVE  RegTypes' /\ EventTypes' /\ FollowInv'
BY DEF IInv, RegTypes, EventTypes, FollowInv, Watched, CacheFollowsEtcd, regVars, watchVars,
       serverVars

LEMMA RegUntouched ==
    ASSUME IInv, UNCHANGED <<regVars, watchVars, serverVars>>,
           \A c \in Callers : pc'[c] \in {"initLocked", "get"} => pc'[c] = pc[c]
    PROVE  Writers'
BY WritersStay DEF regVars, watchVars

LEMMA StoreStep ==
    ASSUME IInv, NEW c \in Callers, LoadOrStore(c) PROVE IInv'
<1>1. /\ pc[c] = "store" /\ pc' = [pc EXCEPT ![c] = "acquire"]
      /\ pools' = pools \cup {addr[c]}
      /\ UNCHANGED <<mode, addr, closed, conn, lock, sockets, closer, due>>
  BY DEF LoadOrStore, Goto, NoPool, closeVars
<1>2. mode # "static"
  BY <1>1 DEF IInv, PoolInv, OnePool
<1>3. CallTypes' /\ PoolTypes'
  BY <1>1 DEF IInv, CallTypes, PCs, PoolInv, PoolTypes
<1>4. Counted' /\ Dialling' /\ OnePool'
  BY <1>1, <1>2 DEF IInv, CallTypes, PoolInv, Counted, Dialling, OnePool
<1>5. RegTypes' /\ EventTypes' /\ FollowInv'
  BY RegKept DEF LoadOrStore, NoPool
<1>6. Writers'
  BY <1>1, RegUntouched DEF LoadOrStore, NoPool, IInv, CallTypes
<1> QED
  BY <1>3, <1>4, <1>5, <1>6 DEF IInv, PoolInv

LEMMA AcquireStep ==
    ASSUME IInv, NEW c \in Callers, Acquire(c) PROVE IInv'
<1> DEFINE a == addr[c]
<1>1. /\ pc[c] = "acquire" /\ lock[a] = None /\ a \in Addrs
      /\ UNCHANGED <<mode, addr, pools, closed, conn, sockets, closer, due>>
  BY DEF Acquire, NoPool, closeVars, IInv, CallTypes
<1>2. \/ pc' = [pc EXCEPT ![c] = "idle"] /\ lock' = lock
      \/ /\ ~closed[a] /\ conn[a] # "live"
         /\ pc' = [pc EXCEPT ![c] = "dial"] /\ lock' = [lock EXCEPT ![a] = c]
  BY DEF Acquire, Goto
<1>3. CallTypes' /\ PoolTypes'
  BY <1>1, <1>2 DEF IInv, CallTypes, PCs, PoolInv, PoolTypes
<1>4. Counted' /\ OnePool'
  BY <1>1, <1>2 DEF IInv, CallTypes, PoolInv, Counted, OnePool
<1>5. Dialling'
  <2> SUFFICES ASSUME NEW d \in Callers, pc'[d] = "dial"
               PROVE  lock'[addr[d]] = d /\ ~closed[addr[d]] /\ conn[addr[d]] # "live"
    BY <1>1 DEF Dialling
  <2>1. CASE d = c
    BY <1>1, <1>2, <2>1 DEF IInv, CallTypes, PoolInv, PoolTypes
  <2>2. CASE d # c
    <3>1. pc[d] = "dial" /\ lock[addr[d]] = d /\ ~closed[addr[d]] /\ conn[addr[d]] # "live"
      BY <1>2, <2>2 DEF IInv, CallTypes, PoolInv, Dialling
    <3>2. addr[d] # a
      BY <1>1, <3>1, ClientAssumption
    <3> QED
      BY <1>2, <3>1, <3>2 DEF IInv, CallTypes, PoolInv, PoolTypes
  <2> QED
    BY <2>1, <2>2
<1>6. RegTypes' /\ EventTypes' /\ FollowInv'
  BY RegKept DEF Acquire, NoPool
<1>7. Writers'
  BY <1>2, RegUntouched DEF Acquire, NoPool, IInv, CallTypes
<1> QED
  BY <1>3, <1>4, <1>5, <1>6, <1>7 DEF IInv, PoolInv

LEMMA DialStep ==
    ASSUME IInv, NEW c \in Callers, Dial(c) PROVE IInv'
<1> DEFINE a == addr[c]
<1>1. /\ pc[c] = "dial" /\ pc' = [pc EXCEPT ![c] = "idle"] /\ a \in Addrs
      /\ lock' = [lock EXCEPT ![a] = None]
      /\ UNCHANGED <<mode, addr, pools, closed, closer, due>>
  BY DEF Dial, Goto, NoPool, closeVars, IInv, CallTypes
<1>2. lock[a] = c /\ ~closed[a] /\ conn[a] # "live" /\ sockets[a] = 0
  BY <1>1 DEF IInv, PoolInv, Counted, Dialling
<1>3. \/ UNCHANGED <<conn, sockets>>
      \/ conn' = [conn EXCEPT ![a] = "live"] /\ sockets' = [sockets EXCEPT ![a] = @ + 1]
  BY DEF Dial
<1>4. CallTypes' /\ PoolTypes'
  BY <1>1, <1>3 DEF IInv, CallTypes, PCs, PoolInv, PoolTypes
<1>5. Counted'
  BY <1>1, <1>2, <1>3 DEF IInv, PoolInv, PoolTypes, Counted
<1>6. Dialling'
  <2> SUFFICES ASSUME NEW d \in Callers, pc'[d] = "dial"
               PROVE  lock'[addr[d]] = d /\ ~closed[addr[d]] /\ conn'[addr[d]] # "live"
    BY <1>1 DEF Dialling
  <2>1. d # c /\ pc[d] = "dial"
    BY <1>1 DEF IInv, CallTypes
  <2>2. lock[addr[d]] = d /\ ~closed[addr[d]] /\ conn[addr[d]] # "live"
    BY <2>1 DEF IInv, PoolInv, Dialling
  <2>3. addr[d] # a
    BY <1>2, <2>1, <2>2
  <2> QED
    BY <1>1, <1>3, <2>2, <2>3 DEF IInv, CallTypes, PoolInv, PoolTypes
<1>7. OnePool'
  <2>1. mode = "static" => a = Target
    BY DEF IInv, PoolInv, OnePool
  <2> QED
    BY <1>1, <1>3, <2>1 DEF IInv, CallTypes, PoolInv, PoolTypes, OnePool
<1>8. RegTypes' /\ EventTypes' /\ FollowInv'
  BY RegKept DEF Dial, NoPool
<1>9. Writers'
  BY <1>1, RegUntouched DEF Dial, NoPool, IInv, CallTypes
<1> QED
  BY <1>4, <1>5, <1>6, <1>7, <1>8, <1>9 DEF IInv, PoolInv

LEMMA ConnStep ==
    ASSUME IInv, NEW a \in Addrs, ConnDies(a) PROVE IInv'
<1>1. /\ conn[a] = "live" /\ conn' = [conn EXCEPT ![a] = "dead"]
      /\ sockets' = [sockets EXCEPT ![a] = @ - 1]
      /\ UNCHANGED <<mode, pc, addr, pools, closed, lock, closer, due>>
  BY DEF ConnDies, NoPool, callVars, closeVars
<1>2. sockets[a] = 1
  BY <1>1 DEF IInv, PoolInv, Counted
<1>3. CallTypes' /\ PoolTypes'
  BY <1>1, <1>2 DEF IInv, CallTypes, PoolInv, PoolTypes
<1>4. Counted' /\ Dialling' /\ OnePool'
  BY <1>1, <1>2 DEF IInv, PoolInv, PoolTypes, Counted, Dialling, OnePool
<1>5. RegTypes' /\ EventTypes' /\ FollowInv'
  BY RegKept DEF ConnDies, NoPool
<1>6. Writers'
  BY <1>1, RegUntouched DEF ConnDies, NoPool
<1> QED
  BY <1>3, <1>4, <1>5, <1>6 DEF IInv, PoolInv

LEMMA PoolCloses ==
    ASSUME IInv, NEW a \in Addrs, ClosePool(a) PROVE IInv'
<1>1. /\ closer = "range" /\ a \in pools /\ lock[a] = None
      /\ due' = due \ {a} /\ closed' = [closed EXCEPT ![a] = TRUE]
      /\ UNCHANGED <<mode, pc, addr, pools, lock, closer>>
  BY DEF ClosePool, callVars
<1>2. \/ /\ conn[a] = "live" /\ conn' = [conn EXCEPT ![a] = "dead"]
         /\ sockets' = [sockets EXCEPT ![a] = @ - 1]
      \/ conn[a] # "live" /\ UNCHANGED <<conn, sockets>>
  BY DEF ClosePool
<1>3. sockets[a] = IF conn[a] = "live" THEN 1 ELSE 0
  BY DEF IInv, PoolInv, Counted
<1>4. CallTypes' /\ PoolTypes'
  BY <1>1, <1>2, <1>3 DEF IInv, CallTypes, PoolInv, PoolTypes
<1>5. Counted'
  BY <1>1, <1>2, <1>3 DEF IInv, PoolInv, PoolTypes, Counted
<1>6. Dialling'
  <2> SUFFICES ASSUME NEW d \in Callers, pc[d] = "dial"
               PROVE  lock[addr[d]] = d /\ ~closed'[addr[d]] /\ conn'[addr[d]] # "live"
    BY <1>1 DEF Dialling
  <2>1. lock[addr[d]] = d /\ ~closed[addr[d]] /\ conn[addr[d]] # "live"
    BY DEF IInv, PoolInv, Dialling
  <2>2. addr[d] # a
    BY <1>1, <2>1, ClientAssumption
  <2> QED
    BY <1>1, <1>2, <2>1, <2>2 DEF IInv, CallTypes, PoolInv, PoolTypes
<1>7. OnePool'
  <2> SUFFICES ASSUME mode = "static" PROVE OnePool'
    BY <1>1 DEF OnePool
  <2>1. a = Target /\ closed'[Target]
    BY <1>1 DEF IInv, PoolInv, PoolTypes, OnePool
  <2>2. \A b \in Addrs \ {Target} : conn'[b] # "live"
    BY <1>2, <2>1 DEF IInv, PoolInv, PoolTypes, OnePool
  <2> QED
    BY <1>1, <2>1, <2>2 DEF IInv, PoolInv, OnePool
<1>8. RegTypes' /\ EventTypes' /\ FollowInv'
  BY RegKept DEF ClosePool
<1>9. Writers'
  BY <1>1, RegUntouched DEF ClosePool
<1> QED
  BY <1>4, <1>5, <1>6, <1>7, <1>8, <1>9 DEF IInv, PoolInv

LEMMA CloserStep ==
    ASSUME IInv, BeginClose \/ CloseReturns PROVE IInv'
<1>1. UNCHANGED <<mode, pc, addr, pools, closed, conn, lock, sockets>>
  BY DEF BeginClose, CloseReturns, callVars, poolVars
<1>2. CallTypes' /\ Counted' /\ Dialling'
  BY <1>1 DEF IInv, CallTypes, PoolInv, Counted, Dialling
<1>3. PoolTypes' /\ OnePool'
  BY <1>1 DEF BeginClose, CloseReturns, IInv, PoolInv, PoolTypes, OnePool
<1>4. RegTypes' /\ EventTypes' /\ FollowInv'
  BY RegKept DEF BeginClose, CloseReturns
<1>5. Writers'
  BY <1>1, RegUntouched DEF BeginClose, CloseReturns
<1> QED
  BY <1>2, <1>3, <1>4, <1>5 DEF IInv, PoolInv

LEMMA StepIInv == IInv /\ [Next]_vars => IInv'
<1> SUFFICES ASSUME IInv, [Next]_vars PROVE IInv'
  OBVIOUS
<1>1. ASSUME NEW c \in Callers, Call(c) \/ CallStep(c) \/ GetAnswered(c) \/ GetFails(c)
      PROVE  IInv'
  BY <1>1, DiscoverStep, StoreStep, AcquireStep, DialStep DEF CallStep
<1>2. CASE WatchStep \/ WatchBreaks \/ CloseRegistry
  BY <1>2, WatcherStep
<1>3. CASE BeginClose \/ CloseReturns
  BY <1>3, CloserStep
<1>4. ASSUME NEW a \in Addrs, ClosePool(a) \/ Server(a) \/ ConnDies(a) PROVE IInv'
  BY <1>4, PoolCloses, EtcdStep, ConnStep
<1>5. CASE UNCHANGED vars
  <2>1. UNCHANGED <<mode, callVars, poolVars, closeVars, regVars, watchVars, serverVars>>
    BY <1>5 DEF vars
  <2> QED
    BY <2>1, CallersWait, RegKept, RegUntouched DEF IInv, callVars
<1> QED
  BY <1>1, <1>2, <1>3, <1>4, <1>5 DEF Next

THEOREM Invariance == Spec => []IInv
BY InitIInv, StepIInv, PTL DEF Spec

(* Type correctness of the client (ClientConn, Registry, ConnectionPool).  *)
THEOREM TypeCorrect == Spec => []TypeOK
BY Invariance, TypesAreTypes, PTL

(* An address has one connection at most, however calls that make its pool *)
(* or dial it, a dead connection's replacement and Close interleave        *)
(* (getPool, ConnectionPool.Acquire).                                      *)
THEOREM OneConnectionAlways == Spec => []OneConnection
<1>1. IInv => OneConnection
  BY DEF IInv, PoolInv, Counted, OneConnection
<1> QED
  BY Invariance, <1>1, PTL

(* A closed pool never has a connection, and Close in static mode leaves   *)
(* none at all (ConnectionPool.Close, Client.Close).                       *)
THEOREM NothingLeftBehind == Spec => []NoConnectionLeft
<1>1. IInv => NoConnectionLeft
  <2> SUFFICES ASSUME IInv, NEW a \in Addrs
               PROVE  /\ closed[a] => sockets[a] = 0
                      /\ closer = "done" /\ mode = "static" => sockets[a] = 0
    BY DEF NoConnectionLeft
  <2>1. closed[a] => sockets[a] = 0
    BY DEF IInv, PoolInv, Counted
  <2>2. ASSUME closer = "done", mode = "static" PROVE sockets[a] = 0
    <3>1. closed[Target] /\ (a # Target => conn[a] # "live")
      BY <2>2 DEF IInv, PoolInv, OnePool
    <3> QED
      BY <2>1, <3>1 DEF IInv, PoolInv, Counted
  <2> QED
    BY <2>1, <2>2
<1> QED
  BY Invariance, <1>1, PTL

(* Of any number of callers that find a service missing one asks etcd, at  *)
(* a time when nobody else reads or writes the registry, and none once the *)
(* cache is filled (Discover, initService).                                *)
THEOREM CacheFilledOnce == Spec => []FilledOnce
<1>1. IInv => FilledOnce
  <2> SUFFICES ASSUME IInv, NEW c \in Callers, pc[c] = "get"
               PROVE  /\ ~known /\ watch = "none" /\ outer = {}
                      /\ \A d \in Callers \ {c} : pc[d] \notin {"initLocked", "get"}
    BY DEF FilledOnce
  <2>1. pend = c /\ ~known /\ outer = {} /\ watch = "none"
    BY DEF IInv, Writers, FollowInv, Watched
  <2> QED
    BY <2>1 DEF IInv, Writers
<1> QED
  BY Invariance, <1>1, PTL

(* As long as nothing happened unwatched, the cache with the events still  *)
(* to be applied is what etcd holds: through the Get that fills it, every  *)
(* change that is sent, the batches that are applied while calls read, and *)
(* a watch that breaks (initService, watch).                               *)
THEOREM CacheAlwaysFollows == Spec => []CacheFollowsEtcd
<1>1. IInv => CacheFollowsEtcd
  BY DEF IInv, FollowInv
<1> QED
  BY Invariance, <1>1, PTL

-----------------------------------------------------------------------------
(* The balancers. Smooth weighted round robin: the current weights add up  *)
(* to zero and none falls to minus the total, so that after as many        *)
(* selections as the weights sum up to all of them are zero again.         *)

(* Induction over the naturals, for a set of them.                         *)
LEMMA SetInduction ==
    ASSUME NEW S, 0 \in S, \A n \in Nat : n \in S => n + 1 \in S
    PROVE  Nat \subseteq S
<1> DEFINE B == Nat \ S
<1> SUFFICES ASSUME B # {} PROVE FALSE
  OBVIOUS
<1>1. PICK k \in B : \A j \in B : ~ (<<j, k>> \in OpToRel(<, Nat))
  BY NatLessThanWellFounded, WFMin
<1>2. \A j \in B : ~ (j < k)
  BY <1>1 DEF OpToRel
<1>3. k - 1 \in Nat /\ k - 1 \notin B
  BY <1>2
<1> QED
  BY <1>3

(* A recursion over 0..n that stays in X, by a step d that is a function.  *)
Recursion(f, n, x, d) == f = [k \in 0 .. n |-> IF k = 0 THEN x ELSE d[k][f[k - 1]]]

LEMMA RecursionExists ==
    ASSUME NEW X, NEW x \in X, NEW n \in Nat, NEW d \in [1 .. n -> [X -> X]]
    PROVE  \E f \in [0 .. n -> X] : Recursion(f, n, x, d)
<1> DEFINE S == {m \in Nat : m <= n => \E f \in [0 .. m -> X] : Recursion(f, m, x, d)}
<1>1. 0 \in S
  <2> DEFINE f == [k \in 0 .. 0 |-> x]
  <2>1. f \in [0 .. 0 -> X] /\ Recursion(f, 0, x, d)
    BY DEF Recursion
  <2> QED
    BY <2>1
<1>2. ASSUME NEW m \in Nat, m \in S PROVE m + 1 \in S
  <2> SUFFICES ASSUME m + 1 <= n
               PROVE  \E f \in [0 .. m + 1 -> X] : Recursion(f, m + 1, x, d)
    OBVIOUS
  <2>1. PICK f \in [0 .. m -> X] : Recursion(f, m, x, d)
    BY <1>2
  <2> DEFINE g == [k \in 0 .. m + 1 |-> IF k = m + 1 THEN d[m + 1][f[m]] ELSE f[k]]
  <2>2. d[m + 1][f[m]] \in X
    OBVIOUS
  <2>3. g \in [0 .. m + 1 -> X]
    BY <2>2
  <2>4. \A k \in 0 .. m : f[k] = IF k = 0 THEN x ELSE d[k][f[k - 1]]
    BY <2>1 DEF Recursion
  <2>5. ASSUME NEW k \in 0 .. m + 1 PROVE g[k] = IF k = 0 THEN x ELSE d[k][g[k - 1]]
    <3>1. CASE k = m + 1
      <4>1. g[k] = d[m + 1][f[m]] /\ g[k - 1] = f[m] /\ k # 0
        BY <3>1
      <4> QED
        BY <3>1, <4>1
    <3>2. CASE k # m + 1
      <4>1. k \in 0 .. m /\ g[k] = f[k]
        BY <3>2
      <4>2. k # 0 => g[k - 1] = f[k - 1]
        BY <4>1
      <4> QED
        BY <2>4, <4>1, <4>2
    <3> QED
      BY <3>1, <3>2
  <2>6. Recursion(g, m + 1, x, d)
    BY <2>5 DEF Recursion
  <2> QED
    BY <2>3, <2>6
<1>3. n \in S
  BY <1>1, <1>2, SetInduction
<1> QED
  BY <1>3

-----------------------------------------------------------------------------
(* Sums.                                                                   *)

Sums(f, ws) == f = [k \in 0 .. Len(ws) |-> IF k = 0 THEN 0 ELSE f[k - 1] + ws[k]]

LEMMA SumsExist ==
    ASSUME NEW ws \in Seq(Int)
    PROVE  \E f \in [0 .. Len(ws) -> Int] : Sums(f, ws)
<1> DEFINE d == [k \in 1 .. Len(ws) |-> [t \in Int |-> t + ws[k]]]
<1>1. Len(ws) \in Nat /\ d \in [1 .. Len(ws) -> [Int -> Int]]
  OBVIOUS
<1>2. PICK f \in [0 .. Len(ws) -> Int] : Recursion(f, Len(ws), 0, d)
  <2> HIDE DEF d
  <2>1. 0 \in Int
    OBVIOUS
  <2> QED BY <1>1, <2>1, RecursionExists, Zenon
<1>3. ASSUME NEW k \in 0 .. Len(ws), k # 0 PROVE d[k][f[k - 1]] = f[k - 1] + ws[k]
  <2>1. k \in 1 .. Len(ws) /\ f[k - 1] \in Int
    BY <1>3
  <2> QED
    BY <2>1
<1>4. Sums(f, ws)
  BY <1>2, <1>3 DEF Recursion, Sums
<1> QED
  BY <1>4

(* The sum of the first k weights.                                         *)
Sum(ws) == CHOOSE f : Sums(f, ws)

LEMMA SumStep ==
    ASSUME NEW ws \in Seq(Int)
    PROVE  /\ Sum(ws)[0] = 0
           /\ \A k \in 1 .. Len(ws) : Sum(ws)[k] = Sum(ws)[k - 1] + ws[k]
           /\ \A k \in 0 .. Len(ws) : Sum(ws)[k] \in Int
           /\ Total(ws) = Sum(ws)[Len(ws)]
<1>1. Sums(Sum(ws), ws)
  BY SumsExist DEF Sum
<1>2. \A k \in 0 .. Len(ws) : Sum(ws)[k] = IF k = 0 THEN 0 ELSE Sum(ws)[k - 1] + ws[k]
  BY <1>1 DEF Sums
<1>3. Total(ws) = Sum(ws)[Len(ws)]
  BY DEF Total, Sum, Sums
<1> DEFINE S == {k \in Nat : k <= Len(ws) => Sum(ws)[k] \in Int}
<1>4. 0 \in S
  BY <1>2
<1>5. \A k \in Nat : k \in S => k + 1 \in S
  BY <1>2
<1>6. Nat \subseteq S
  <2> HIDE DEF S
  <2> QED BY <1>4, <1>5, SetInduction
<1> QED
  BY <1>2, <1>3, <1>6

LEMMA TotalIsInt ==
    ASSUME NEW ws \in Seq(Int)
    PROVE  Total(ws) \in Int
BY SumStep

(* Adding place by place adds the totals.                                  *)
LEMMA TotalAdds ==
    ASSUME NEW a \in Seq(Int), NEW b \in Seq(Int), NEW c \in Seq(Int),
           Len(b) = Len(a), Len(c) = Len(a), \A i \in 1 .. Len(a) : c[i] = a[i] + b[i]
    PROVE  Total(c) = Total(a) + Total(b)
<1> DEFINE S == {k \in Nat : k <= Len(a) => Sum(c)[k] = Sum(a)[k] + Sum(b)[k]}
<1>1. 0 \in S
  BY SumStep
<1>2. ASSUME NEW k \in Nat, k \in S PROVE k + 1 \in S
  <2> SUFFICES ASSUME k + 1 <= Len(a) PROVE Sum(c)[k + 1] = Sum(a)[k + 1] + Sum(b)[k + 1]
    OBVIOUS
  <2>1. k + 1 \in 1 .. Len(a) /\ (k + 1) - 1 = k /\ k \in 0 .. Len(a)
    OBVIOUS
  <2>2. Sum(c)[k] = Sum(a)[k] + Sum(b)[k]
    BY <1>2, <2>1
  <2>3. /\ Sum(a)[k + 1] = Sum(a)[k] + a[k + 1] /\ Sum(a)[k] \in Int
        /\ Sum(b)[k + 1] = Sum(b)[k] + b[k + 1] /\ Sum(b)[k] \in Int
        /\ Sum(c)[k + 1] = Sum(c)[k] + c[k + 1]
    BY <2>1, SumStep
  <2>4. a[k + 1] \in Int /\ b[k + 1] \in Int /\ c[k + 1] = a[k + 1] + b[k + 1]
    BY <2>1
  <2>5. Sum(c)[k + 1] = (Sum(a)[k] + Sum(b)[k]) + (a[k + 1] + b[k + 1])
    BY <2>2, <2>3, <2>4, Zenon
  <2>6. Sum(c)[k + 1] = (Sum(a)[k] + a[k + 1]) + (Sum(b)[k] + b[k + 1])
    <3> DEFINE x == Sum(a)[k]  y == Sum(b)[k]  u == a[k + 1]  v == b[k + 1]
    <3>1. x \in Int /\ y \in Int /\ u \in Int /\ v \in Int
      BY <2>3, <2>4, Zenon
    <3>2. Sum(c)[k + 1] = (x + y) + (u + v)
      BY <2>5, Zenon
    <3> HIDE DEF x, y, u, v
    <3>3. (x + y) + (u + v) = (x + u) + (y + v)
      BY <3>1
    <3>4. Sum(c)[k + 1] = (x + u) + (y + v)
      BY <3>2, <3>3, Zenon
    <3> QED
      BY <3>4 DEF x, y, u, v
  <2> QED
    BY <2>3, <2>6, Zenon
<1>3. Len(a) \in S
  <2>1. Len(a) \in Nat
    OBVIOUS
  <2> HIDE DEF S
  <2> QED BY <1>1, <1>2, <2>1, SetInduction
<1> QED
  BY <1>3, SumStep

(* What one place pays goes from the total.                                *)
LEMMA TotalPays ==
    ASSUME NEW g \in Seq(Int), NEW i \in 1 .. Len(g), NEW t \in Int
    PROVE  Total([g EXCEPT ![i] = @ - t]) = Total(g) - t
<1> DEFINE h == [g EXCEPT ![i] = @ - t]
           S == {k \in Nat : k <= Len(g) => Sum(h)[k] = Sum(g)[k] - (IF k >= i THEN t ELSE 0)}
<1>0. /\ h \in Seq(Int) /\ Len(h) = Len(g)
      /\ \A k \in 1 .. Len(g) : h[k] = IF k = i THEN g[k] - t ELSE g[k]
  OBVIOUS
<1> HIDE DEF h
<1>1. 0 \in S
  <2>1. Sum(h)[0] = 0 /\ Sum(g)[0] = 0
    BY <1>0, SumStep
  <2> QED
    BY <2>1
<1>2. ASSUME NEW k \in Nat, k \in S PROVE k + 1 \in S
  <2> SUFFICES ASSUME k + 1 <= Len(g)
               PROVE  Sum(h)[k + 1] = Sum(g)[k + 1] - (IF k + 1 >= i THEN t ELSE 0)
    OBVIOUS
  <2>1. k + 1 \in 1 .. Len(g) /\ (k + 1) - 1 = k /\ k \in 0 .. Len(g)
    OBVIOUS
  <2>2. Sum(h)[k] = Sum(g)[k] - (IF k >= i THEN t ELSE 0)
    BY <1>2, <2>1
  <2>3. /\ Sum(g)[k + 1] = Sum(g)[k] + g[k + 1] /\ Sum(g)[k] \in Int
        /\ Sum(h)[k + 1] = Sum(h)[k] + h[k + 1]
    BY <1>0, <2>1, SumStep
  <2>4. g[k + 1] \in Int /\ h[k + 1] = IF k + 1 = i THEN g[k + 1] - t ELSE g[k + 1]
    BY <1>0, <2>1
  <2> QED
    BY <2>2, <2>3, <2>4
<1>3. Len(g) \in S
  <2>1. Len(g) \in Nat
    OBVIOUS
  <2> HIDE DEF S
  <2> QED BY <1>1, <1>2, <2>1, SetInduction
<1>4. Sum(h)[Len(g)] = Sum(g)[Len(g)] - t
  BY <1>3
<1>5. Total(h) = Sum(h)[Len(g)] /\ Total(g) = Sum(g)[Len(g)]
  BY <1>0, SumStep
<1> QED
  BY <1>4, <1>5 DEF h

LEMMA TotalOfNone ==
    ASSUME NEW g \in Seq(Int), \A i \in 1 .. Len(g) : g[i] <= 0
    PROVE  Total(g) <= 0
<1> DEFINE S == {k \in Nat : k <= Len(g) => Sum(g)[k] <= 0}
<1>1. 0 \in S
  BY SumStep
<1>2. ASSUME NEW k \in Nat, k \in S PROVE k + 1 \in S
  <2> SUFFICES ASSUME k + 1 <= Len(g) PROVE Sum(g)[k + 1] <= 0
    OBVIOUS
  <2>1. k + 1 \in 1 .. Len(g) /\ (k + 1) - 1 = k /\ k \in 0 .. Len(g)
    OBVIOUS
  <2>2. Sum(g)[k] <= 0
    BY <1>2, <2>1
  <2>3. Sum(g)[k + 1] = Sum(g)[k] + g[k + 1] /\ Sum(g)[k] \in Int
    BY <2>1, SumStep
  <2> QED
    BY <2>1, <2>2, <2>3
<1>3. Len(g) \in S
  <2>1. Len(g) \in Nat
    OBVIOUS
  <2> HIDE DEF S
  <2> QED BY <1>1, <1>2, <2>1, SetInduction
<1> QED
  BY <1>3, SumStep

(* A total holds each of its parts, when none is negative.                 *)
LEMMA TotalHolds ==
    ASSUME NEW g \in Seq(Int), \A i \in 1 .. Len(g) : g[i] >= 0, NEW x \in 1 .. Len(g)
    PROVE  Total(g) >= g[x]
<1> DEFINE S == {k \in Nat : k <= Len(g) => Sum(g)[k] >= (IF k >= x THEN g[x] ELSE 0)}
<1>1. 0 \in S
  BY SumStep
<1>2. ASSUME NEW k \in Nat, k \in S PROVE k + 1 \in S
  <2> SUFFICES ASSUME k + 1 <= Len(g)
               PROVE  Sum(g)[k + 1] >= (IF k + 1 >= x THEN g[x] ELSE 0)
    OBVIOUS
  <2>1. k + 1 \in 1 .. Len(g) /\ (k + 1) - 1 = k /\ k \in 0 .. Len(g)
    OBVIOUS
  <2>2. Sum(g)[k] >= (IF k >= x THEN g[x] ELSE 0)
    BY <1>2, <2>1
  <2>3. Sum(g)[k + 1] = Sum(g)[k] + g[k + 1] /\ Sum(g)[k] \in Int
    BY <2>1, SumStep
  <2>4. g[k + 1] \in Int /\ g[k + 1] >= 0 /\ g[x] \in Int /\ g[x] >= 0
    BY <2>1
  <2> QED
    BY <2>2, <2>3, <2>4
<1>3. Len(g) \in S
  <2>1. Len(g) \in Nat
    OBVIOUS
  <2> HIDE DEF S
  <2> QED BY <1>1, <1>2, <2>1, SetInduction
<1> QED
  BY <1>3, SumStep

-----------------------------------------------------------------------------
(* A selection.                                                            *)

LEMMA FirstMaxIs ==
    ASSUME NEW s \in Seq(Int), Len(s) > 0
    PROVE  /\ FirstMax(s) \in 1 .. Len(s)
           /\ \A j \in 1 .. Len(s) : s[j] <= s[FirstMax(s)]
<1> DEFINE Best(i, k) == \A j \in 1 .. k : s[j] < s[i] \/ (s[j] = s[i] /\ i <= j)
           S == {k \in Nat : k + 1 <= Len(s) => \E i \in 1 .. k + 1 : Best(i, k + 1)}
<1>1. 0 \in S
  <2>1. Best(1, 0 + 1)
    OBVIOUS
  <2> QED
    BY <2>1
<1>2. ASSUME NEW k \in Nat, k \in S PROVE k + 1 \in S
  <2> SUFFICES ASSUME k + 1 + 1 <= Len(s) PROVE \E i \in 1 .. k + 1 + 1 : Best(i, k + 1 + 1)
    OBVIOUS
  <2>1. PICK i \in 1 .. k + 1 : Best(i, k + 1)
    BY <1>2
  <2>2. \A j \in 1 .. k + 2 : s[j] \in Int
    OBVIOUS
  <2>3. CASE s[i] < s[k + 2]
    <3>1. Best(k + 2, k + 2)
      BY <2>1, <2>2, <2>3
    <3>2. k + 2 \in 1 .. k + 2 /\ k + 1 + 1 = k + 2
      OBVIOUS
    <3> HIDE DEF Best
    <3> QED
      BY <3>1, <3>2
  <2>4. CASE ~ (s[i] < s[k + 2])
    <3>1. Best(i, k + 2)
      BY <2>1, <2>2, <2>4
    <3>2. i \in 1 .. k + 2 /\ k + 1 + 1 = k + 2
      OBVIOUS
    <3> HIDE DEF Best
    <3> QED
      BY <3>1, <3>2
  <2> QED
    BY <2>3, <2>4
<1>3. Len(s) - 1 \in S
  <2>1. Len(s) - 1 \in Nat
    OBVIOUS
  <2> HIDE DEF S
  <2> QED BY <1>1, <1>2, <2>1, SetInduction
<1> DEFINE first(i) == \A j \in DOMAIN s : s[j] < s[i] \/ (s[j] = s[i] /\ i <= j)
<1>4. \E i \in DOMAIN s : first(i)
  <2>1. (Len(s) - 1) + 1 = Len(s) /\ DOMAIN s = 1 .. Len(s)
    OBVIOUS
  <2>2. \E i \in 1 .. Len(s) : Best(i, Len(s))
    BY <1>3, <2>1
  <2> QED
    BY <2>1, <2>2
<1>5. FirstMax(s) \in DOMAIN s /\ first(FirstMax(s))
  <2>1. FirstMax(s) = CHOOSE i \in DOMAIN s : first(i)
    BY DEF FirstMax
  <2> HIDE DEF first
  <2> QED
    BY <1>4, <2>1
<1> QED
  BY <1>5

(* The current weights of a balancer with weights ws.                      *)
Currents(ws) == [1 .. Len(ws) -> Int]

(* No weight is more than the total below zero, and they cancel out.       *)
Balanced(cur, ws) ==
    /\ Total(cur) = 0
    /\ \A i \in 1 .. Len(ws) : cur[i] > -Total(ws)

LEMMA CurrentsAreSeqs ==
    ASSUME NEW ws \in Seq(Int), NEW cur \in Currents(ws)
    PROVE  cur \in Seq(Int) /\ Len(cur) = Len(ws) /\ Len(ws) \in Nat
BY DEF Currents

(* Select picks an instance, adds the weights and takes the total from it. *)
LEMMA SelectDoes ==
    ASSUME NEW ws \in Seq(Int), Total(ws) > 0, NEW cur \in Currents(ws)
    PROVE  LET r == Select(Len(ws), cur, ws)
           IN  /\ r = [cur |-> r.cur, pick |-> r.pick]
               /\ r.pick \in 1 .. Len(ws) /\ r.cur \in Currents(ws)
               /\ \A i \in 1 .. Len(ws) :
                     r.cur[i] = cur[i] + ws[i] - (IF i = r.pick THEN Total(ws) ELSE 0)
               /\ \A i \in 1 .. Len(ws) :
                     cur[i] + ws[i] <= cur[r.pick] + ws[r.pick]
               /\ Total(r.cur) = Total(cur)
<1> DEFINE r == Select(Len(ws), cur, ws)
           g == Grown(cur, ws)
           x == FirstMax(g)
<1>1. cur \in Seq(Int) /\ Len(cur) = Len(ws) /\ Len(ws) \in Nat /\ Total(ws) \in Int
  BY CurrentsAreSeqs, TotalIsInt
<1>2. Len(ws) # 0
  <2> SUFFICES ASSUME Len(ws) = 0 PROVE Total(ws) <= 0
    BY <1>1
  <2>1. \A i \in 1 .. Len(ws) : ws[i] <= 0
    OBVIOUS
  <2> QED
    BY <2>1, TotalOfNone
<1>3. r = [cur |-> [g EXCEPT ![x] = @ - Total(ws)], pick |-> x]
  BY <1>1, <1>2 DEF Select, Refuses, Smooth
<1>4. /\ g \in Seq(Int) /\ Len(g) = Len(ws)
      /\ \A i \in 1 .. Len(ws) : g[i] = cur[i] + ws[i]
  BY <1>1 DEF Grown
<1>5. x \in 1 .. Len(ws) /\ \A i \in 1 .. Len(ws) : g[i] <= g[x]
  BY <1>1, <1>2, <1>4, FirstMaxIs
<1> HIDE DEF g, x
<1>6. /\ r.pick = x /\ r.cur \in Seq(Int) /\ Len(r.cur) = Len(ws)
      /\ r.cur = [g EXCEPT ![x] = @ - Total(ws)]
      /\ r = [cur |-> r.cur, pick |-> r.pick]
  BY <1>1, <1>3, <1>4, <1>5
<1>7. \A i \in 1 .. Len(ws) : r.cur[i] = g[i] - (IF i = x THEN Total(ws) ELSE 0)
  BY <1>1, <1>4, <1>5, <1>6
<1>8. Total(r.cur) = Total(cur)
  <2>1. Total(r.cur) = Total(g) - Total(ws)
    <3>1. Total([g EXCEPT ![x] = @ - Total(ws)]) = Total(g) - Total(ws)
      BY <1>1, <1>4, <1>5, TotalPays
    <3> HIDE DEF r
    <3> QED
      BY <1>6, <3>1
  <2>2. Total(g) = Total(cur) + Total(ws)
    BY <1>1, <1>4, TotalAdds
  <2>3. Total(cur) \in Int
    BY <1>1, TotalIsInt
  <2> QED
    BY <1>1, <2>1, <2>2, <2>3
<1>9. r.cur \in Currents(ws)
  BY <1>6 DEF Currents
<1> HIDE DEF r
<1>10. \A i \in 1 .. Len(ws) : cur[i] + ws[i] <= cur[r.pick] + ws[r.pick]
  BY <1>4, <1>5, <1>6
<1>11. \A i \in 1 .. Len(ws) :
           r.cur[i] = cur[i] + ws[i] - (IF i = r.pick THEN Total(ws) ELSE 0)
  <2> SUFFICES ASSUME NEW i \in 1 .. Len(ws)
               PROVE  r.cur[i] = cur[i] + ws[i] - (IF i = r.pick THEN Total(ws) ELSE 0)
    OBVIOUS
  <2>1. r.cur[i] = g[i] - (IF i = x THEN Total(ws) ELSE 0) /\ g[i] = cur[i] + ws[i] /\ r.pick = x
    BY <1>4, <1>6, <1>7
  <2>2. cur[i] \in Int /\ ws[i] \in Int /\ Total(ws) \in Int
    BY <1>1
  <2> QED
    BY <2>1, <2>2
<1> QED
  BY <1>5, <1>6, <1>8, <1>9, <1>10, <1>11 DEF r

(* What is picked had more than nothing, since the weights that grew have  *)
(* the total of ws: it does not fall below minus the total.                *)
LEMMA SelectBalances ==
    ASSUME NEW ws \in Seq(Nat), Total(ws) > 0, NEW cur \in Currents(ws), Balanced(cur, ws)
    PROVE  Balanced(Select(Len(ws), cur, ws).cur, ws)
<1> DEFINE r == Select(Len(ws), cur, ws)
           g == Grown(cur, ws)
<1>1. ws \in Seq(Int) /\ Total(ws) \in Int
  BY TotalIsInt
<1>2. cur \in Seq(Int) /\ Len(cur) = Len(ws) /\ Len(ws) \in Nat
  BY <1>1, CurrentsAreSeqs
<1>3. /\ r.pick \in 1 .. Len(ws) /\ r.cur \in Currents(ws)
      /\ \A i \in 1 .. Len(ws) :
            r.cur[i] = cur[i] + ws[i] - (IF i = r.pick THEN Total(ws) ELSE 0)
      /\ \A i \in 1 .. Len(ws) : cur[i] + ws[i] <= cur[r.pick] + ws[r.pick]
      /\ Total(r.cur) = Total(cur)
  BY <1>1, SelectDoes
<1>4. g \in Seq(Int) /\ Len(g) = Len(ws) /\ \A i \in 1 .. Len(ws) : g[i] = cur[i] + ws[i]
  BY <1>1, <1>2 DEF Grown
<1>5. Total(g) = Total(ws)
  <2>1. Total(g) = Total(cur) + Total(ws)
    BY <1>1, <1>2, <1>4, TotalAdds
  <2> QED
    BY <1>1, <2>1 DEF Balanced
<1> HIDE DEF r, g
<1>6. PICK i \in 1 .. Len(ws) : ~ (g[i] <= 0)
  BY <1>4, <1>5, TotalOfNone, <1>1
<1>7. cur[r.pick] + ws[r.pick] > 0
  <2>1. g[i] \in Int /\ g[i] <= cur[r.pick] + ws[r.pick]
    BY <1>3, <1>4
  <2>2. cur[r.pick] \in Int /\ ws[r.pick] \in Int
    BY <1>1, <1>3 DEF Currents
  <2> QED
    BY <1>6, <2>1, <2>2
<1>8. ASSUME NEW j \in 1 .. Len(ws) PROVE r.cur[j] > -Total(ws)
  <2>1. cur[j] \in Int /\ ws[j] \in Int /\ ws[j] >= 0 /\ cur[j] > -Total(ws)
    BY <1>1 DEF Currents, Balanced
  <2>2. r.cur[j] = cur[j] + ws[j] - (IF j = r.pick THEN Total(ws) ELSE 0)
    BY <1>3
  <2> QED
    BY <1>1, <1>7, <2>1, <2>2
<1> QED
  BY <1>3, <1>8 DEF Balanced, r

-----------------------------------------------------------------------------
(* Many selections.                                                        *)

Fresh(ws) == [cur |-> [i \in 1 .. Len(ws) |-> 0], pick |-> 0]
States(ws) == [cur : Currents(ws), pick : Int]

LEMMA RunIs ==
    ASSUME NEW ws \in Seq(Int), Total(ws) > 0, NEW n \in Nat
    PROVE  LET run == SmoothRun(ws, n)
           IN  /\ run \in [0 .. n -> States(ws)]
               /\ run[0] = Fresh(ws)
               /\ \A k \in 1 .. n : run[k] = Select(Len(ws), run[k - 1].cur, ws)
<1> DEFINE d == [k \in 1 .. n |-> [s \in States(ws) |-> Select(Len(ws), s.cur, ws)]]
           Runs(f) == f = [k \in 0 .. n |-> IF k = 0 THEN Fresh(ws)
                                            ELSE Select(Len(ws), f[k - 1].cur, ws)]
<1>1. ASSUME NEW s \in States(ws) PROVE Select(Len(ws), s.cur, ws) \in States(ws)
  <2> DEFINE r == Select(Len(ws), s.cur, ws)
  <2>1. s.cur \in Currents(ws)
    BY DEF States
  <2>2. r = [cur |-> r.cur, pick |-> r.pick] /\ r.cur \in Currents(ws) /\ r.pick \in 1 .. Len(ws)
    BY <2>1, SelectDoes
  <2>3. r.pick \in Int
    BY <2>2
  <2> HIDE DEF r
  <2>4. [cur |-> r.cur, pick |-> r.pick] \in States(ws)
    BY <2>2, <2>3 DEF States
  <2>5. r \in States(ws)
    BY <2>2, <2>4, Zenon
  <2> QED
    BY <2>5 DEF r
<1>2. Fresh(ws) \in States(ws)
  BY DEF Fresh, States, Currents
<1>3. d \in [1 .. n -> [States(ws) -> States(ws)]]
  BY <1>1
<1>4. PICK f \in [0 .. n -> States(ws)] : Recursion(f, n, Fresh(ws), d)
  <2> HIDE DEF d
  <2> QED BY <1>2, <1>3, RecursionExists
<1>5. ASSUME NEW k \in 0 .. n, k # 0 PROVE d[k][f[k - 1]] = Select(Len(ws), f[k - 1].cur, ws)
  <2>1. k \in 1 .. n /\ f[k - 1] \in States(ws)
    BY <1>5
  <2> QED
    BY <2>1
<1>6. Runs(f)
  <2> HIDE DEF d
  <2>1. f = [k \in 0 .. n |-> IF k = 0 THEN Fresh(ws) ELSE d[k][f[k - 1]]]
    BY <1>4 DEF Recursion
  <2> QED
    BY <1>5, <2>1
<1> DEFINE run == CHOOSE g : Runs(g)
<1>7. Runs(run)
  <2> HIDE DEF Runs
  <2> QED BY <1>6
<1>8. SmoothRun(ws, n) = run
  BY DEF SmoothRun, Fresh
<1> HIDE DEF run
<1>9. /\ \A k \in 0 .. n : run[k] = IF k = 0 THEN Fresh(ws)
                                   ELSE Select(Len(ws), run[k - 1].cur, ws)
      /\ run = [k \in 0 .. n |-> run[k]]
  BY <1>7
<1> HIDE DEF Runs
<1> DEFINE S == {k \in Nat : k <= n => run[k] \in States(ws)}
<1>10. 0 \in S
  BY <1>2, <1>9
<1>11. ASSUME NEW k \in Nat, k \in S PROVE k + 1 \in S
  <2> SUFFICES ASSUME k + 1 <= n PROVE run[k + 1] \in States(ws)
    OBVIOUS
  <2>1. run[k] \in States(ws)
    BY <1>11
  <2>2. k + 1 \in 0 .. n /\ k + 1 # 0 /\ (k + 1) - 1 = k
    OBVIOUS
  <2>3. run[k + 1] = Select(Len(ws), run[k].cur, ws)
    BY <1>9, <2>2
  <2> QED
    BY <1>1, <2>1, <2>3
<1>12. \A k \in 0 .. n : run[k] \in States(ws)
  <2>1. Nat \subseteq S
    <3> HIDE DEF S
    <3> QED BY <1>10, <1>11, SetInduction
  <2> QED
    BY <2>1
<1>13. run \in [0 .. n -> States(ws)]
  <2> DEFINE e(k) == run[k]
  <2>1. [k \in 0 .. n |-> e(k)] \in [0 .. n -> States(ws)]
    <3>1. \A k \in 0 .. n : e(k) \in States(ws)
      BY <1>12
    <3> HIDE DEF e
    <3> QED BY <3>1
  <2> QED
    BY <1>9, <2>1
<1>14. run[0] = Fresh(ws) /\ \A k \in 1 .. n : run[k] = Select(Len(ws), run[k - 1].cur, ws)
  BY <1>9
<1> QED
  BY <1>8, <1>13, <1>14

(* One selection more picks one instance once more.                        *)
LEMMA OneTimeMore ==
    ASSUME NEW run, NEW x, NEW k \in Nat
    PROVE  /\ Times(run, x, 1, 0) = 0
           /\ Times(run, x, 1, k) \in Nat
           /\ run[k + 1].pick = x => Times(run, x, 1, k + 1) = Times(run, x, 1, k) + 1
           /\ run[k + 1].pick # x => Times(run, x, 1, k + 1) = Times(run, x, 1, k)
<1> DEFINE T(j) == {i \in 1 .. j : run[i].pick = x}
<1>1. T(0) = {}
  OBVIOUS
<1>2. IsFiniteSet(T(k))
  <2>1. 1 \in Int /\ k \in Int /\ T(k) \subseteq 1 .. k
    OBVIOUS
  <2> HIDE DEF T
  <2> QED BY <2>1, FS_Interval, FS_Subset
<1>3. T(k + 1) = IF run[k + 1].pick = x THEN T(k) \cup {k + 1} ELSE T(k)
  OBVIOUS
<1>4. k + 1 \notin T(k)
  OBVIOUS
<1>5. Cardinality(T(k)) \in Nat
  BY <1>2, FS_CardinalityType
<1>6. run[k + 1].pick = x => Cardinality(T(k + 1)) = Cardinality(T(k)) + 1
  <2> HIDE DEF T
  <2> QED BY <1>2, <1>3, <1>4, FS_AddElement
<1>8. run[k + 1].pick # x => Cardinality(T(k + 1)) = Cardinality(T(k))
  <2> HIDE DEF T
  <2> QED BY <1>3
<1>7. Cardinality(T(0)) = 0
  BY <1>1, FS_EmptySet
<1> QED
  BY <1>5, <1>6, <1>7, <1>8 DEF Times

(* What is picked up to b is picked up to a or behind it.                  *)
LEMMA TimesSplit ==
    ASSUME NEW run, NEW x, NEW a \in Nat, NEW b \in Nat, a <= b
    PROVE  Times(run, x, 1, b) = Times(run, x, 1, a) + Times(run, x, a + 1, b)
<1> DEFINE T(i, j) == {k \in i .. j : run[k].pick = x}
<1>1. T(1, b) = T(1, a) \cup T(a + 1, b) /\ T(1, a) \cap T(a + 1, b) = {}
  OBVIOUS
<1>2. IsFiniteSet(T(1, a)) /\ IsFiniteSet(T(a + 1, b))
  <2>1. 1 \in Int /\ a \in Int /\ a + 1 \in Int /\ b \in Int
    OBVIOUS
  <2>2. T(1, a) \subseteq 1 .. a /\ T(a + 1, b) \subseteq (a + 1) .. b
    OBVIOUS
  <2> HIDE DEF T
  <2> QED BY <2>1, <2>2, FS_Interval, FS_Subset
<1>3. Cardinality(T(1, a)) \in Nat /\ Cardinality(T(a + 1, b)) \in Nat
  BY <1>2, FS_CardinalityType
<1> HIDE DEF T
<1>4. Cardinality(T(1, b)) = Cardinality(T(1, a)) + Cardinality(T(a + 1, b))
  BY <1>1, <1>2, <1>3, FS_Union, FS_EmptySet
<1> QED
  BY <1>4 DEF Times, T

LEMMA Distributes ==
    /\ \A a, b \in Int : (a + 1) * b = a * b + b /\ b * (a + 1) = b * a + b
    /\ \A a, b, c \in Int : (a + b) * c = a * c + b * c /\ c * (a + b) = c * a + c * b
    /\ \A a, b \in Int : a * b \in Int
    /\ \A a, b, c \in Int : a > 0 /\ a * b = a * c => b = c
<1>1. \A a, b, c \in Int : a > 0 /\ b < c => a * b < a * c
  OBVIOUS
<1>2. \A a, b \in Int : a * b \in Int
  OBVIOUS
<1>3. \A a, b, c \in Int : a > 0 /\ a * b = a * c => b = c
  <2> TAKE a, b, c \in Int
  <2>1. b < c \/ c < b \/ b = c
    OBVIOUS
  <2> QED
    BY <1>1, <1>2, <2>1
<1> QED
  BY <1>2, <1>3

(* Where the weights stand after k selections says who was picked.         *)
LEMMA RunCounts ==
    ASSUME NEW ws \in Seq(Nat), Total(ws) > 0, NEW n \in Nat,
           NEW run, run = SmoothRun(ws, n), NEW k \in 0 .. n
    PROVE  /\ run[k].cur \in Currents(ws) /\ Balanced(run[k].cur, ws)
           /\ \A i \in 1 .. Len(ws) :
                 run[k].cur[i] = k * ws[i] - Total(ws) * Times(run, i, 1, k)
<1> DEFINE t == Total(ws)
           Stands(j) == \A i \in 1 .. Len(ws) :
                            run[j].cur[i] = j * ws[i] - t * Times(run, i, 1, j)
           S == {j \in Nat : j <= n => Balanced(run[j].cur, ws) /\ Stands(j)}
<1>1. ws \in Seq(Int) /\ t \in Int /\ t > 0
  BY TotalIsInt
<1>2. /\ run \in [0 .. n -> States(ws)]
      /\ run[0] = Fresh(ws)
      /\ \A j \in 1 .. n : run[j] = Select(Len(ws), run[j - 1].cur, ws)
  BY <1>1, RunIs
<1>3. \A j \in 0 .. n : run[j].cur \in Currents(ws)
  BY <1>2 DEF States
<1>4. 0 \in S
  <2> DEFINE z == [i \in 1 .. Len(ws) |-> 0]
  <2>1. run[0].cur = z
    BY <1>2 DEF Fresh
  <2>2. z \in Currents(ws) /\ z \in Seq(Int) /\ Len(z) = Len(ws)
    <3>1. z \in Currents(ws)
      BY DEF Currents
    <3> HIDE DEF z
    <3> QED BY <1>1, <3>1, CurrentsAreSeqs
  <2>3. Total(z) = 0
    <3>1. \A i \in 1 .. Len(z) : z[i] = z[i] + z[i]
      BY <2>2
    <3> HIDE DEF z
    <3>2. Total(z) = Total(z) + Total(z)
      BY <2>2, <3>1, TotalAdds
    <3>3. Total(z) \in Int
      BY <2>2, TotalIsInt
    <3> QED
      BY <3>2, <3>3
  <2>4. Balanced(run[0].cur, ws)
    BY <1>1, <2>1, <2>3 DEF Balanced
  <2>5. Stands(0)
    <3> SUFFICES ASSUME NEW i \in 1 .. Len(ws)
                 PROVE  run[0].cur[i] = 0 * ws[i] - t * Times(run, i, 1, 0)
      OBVIOUS
    <3>1. Times(run, i, 1, 0) = 0
      BY OneTimeMore
    <3>2. ws[i] \in Int
      BY <1>1
    <3> HIDE DEF t
    <3> QED
      BY <1>1, <2>1, <3>1, <3>2
  <2> QED
    BY <2>4, <2>5
<1>5. ASSUME NEW j \in Nat, j \in S PROVE j + 1 \in S
  <2> SUFFICES ASSUME j + 1 <= n PROVE Balanced(run[j + 1].cur, ws) /\ Stands(j + 1)
    OBVIOUS
  <2>1. Balanced(run[j].cur, ws) /\ Stands(j) /\ run[j].cur \in Currents(ws)
    BY <1>3, <1>5
  <2>2. run[j + 1] = Select(Len(ws), run[j].cur, ws)
    <3>1. j + 1 \in 1 .. n /\ (j + 1) - 1 = j
      OBVIOUS
    <3> QED
      BY <1>2, <3>1
  <2>3. Balanced(run[j + 1].cur, ws)
    BY <2>1, <2>2, SelectBalances
  <2>4. ASSUME NEW i \in 1 .. Len(ws)
        PROVE  run[j + 1].cur[i] = (j + 1) * ws[i] - t * Times(run, i, 1, j + 1)
    <3> DEFINE T == Times(run, i, 1, j)
               w == ws[i]
               c == run[j].cur[i]
    <3>1. w \in Int /\ c \in Int
      BY <1>1, <2>1 DEF Currents
    <3>2. /\ T \in Nat
          /\ run[j + 1].pick = i => Times(run, i, 1, j + 1) = T + 1
          /\ run[j + 1].pick # i => Times(run, i, 1, j + 1) = T
      BY OneTimeMore, Zenon
    <3>3. c = j * w - t * T
      BY <2>1
    <3>4. run[j + 1].cur[i] = c + w - (IF i = run[j + 1].pick THEN t ELSE 0)
      <4>1. \A x \in 1 .. Len(ws) :
                Select(Len(ws), run[j].cur, ws).cur[x]
                  = run[j].cur[x] + ws[x]
                      - (IF x = Select(Len(ws), run[j].cur, ws).pick THEN Total(ws) ELSE 0)
        BY <1>1, <2>1, SelectDoes, Zenon
      <4> QED
        BY <2>2, <4>1, Zenon
    <3> HIDE DEF T, w, c, t
    <3>5. (j + 1) * w = j * w + w /\ t * (T + 1) = t * T + t /\ j * w \in Int /\ t * T \in Int
      <4>1. T \in Int /\ j \in Int
        BY <3>2
      <4> QED
        BY <1>1, <3>1, <4>1, Distributes
    <3>6. CASE run[j + 1].pick = i
      <4>1. run[j + 1].cur[i] = c + w - t /\ Times(run, i, 1, j + 1) = T + 1
        BY <3>2, <3>4, <3>6
      <4>2. c + w - t = (j + 1) * w - t * (T + 1)
        BY <1>1, <3>1, <3>3, <3>5
      <4> QED
        BY <4>1, <4>2 DEF w
    <3>7. CASE run[j + 1].pick # i
      <4>1. run[j + 1].cur[i] = c + w - 0 /\ Times(run, i, 1, j + 1) = T
        BY <3>2, <3>4, <3>7
      <4>2. c + w - 0 = (j + 1) * w - t * T
        BY <1>1, <3>1, <3>3, <3>5
      <4> QED
        BY <4>1, <4>2 DEF w
    <3> QED
      BY <3>6, <3>7
  <2> QED
    BY <2>3, <2>4
<1>6. k \in S
  <2>1. k \in Nat
    OBVIOUS
  <2> HIDE DEF S
  <2> QED BY <1>4, <1>5, <2>1, SetInduction
<1> QED
  BY <1>3, <1>6

(* As many selections as the weights sum up to pick each instance as often *)
(* as its weight says, and leave the current weights as they were.         *)
LEMMA OneRound ==
    ASSUME NEW ws \in Seq(Nat), Total(ws) > 0, NEW n \in Nat, Total(ws) <= n,
           NEW run, run = SmoothRun(ws, n)
    PROVE  run[Total(ws)].cur = run[0].cur
<1> DEFINE t == Total(ws)
           c == run[t].cur
<1>1. ws \in Seq(Int) /\ t \in Int /\ t \in 0 .. n /\ t \in Nat
  BY TotalIsInt
<1>2. c \in Currents(ws) /\ Balanced(c, ws) /\ c \in Seq(Int) /\ Len(c) = Len(ws)
  BY <1>1, RunCounts, CurrentsAreSeqs
<1>3. ASSUME NEW i \in 1 .. Len(ws) PROVE c[i] >= 0
  <2> DEFINE T == Times(run, i, 1, t)
             w == ws[i]
  <2>1. w \in Nat /\ T \in Nat
    <3>1. T \in Nat
      BY <1>1, OneTimeMore, Zenon
    <3> QED
      BY <3>1
  <2>2. c[i] = t * w - t * T /\ c[i] > -t /\ c[i] \in Int
    <3>1. c[i] = t * w - t * T
      BY <1>1, RunCounts
    <3>2. c[i] > -t /\ c[i] \in Int
      BY <1>2 DEF Balanced, Currents
    <3> QED
      BY <3>1, <3>2
  <2> HIDE DEF T, w, t, c
  <2>3. t > 0
    BY DEF t
  <2>4. w < T => w + 1 <= T
    BY <2>1
  <2>5. t * (w + 1) = t * w + t /\ t * w \in Int /\ t * T \in Int
    BY <1>1, <2>1
  <2>6. \A x, y \in Nat : x <= y => t * x <= t * y
    BY <1>1
  <2>7. w + 1 <= T => t * (w + 1) <= t * T
    BY <2>1, <2>6
  <2>8. T <= w => t * T <= t * w
    BY <2>1, <2>6
  <2>9. w < T \/ T <= w
    BY <2>1
  <2>10. CASE w < T
    BY <1>1, <2>2, <2>4, <2>5, <2>7, <2>10
  <2>11. CASE T <= w
    BY <2>2, <2>5, <2>8, <2>11
  <2> QED
    BY <2>9, <2>10, <2>11
<1>4. \A i \in 1 .. Len(ws) : c[i] = 0
  <2> SUFFICES ASSUME NEW i \in 1 .. Len(ws) PROVE c[i] = 0
    OBVIOUS
  <2>1. Total(c) >= c[i]
    BY <1>2, <1>3, TotalHolds
  <2>2. Total(c) = 0 /\ c[i] \in Int
    BY <1>2 DEF Balanced, Currents
  <2> QED
    BY <1>3, <2>1, <2>2
<1>5. run[0].cur = [i \in 1 .. Len(ws) |-> 0]
  <2>1. run[0] = Fresh(ws)
    BY <1>1, RunIs, Zenon
  <2> QED
    BY <2>1 DEF Fresh
<1> HIDE DEF c
<1>6. c = [i \in 1 .. Len(ws) |-> 0]
  BY <1>2, <1>4 DEF Currents
<1> QED
  BY <1>5, <1>6 DEF c

(* What comes after a round is what came before it.                        *)
LEMMA RoundsRepeat ==
    ASSUME NEW ws \in Seq(Nat), Total(ws) > 0, NEW n \in Nat,
           NEW run, run = SmoothRun(ws, n), NEW k \in Nat, Total(ws) + k <= n
    PROVE  run[Total(ws) + k].cur = run[k].cur
<1> DEFINE t == Total(ws)
           S == {j \in Nat : t + j <= n => run[t + j].cur = run[j].cur}
<1>1. ws \in Seq(Int) /\ t \in Nat /\ t > 0
  BY TotalIsInt
<1>2. \A j \in 1 .. n : run[j] = Select(Len(ws), run[j - 1].cur, ws)
  BY <1>1, RunIs, Zenon
<1> HIDE DEF t
<1>3. 0 \in S
  <2> SUFFICES ASSUME t + 0 <= n PROVE run[t + 0].cur = run[0].cur
    OBVIOUS
  <2>1. t + 0 = t
    BY <1>1
  <2> QED
    BY <2>1, OneRound DEF t
<1>4. ASSUME NEW j \in Nat, j \in S PROVE j + 1 \in S
  <2> SUFFICES ASSUME t + (j + 1) <= n PROVE run[t + (j + 1)].cur = run[j + 1].cur
    OBVIOUS
  <2>1. /\ t + (j + 1) \in 1 .. n /\ (t + (j + 1)) - 1 = t + j
        /\ j + 1 \in 1 .. n /\ (j + 1) - 1 = j /\ t + j <= n
    BY <1>1
  <2>2. run[t + j].cur = run[j].cur
    BY <1>4, <2>1
  <2> QED
    BY <1>2, <2>1, <2>2
<1>5. k \in S
  <2> HIDE DEF S
  <2> QED BY <1>3, <1>4, SetInduction
<1> QED
  BY <1>5 DEF t

(* Every list of weights, none negative, is honoured.                      *)
LEMMA NoWeightIsCheated == \A ws \in Seq(Nat) : Honours(ws)
<1> SUFFICES ASSUME NEW ws \in Seq(Nat), Total(ws) > 0, NEW i \in 1 .. Len(ws)
             PROVE  LET t == Total(ws)
                        s == SmoothRun(ws, 2 * t)
                    IN  /\ \A from \in 1 .. t : Times(s, i, from, from + t - 1) = ws[i]
                        /\ \A k \in 1 .. t : (Times(s, i, 1, k) - 1) * t < k * ws[i]
  BY DEF Honours
<1> DEFINE t == Total(ws)
           n == 2 * t
           run == SmoothRun(ws, n)
           w == ws[i]
<1>1. t \in Nat /\ t > 0 /\ n \in Nat /\ n = t + t /\ w \in Nat
  <2>1. ws \in Seq(Int)
    OBVIOUS
  <2> QED BY <2>1, TotalIsInt
<1>2. ASSUME NEW k \in 0 .. n
      PROVE  /\ Times(run, i, 1, k) \in Nat
             /\ run[k].cur[i] = k * w - t * Times(run, i, 1, k)
             /\ run[k].cur[i] > -t /\ run[k].cur[i] \in Int
  <2>0. n \in Nat /\ k \in Nat
    BY <1>1
  <2>1. /\ run[k].cur \in Currents(ws) /\ Balanced(run[k].cur, ws)
        /\ \A x \in 1 .. Len(ws) :
              run[k].cur[x] = k * ws[x] - Total(ws) * Times(run, x, 1, k)
    <3> HIDE DEF n
    <3> QED BY <2>0, RunCounts
  <2>2. Times(run, i, 1, k) \in Nat
    BY <2>0, OneTimeMore, Zenon
  <2> HIDE DEF run
  <2> QED
    BY <2>1, <2>2 DEF Balanced, Currents
<1>3. ASSUME NEW from \in 1 .. t PROVE Times(run, i, from, from + t - 1) = w
  <2> DEFINE a == from - 1
             b == t + a
             A == Times(run, i, 1, a)
             B == Times(run, i, 1, b)
             W == Times(run, i, from, from + t - 1)
  <2>1. /\ a \in Nat /\ b \in Nat /\ a <= b /\ a \in 0 .. n /\ b \in 0 .. n
        /\ a + 1 = from /\ from + t - 1 = b
    BY <1>1
  <2>2. B = A + W
    <3>1. B = A + Times(run, i, a + 1, b)
      <4> HIDE DEF a, b, run
      <4> QED BY <2>1, TimesSplit
    <3> QED
      BY <2>1, <3>1
  <2>3. run[b].cur = run[a].cur
    <3> HIDE DEF a, n
    <3> QED BY <1>1, <2>1, RoundsRepeat
  <2>4. /\ A \in Nat /\ B \in Nat
        /\ run[a].cur[i] = a * w - t * A /\ run[b].cur[i] = b * w - t * B
    BY <1>2, <2>1
  <2>5. W \in Nat
    <3>1. IsFiniteSet({k \in from .. from + t - 1 : run[k].pick = i})
      <4>1. from \in Int /\ from + t - 1 \in Int
        BY <1>1
      <4>2. {k \in from .. from + t - 1 : run[k].pick = i} \subseteq from .. from + t - 1
        OBVIOUS
      <4> QED BY <4>1, <4>2, FS_Interval, FS_Subset
    <3> QED BY <3>1, FS_CardinalityType DEF Times
  <2>6. a * w - t * A = b * w - t * B
    BY <2>3, <2>4
  <2>11. t \in Int /\ t > 0 /\ w \in Int /\ a \in Int /\ b \in Int /\ b = t + a
        /\ A \in Int /\ B \in Int /\ W \in Int
    <3>1. \A x \in Nat : x \in Int
      OBVIOUS
    <3> HIDE DEF A, B, W, a, w, n, run, t
    <3> QED
      BY <1>1, <2>1, <2>4, <2>5, <3>1, Zenon
  <2> HIDE DEF A, B, W, a, b, w, n, run, t
  <2>7. b * w = t * w + a * w /\ t * B = t * A + t * W
    <3>1. (t + a) * w = t * w + a * w
      BY <2>11, Distributes
    <3>2. t * (A + W) = t * A + t * W
      BY <2>11, Distributes
    <3> QED
      BY <2>2, <2>11, <3>1, <3>2, Zenon
  <2>8. /\ t * w \in Int /\ t * W \in Int /\ t * A \in Int /\ a * w \in Int
        /\ b * w \in Int /\ t * B \in Int
    BY <2>11, Distributes, Zenon
  <2>9. t * w = t * W
    <3>1. \A x, y, u, v \in Int : x - y = (u + x) - (y + v) => u = v
      OBVIOUS
    <3>2. a * w - t * A = (t * w + a * w) - (t * A + t * W)
      BY <2>6, <2>7, Zenon
    <3> QED
      BY <2>8, <3>1, <3>2, Zenon
  <2>10. W = w
    BY <2>9, <2>11, Distributes, Zenon
  <2> QED
    BY <2>10 DEF W
<1>4. ASSUME NEW k \in 1 .. t PROVE (Times(run, i, 1, k) - 1) * t < k * w
  <2> DEFINE T == Times(run, i, 1, k)
             c == run[k].cur[i]
  <2>1. T \in Nat /\ c = k * w - t * T /\ c > -t /\ c \in Int
    <3>1. k \in 0 .. n
      BY <1>1
    <3> HIDE DEF n, run, w, t
    <3> QED BY <1>2, <3>1
  <2> HIDE DEF T, c, t, w
  <2>2. (T - 1) * t = t * T - t /\ k * w \in Int /\ t * T \in Int
    BY <1>1, <2>1
  <2>3. (T - 1) * t < k * w
    BY <1>1, <2>1, <2>2
  <2> QED
    BY <2>3 DEF T
<1> QED
  BY <1>3, <1>4

LEMMA ClampedWeights == \A ws \in Seq(Int) : Clamp(ws) \in Seq(Nat)
<1> SUFFICES ASSUME NEW ws \in Seq(Int) PROVE Clamp(ws) \in Seq(Nat)
  OBVIOUS
<1>1. Len(ws) \in Nat /\ \A i \in 1 .. Len(ws) : ws[i] \in Int
  OBVIOUS
<1>2. \A i \in 1 .. Len(ws) : (IF ws[i] < 0 THEN 0 ELSE ws[i]) \in Nat
  BY <1>1
<1> QED
  BY <1>1, <1>2 DEF Clamp

(* The plain round robin, wherever its counter stands, gives each of n     *)
(* positions its turn in n selections (RoundRobin.Select).                 *)
LEMMA EveryTurnComes == \A n \in Nat, start \in Nat : TakesTurns(n, start)
<1> SUFFICES ASSUME NEW n \in Nat, NEW start \in Nat, NEW i \in 1 .. n
             PROVE  \E k \in 0 .. n - 1 : RoundRobin(start + k, n).pick = i
  BY DEF TakesTurns
<1> DEFINE r == start % n
           q == start \div n
<1>1. n \in Nat \ {0} /\ r \in 0 .. n - 1 /\ q \in Int /\ start = n * q + r
  OBVIOUS
<1>2. \A p \in Int, j \in 0 .. n - 1 : (n * p + j) % n = j
  BY <1>1
<1> HIDE DEF r, q
<1>3. CASE i - 1 >= r
  <2>1. i - 1 - r \in 0 .. n - 1 /\ start + (i - 1 - r) = n * q + (i - 1) /\ i - 1 \in 0 .. n - 1
    BY <1>1, <1>3
  <2>2. (start + (i - 1 - r)) % n = i - 1
    BY <1>1, <1>2, <2>1
  <2> QED
    <3>1. RoundRobin(start + (i - 1 - r), n).pick = i
      BY <2>1, <2>2 DEF RoundRobin
    <3> QED
      BY <2>1, <3>1, Zenon
<1>4. CASE i - 1 < r
  <2>1. n * (q + 1) = n * q + n /\ n * q \in Int
    BY <1>1, Distributes
  <2>2. i - 1 + n - r \in 0 .. n - 1 /\ start + (i - 1 + n - r) = n * (q + 1) + (i - 1)
        /\ i - 1 \in 0 .. n - 1 /\ q + 1 \in Int
    BY <1>1, <1>4, <2>1
  <2>3. (start + (i - 1 + n - r)) % n = i - 1
    BY <1>1, <1>2, <2>2
  <2> QED
    <3>1. RoundRobin(start + (i - 1 + n - r), n).pick = i
      BY <2>2, <2>3 DEF RoundRobin
    <3> QED
      BY <2>2, <3>1, Zenon
<1> QED
  BY <1>1, <1>3, <1>4

(* Smooth weighted round robin, whatever the weights (a negative one is    *)
(* none), picks each position of its list as often as the weight there     *)
(* says in every run of as many selections as the weights sum up to, and   *)
(* never runs one selection ahead of a share (WeightedRR.Select). Of       *)
(* instances this says something only while the list keeps its order,      *)
(* which a list from the Registry does not.                                *)
THEOREM WeightsAreShares == \A ws \in Seq(Int) : Honours(Clamp(ws))
BY NoWeightIsCheated, ClampedWeights

=============================================================================
