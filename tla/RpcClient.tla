----------------------------- MODULE RpcClient -----------------------------
(***************************************************************************)
(* How a swifty_rpc client finds its connection: ClientConn of             *)
(* pkg/rpc/client.go in either mode, getAddr and getPool of                *)
(* internal/client/resolver.go, Client.Close, the ConnectionPool of        *)
(* internal/transport, and the Registry of internal/registry, with etcd    *)
(* and the servers that register there.                                    *)
(*                                                                         *)
(* One service stands for all. What a call does with its connection is in  *)
(* RpcTransport, limiter and breaker in RpcServer and RpcInvoke. A pool    *)
(* holds one connection (maxActive is 1 wherever one is created). Discover *)
(* lists a map, in another order at every call, so that whichever balancer *)
(* selects any instance may be selected; what the balancers do with a list *)
(* that keeps its order is in LoadBalance.                                 *)
(*                                                                         *)
(* The Get that fills the cache is sent with the registry's own context,   *)
(* which has no deadline, under the write lock: whether etcd ever answers  *)
(* it is up to etcd, and only Close of the registry is sure to end it.     *)
(***************************************************************************)
EXTENDS LoadBalance, FiniteSets

CONSTANTS
    Callers, Addrs,
    Target,       \* the address of static mode
    Watcher,      \* the watch goroutine, as a user of Registry.mu
    None,
    MaxChanges    \* bound on the registrations

ASSUME ClientAssumption ==
    /\ Target \in Addrs
    /\ Watcher \notin Callers /\ None \notin Callers \cup Addrs \cup {Watcher}
    /\ MaxChanges \in Nat

VARIABLES
    mode,      \* "static" or "registry": how Dial was called
    pc, addr,  \* [Callers -> ...]: where a call is, the address it goes to
    outer,     \* callers that hold Registry.mu for reading
    pend,      \* who waits for Registry.mu, or has it, for writing; new readers wait
    known,     \* the service has an entry in Registry.services
    cache,     \* the instances in it
    watch,     \* where the watch goroutine is
    events,    \* what etcd has sent it: <<address, is it there>>
    missed,    \* history: etcd changed while known and not watched
    ended,     \* Registry.ctx is cancelled
    etcd,      \* the addresses registered there
    changes,
    pools,     \* the keys of Client.pools
    closed, conn, lock,   \* [Addrs -> ...]: ConnectionPool.closed, conns, mu
    sockets,   \* [Addrs -> Nat]: connections open to the address
    closer, due           \* Client.Close and what its Range must still visit

callVars == <<pc, addr>>
regVars == <<outer, pend, known, cache>>
watchVars == <<watch, events, missed, ended>>
serverVars == <<etcd, changes>>
poolVars == <<pools, closed, conn, lock, sockets>>
closeVars == <<closer, due>>
vars == <<mode, callVars, regVars, watchVars, serverVars, poolVars, closeVars>>

PCs == {"idle", "discover", "inner", "init", "initLocked", "get", "copy", "pool", "store",
        "acquire", "dial"}

Init ==
    /\ mode \in {"static", "registry"}
    /\ pc = [c \in Callers |-> "idle"]
    /\ addr = [c \in Callers |-> Target]
    /\ outer = {} /\ pend = None /\ known = FALSE /\ cache = {}
    /\ watch = "none" /\ events = <<>> /\ missed = FALSE /\ ended = FALSE
    /\ etcd = {} /\ changes = 0
    /\ pools = IF mode = "static" THEN {Target} ELSE {}
    /\ closed = [a \in Addrs |-> FALSE]
    /\ conn = [a \in Addrs |-> "none"]
    /\ lock = [a \in Addrs |-> None]
    /\ sockets = [a \in Addrs |-> 0]
    /\ closer = "no" /\ due = {}

Goto(c, l) == pc' = [pc EXCEPT ![c] = l]

-----------------------------------------------------------------------------
(* etcd and the servers: Registry.Register                                 *)

Changed(a, there) ==
    /\ events' = IF watch \in {"open", "apply"} THEN Append(events, <<a, there>>) ELSE events
    /\ missed' = (missed \/ (known /\ watch \notin {"open", "apply"}))

Others == <<mode, callVars, regVars, watch, ended, poolVars, closeVars>>

(* Grant, Put with the lease, KeepAlive; to put a key again is one more    *)
(* event.                                                                  *)
Register(a) ==
    /\ mode = "registry" /\ changes < MaxChanges
    /\ changes' = changes + 1
    /\ etcd' = etcd \cup {a}
    /\ Changed(a, TRUE)
    /\ UNCHANGED Others

(* The server stops, KeepAlive has failed or its channel closes: nobody    *)
(* keeps the lease, and it runs out.                                       *)
LeaseEnds(a) ==
    /\ a \in etcd
    /\ etcd' = etcd \ {a}
    /\ Changed(a, FALSE)
    /\ UNCHANGED <<Others, changes>>

-----------------------------------------------------------------------------
(* Discover: two nested read locks for a known service, the write lock for *)
(* a new one.                                                              *)

NoReg == <<mode, watchVars, serverVars, poolVars, closeVars>>

Call(c) ==
    /\ pc[c] = "idle"
    /\ IF mode = "static"
       THEN Goto(c, "acquire") /\ addr' = [addr EXCEPT ![c] = Target]
       ELSE Goto(c, "discover") /\ UNCHANGED addr
    /\ UNCHANGED <<NoReg, regVars>>

RLock(c) ==
    /\ pc[c] = "discover" /\ pend = None
    /\ IF known
       THEN Goto(c, "inner") /\ outer' = outer \cup {c}
       ELSE Goto(c, "init") /\ UNCHANGED outer
    /\ UNCHANGED <<NoReg, addr, pend, known, cache>>

(* There is no instance, or the balancer selects none (a weighted one whose*)
(* weights are for a list of another length, or zero); or it selects one.  *)
Instances(c) ==
    \/ Goto(c, "idle") /\ UNCHANGED addr
    \/ Goto(c, "pool") /\ \E a \in cache : addr' = [addr EXCEPT ![c] = a]

RLockInner(c) ==
    /\ pc[c] = "inner" /\ pend = None
    /\ Instances(c)
    /\ outer' = outer \ {c}
    /\ UNCHANGED <<NoReg, pend, known, cache>>

LockForInit(c) ==
    /\ pc[c] = "init" /\ pend = None
    /\ pend' = c
    /\ Goto(c, "initLocked")
    /\ UNCHANGED <<NoReg, addr, outer, known, cache>>

(* Mutant: the check made before the lock was taken is not made again.     *)
InitUnchecked(c) ==
    /\ pc[c] = "initLocked" /\ outer = {}
    /\ Goto(c, "get")
    /\ UNCHANGED <<NoReg, addr, pend, outer, known, cache>>

(* With the lock: another caller has filled the cache meanwhile, or this   *)
(* one asks etcd and waits, keeping the lock.                              *)
InitService(c) ==
    /\ pc[c] = "initLocked" /\ outer = {}
    /\ IF known THEN Goto(c, "copy") /\ pend' = None
                ELSE Goto(c, "get") /\ UNCHANGED pend
    /\ UNCHANGED <<NoReg, addr, outer, known, cache>>

(* etcd's answer fills the cache, and the watch is started. What changes   *)
(* between etcd's reading and the arrival counts as a change behind it:    *)
(* the cache does not have it, nobody else sees the cache in between.      *)
GetAnswered(c) ==
    /\ pc[c] = "get" /\ ~ended
    /\ known' = TRUE /\ cache' = etcd /\ watch' = "start"
    /\ pend' = None
    /\ Goto(c, "copy")
    /\ UNCHANGED <<mode, addr, outer, events, missed, ended, serverVars, poolVars, closeVars>>

(* Mutant: the lock is kept when Get fails.                                *)
GetKeepsLock(c) ==
    /\ pc[c] = "get"
    /\ Goto(c, "idle")
    /\ UNCHANGED <<NoReg, addr, pend, outer, known, cache>>

(* etcd answers with an error, or the registry is closed.                  *)
GetFails(c) ==
    /\ pc[c] = "get"
    /\ pend' = None
    /\ Goto(c, "idle")
    /\ UNCHANGED <<NoReg, addr, outer, known, cache>>

Copy(c) ==
    /\ pc[c] = "copy" /\ pend = None
    /\ Instances(c)
    /\ UNCHANGED <<NoReg, regVars>>

-----------------------------------------------------------------------------
(* watch, and Registry.Close                                               *)

NoWatch == <<mode, callVars, serverVars, poolVars, closeVars, outer>>

WatchOpens ==
    /\ watch = "start"
    /\ watch' = IF ended THEN "ended" ELSE "open"
    /\ UNCHANGED <<NoWatch, pend, known, cache, events, missed, ended>>

WatchLocks ==
    /\ watch = "open" /\ events # <<>> /\ pend = None
    /\ pend' = Watcher
    /\ watch' = "apply"
    /\ UNCHANGED <<NoWatch, known, cache, events, missed, ended>>

After(set, e) == IF e[2] THEN set \cup {e[1]} ELSE set \ {e[1]}

(* Mutant: a Delete is looked for under the whole key.                     *)
WatchPutsOnly ==
    /\ watch = "apply" /\ outer = {}
    /\ cache' = IF Head(events)[2] THEN After(cache, Head(events)) ELSE cache
    /\ events' = Tail(events)
    /\ pend' = None
    /\ watch' = "open"
    /\ UNCHANGED <<NoWatch, known, missed, ended>>

WatchApplies ==
    /\ watch = "apply" /\ outer = {}
    /\ cache' = After(cache, Head(events))
    /\ events' = Tail(events)
    /\ pend' = None
    /\ watch' = "open"
    /\ UNCHANGED <<NoWatch, known, missed, ended>>

(* The watch breaks; what it had not delivered is lost. A second later it  *)
(* is opened anew, without a Get and at the present revision.              *)
WatchBreaks ==
    /\ watch = "open"
    /\ watch' = "start"
    /\ events' = <<>>
    /\ missed' = (missed \/ events # <<>>)
    /\ UNCHANGED <<NoWatch, pend, known, cache, ended>>

CloseRegistry ==
    /\ mode = "registry" /\ ~ended
    /\ ended' = TRUE
    /\ UNCHANGED <<NoWatch, pend, known, cache, watch, events, missed>>

-----------------------------------------------------------------------------
(* getPool, Acquire, and the call                                          *)

NoPool == <<mode, regVars, watchVars, serverVars, closeVars>>

Load(c) ==
    /\ pc[c] = "pool"
    /\ Goto(c, IF addr[c] \in pools THEN "acquire" ELSE "store")
    /\ UNCHANGED <<NoPool, addr, poolVars>>

(* Mutant: the pool replaces one that another caller has stored meanwhile. *)
StoreAnew(c) ==
    /\ pc[c] = "store"
    /\ pools' = pools \cup {addr[c]}
    /\ conn' = [conn EXCEPT ![addr[c]] = "none"]
    /\ Goto(c, "acquire")
    /\ UNCHANGED <<NoPool, addr, closed, lock, sockets>>

LoadOrStore(c) ==
    /\ pc[c] = "store"
    /\ pools' = pools \cup {addr[c]}
    /\ Goto(c, "acquire")
    /\ UNCHANGED <<NoPool, addr, closed, conn, lock, sockets>>

(* Mutant: the mutex is not held while the connection is being dialled.    *)
AcquireUnlocked(c) ==
    LET a == addr[c] IN
    /\ pc[c] = "acquire" /\ lock[a] = None
    /\ Goto(c, IF closed[a] \/ conn[a] = "live" THEN "idle" ELSE "dial")
    /\ UNCHANGED <<NoPool, addr, pools, closed, conn, lock, sockets>>

(* The caller gets an error (pool closed, context over) or the live        *)
(* connection, and is done here; or it replaces a dead one. The mutex is   *)
(* held while it dials.                                                    *)
Acquire(c) ==
    LET a == addr[c] IN
    /\ pc[c] = "acquire" /\ lock[a] = None
    /\ \/ Goto(c, "idle") /\ UNCHANGED lock
       \/ ~closed[a] /\ conn[a] # "live" /\ Goto(c, "dial") /\ lock' = [lock EXCEPT ![a] = c]
    /\ UNCHANGED <<NoPool, addr, pools, closed, conn, sockets>>

Dial(c) ==
    LET a == addr[c] IN
    /\ pc[c] = "dial"
    /\ lock' = [lock EXCEPT ![a] = None]
    /\ \/ Goto(c, "idle") /\ UNCHANGED <<conn, sockets>>
       \/ /\ conn' = [conn EXCEPT ![a] = "live"]
          /\ sockets' = [sockets EXCEPT ![a] = @ + 1]
          /\ Goto(c, "idle")
    /\ UNCHANGED <<NoPool, addr, pools, closed>>

(* The reader or a writer of the connection fails and shuts it down.       *)
ConnDies(a) ==
    /\ conn[a] = "live"
    /\ conn' = [conn EXCEPT ![a] = "dead"]
    /\ sockets' = [sockets EXCEPT ![a] = @ - 1]
    /\ UNCHANGED <<NoPool, callVars, pools, closed, lock>>

-----------------------------------------------------------------------------
(* ClientConn.Close                                                        *)

BeginClose ==
    /\ closer = "no"
    /\ closer' = "range" /\ due' = pools
    /\ UNCHANGED <<mode, callVars, regVars, watchVars, serverVars, poolVars>>

(* Range visits what is there from start to end; a pool stored meanwhile   *)
(* it may visit or not. ConnectionPool.Close waits for the mutex.          *)
ClosePool(a) ==
    /\ closer = "range" /\ a \in pools /\ lock[a] = None
    /\ due' = due \ {a}
    /\ closed' = [closed EXCEPT ![a] = TRUE]
    /\ IF conn[a] = "live"
       THEN conn' = [conn EXCEPT ![a] = "dead"] /\ sockets' = [sockets EXCEPT ![a] = @ - 1]
       ELSE UNCHANGED <<conn, sockets>>
    /\ UNCHANGED <<mode, callVars, regVars, watchVars, serverVars, pools, lock, closer>>

CloseReturns ==
    /\ closer = "range" /\ due = {}
    /\ closer' = "done"
    /\ UNCHANGED <<mode, callVars, regVars, watchVars, serverVars, poolVars, due>>

-----------------------------------------------------------------------------
CallStep(c) ==
    \/ RLock(c) \/ RLockInner(c) \/ LockForInit(c) \/ InitService(c) \/ Copy(c)
    \/ ended /\ GetFails(c)
    \/ Load(c) \/ LoadOrStore(c) \/ Acquire(c) \/ Dial(c)

WatchStep == WatchOpens \/ WatchLocks \/ WatchApplies

CloseStep == CloseReturns \/ \E a \in due : ClosePool(a)

Server(a) == Register(a) \/ LeaseEnds(a)

Next ==
    \/ \E c \in Callers : Call(c) \/ CallStep(c) \/ GetAnswered(c) \/ GetFails(c)
    \/ WatchStep \/ WatchBreaks \/ CloseRegistry
    \/ BeginClose \/ CloseReturns
    \/ \E a \in Addrs : ClosePool(a) \/ Server(a) \/ ConnDies(a)

Spec == Init /\ [][Next]_vars

(* Goroutines that can run do, a dial ends (it has a timeout), and whoever *)
(* waits for a mutex gets it in the end though others take it in between.  *)
(* A Get ends for sure only when the registry is closed, which nobody need *)
(* do.                                                                     *)
FairSpec ==
    /\ Spec
    /\ \A c \in Callers : SF_vars(CallStep(c))
    /\ SF_vars(WatchStep) /\ SF_vars(CloseStep)

-----------------------------------------------------------------------------
(* Type correctness.                                                       *)
TypeOK ==
    /\ mode \in {"static", "registry"}
    /\ pc \in [Callers -> PCs] /\ addr \in [Callers -> Addrs]
    /\ outer \subseteq Callers /\ pend \in Callers \cup {Watcher, None}
    /\ known \in BOOLEAN /\ cache \subseteq Addrs
    /\ watch \in {"none", "start", "open", "apply", "ended"}
    /\ events \in Seq(Addrs \X BOOLEAN)
    /\ missed \in BOOLEAN /\ ended \in BOOLEAN
    /\ etcd \subseteq Addrs /\ changes \in 0 .. MaxChanges
    /\ pools \subseteq Addrs /\ due \subseteq Addrs
    /\ closed \in [Addrs -> BOOLEAN] /\ conn \in [Addrs -> {"none", "live", "dead"}]
    /\ lock \in [Addrs -> Callers \cup {None}]
    /\ sockets \in [Addrs -> Nat]
    /\ closer \in {"no", "range", "done"}

(* An address has one connection at most, also when two callers make its   *)
(* pool or dial it at once (LoadOrStore in getPool; Acquire holds the      *)
(* mutex over the dial, and replaces a dead connection only).              *)
OneConnection == \A a \in Addrs : sockets[a] <= 1

(* Close of the client leaves no connection behind: a pool that it has     *)
(* closed has none, ever, even if one was being dialled (Acquire and Close *)
(* of the pool). A pool that getPool stores behind Close's Range is not    *)
(* closed.                                                                 *)
NoConnectionLeft ==
    \A a \in Addrs :
        /\ closed[a] => sockets[a] = 0
        /\ closer = "done" /\ mode = "static" => sockets[a] = 0

(* The set when the events have been applied: an address is in it that was *)
(* there or was put by an event, and no later event deletes it.            *)
Applied(set, es) ==
    {a \in Addrs : \E i \in 0 .. Len(es) :
        /\ IF i = 0 THEN a \in set ELSE es[i] = <<a, TRUE>>
        /\ \A j \in i + 1 .. Len(es) : es[j] # <<a, FALSE>>}

(* As long as nothing happened while the service was not watched, the      *)
(* cache with what the watch is bringing is what etcd holds (initService   *)
(* and watch: the Get and the Watch are not joined by a revision, which is *)
(* why the exception is needed).                                           *)
CacheFollowsEtcd ==
    known /\ ~missed => Applied(cache, events) = etcd

(* etcd is asked for a service once: whoever asks is alone with the        *)
(* registry, and nobody has filled the cache or started a watch since it   *)
(* found the service missing, before it had the lock (Discover,            *)
(* initService).                                                           *)
FilledOnce ==
    \A c \in Callers :
        pc[c] = "get" =>
            /\ ~known /\ watch = "none" /\ outer = {}
            /\ \A d \in Callers \ {c} : pc[d] \notin {"initLocked", "get"}

(* A reader inside waits for a writer that waits for it: the nested read   *)
(* lock of Discover.                                                       *)
NestedLock == pend # None /\ \E c \in outer : pc[c] = "inner"

(* A caller waits for etcd, under the write lock of the registry, and the  *)
(* registry has not been closed.                                           *)
Stalled == \E c \in Callers : pc[c] = "get" /\ ~ended

(* A call gets out of Discover and Acquire, unless it or another one is    *)
(* caught in the nested lock or waits for an etcd that does not answer,    *)
(* for which there is no deadline; once the registry is closed only the    *)
(* nested lock is left. Close of the client returns whatever the calls do. *)
CallsReturn ==
    /\ \A c \in Callers : pc[c] # "idle" ~> (pc[c] = "idle" \/ NestedLock \/ Stalled)
    /\ closer = "range" ~> closer = "done"
=============================================================================
