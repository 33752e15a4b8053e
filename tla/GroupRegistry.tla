---------------------------- MODULE GroupRegistry ----------------------------
(***************************************************************************)
(* Life and death of cache groups: the process-wide registry of groups     *)
(* (NewGroup, DestroyGroup, DestroyAllGroups, Group.Close of               *)
(* swifty_cache/group.go) and the Cache of each group, which creates its   *)
(* store when something is first added and closes it with the group        *)
(* (swifty_cache/cache.go).                                                *)
(*                                                                         *)
(* groupsMu protects single map operations, which are steps.  Cache.mu is  *)
(* a sync.RWMutex: Lock first keeps new readers out, then waits for those  *)
(* that are in.  The flags `closed' and `initialized' are atomics, read    *)
(* outside the mutex.                                                      *)
(***************************************************************************)
EXTENDS Integers

CONSTANTS Names,    \* names of groups
          Groups,   \* the *Group values NewGroup may allocate
          Procs,    \* goroutines
          NoName, NoGroup, NoProc

ASSUME GroupRegistryAssumption ==
    /\ NoName \notin Names /\ NoGroup \notin Groups /\ NoProc \notin Procs

VARIABLES registry,     \* the map `groups'
          named,        \* named[g]: its name, NoName if not allocated yet
          gclosed,      \* Group.closed
          cclosed,      \* Cache.closed
          initialized,  \* Cache.initialized
          store,        \* Cache.store # nil
          running,      \* how many stores of the cache have been created and
                        \* not closed: each has two goroutines
          writer,       \* who has announced itself to Cache.mu by Lock
          where, on,    \* where a goroutine is, and in which group
          todo          \* the groups a DestroyAllGroups has still to close

groupVars == <<registry, named>>
cacheVars == <<cclosed, initialized, store, running, writer>>
registryVars == <<registry, named, gclosed, cclosed, initialized, store, running,
          writer, where, on, todo>>

Places == {"idle", "add", "read", "ensure", "initLock", "initLocked", "rlock",
        "use", "clear", "clearLock", "clearLocked", "close", "cacheClose", "closeLock",
        "closeLocked",
        "unregister", "next"}

RegistryInit ==
    /\ registry = [n \in Names |-> NoGroup]
    /\ named = [g \in Groups |-> NoName]
    /\ gclosed = [g \in Groups |-> FALSE]
    /\ cclosed = [g \in Groups |-> FALSE]
    /\ initialized = [g \in Groups |-> FALSE]
    /\ store = [g \in Groups |-> FALSE]
    /\ running = [g \in Groups |-> 0]
    /\ writer = [g \in Groups |-> NoProc]
    /\ where = [p \in Procs |-> "idle"]
    /\ on = [p \in Procs |-> NoGroup]
    /\ todo = [p \in Procs |-> {}]

Readers(g) == {p \in Procs : where[p] = "use" /\ on[p] = g}

MovesTo(p, label) == where' = [where EXCEPT ![p] = label] /\ UNCHANGED <<on, todo>>
Leave(p) ==
    /\ where' = [where EXCEPT ![p] = "idle"]
    /\ on' = [on EXCEPT ![p] = NoGroup]
    /\ UNCHANGED todo
Enter(p, g, label) ==
    /\ where' = [where EXCEPT ![p] = label]
    /\ on' = [on EXCEPT ![p] = g]

Release(p) == writer' = [writer EXCEPT ![on[p]] = NoProc]

(* Lock of Cache.mu, in Cache.Close, ensureInitialized and Clear: announced *)
(* here; what is done under it waits for the readers.                      *)
Lock(p) ==
    /\ \/ where[p] = "closeLock" /\ MovesTo(p, "closeLocked")
       \/ where[p] = "initLock" /\ MovesTo(p, "initLocked")
       \/ where[p] = "clearLock" /\ MovesTo(p, "clearLocked")
    /\ writer[on[p]] = NoProc
    /\ writer' = [writer EXCEPT ![on[p]] = p]
    /\ UNCHANGED <<groupVars, gclosed, cclosed, initialized, store, running>>

-----------------------------------------------------------------------------
(* The registry.  NewGroup panics when the name is taken: nothing changes. *)

NewGroup(p, n, g) ==
    /\ where[p] = "idle" /\ named[g] = NoName
    /\ registry[n] = NoGroup
    /\ registry' = [registry EXCEPT ![n] = g]
    /\ named' = [named EXCEPT ![g] = n]
    /\ UNCHANGED <<gclosed, cacheVars, where, on, todo>>

DestroyGroup(p, n) ==
    /\ where[p] = "idle" /\ registry[n] # NoGroup
    /\ registry' = [registry EXCEPT ![n] = NoGroup]
    /\ Enter(p, registry[n], "close")
    /\ UNCHANGED <<named, gclosed, cacheVars, todo>>

DestroyAllGroups(p) ==
    /\ where[p] = "idle"
    /\ todo' = [todo EXCEPT ![p] = {registry[n] : n \in Names} \ {NoGroup}]
    /\ registry' = [n \in Names |-> NoGroup]
    /\ Enter(p, NoGroup, "next")
    /\ UNCHANGED <<named, gclosed, cacheVars>>

NextToClose(p) ==
    /\ where[p] = "next"
    /\ \/ \E g \in todo[p] : /\ Enter(p, g, "close")
                             /\ todo' = [todo EXCEPT ![p] = @ \ {g}]
       \/ todo[p] = {} /\ Leave(p)
    /\ UNCHANGED <<groupVars, gclosed, cacheVars>>

-----------------------------------------------------------------------------
(* Group.Close: the flag, the cache, then the registry, by name.           *)

CallClose(p, g) ==
    /\ where[p] = "idle" /\ named[g] # NoName
    /\ Enter(p, g, "close")
    /\ UNCHANGED <<groupVars, gclosed, cacheVars, todo>>

CloseGroup(p) ==
    /\ where[p] = "close"
    /\ gclosed' = [gclosed EXCEPT ![on[p]] = TRUE]
    /\ MovesTo(p, IF gclosed[on[p]] THEN "next" ELSE "cacheClose")
    /\ UNCHANGED <<groupVars, cacheVars>>

CloseCache(p) ==
    /\ where[p] = "cacheClose"
    /\ cclosed' = [cclosed EXCEPT ![on[p]] = TRUE]
    /\ MovesTo(p, IF cclosed[on[p]] THEN "unregister" ELSE "closeLock")
    /\ UNCHANGED <<groupVars, gclosed, initialized, store, running, writer>>

(* Mutant: Close does not wait for the readers.                            *)
CloseStoreAtOnce(p) ==
    LET g == on[p]
    IN  /\ where[p] = "closeLocked"
        /\ running' = [running EXCEPT ![g] = IF store[g] THEN @ - 1 ELSE @]
        /\ store' = [store EXCEPT ![g] = FALSE]
        /\ initialized' = [initialized EXCEPT ![g] = FALSE]
        /\ Release(p)
        /\ MovesTo(p, "unregister")
        /\ UNCHANGED <<groupVars, gclosed, cclosed>>

CloseStore(p) ==
    LET g == on[p]
    IN  /\ where[p] = "closeLocked" /\ Readers(g) = {}
        /\ running' = [running EXCEPT ![g] = IF store[g] THEN @ - 1 ELSE @]
        /\ store' = [store EXCEPT ![g] = FALSE]
        /\ initialized' = [initialized EXCEPT ![g] = FALSE]
        /\ Release(p)
        /\ MovesTo(p, "unregister")
        /\ UNCHANGED <<groupVars, gclosed, cclosed>>

(* Mutant: a closed group is left in the registry.                         *)
UnregisterNothing(p) ==
    /\ where[p] = "unregister"
    /\ MovesTo(p, "next")
    /\ UNCHANGED <<groupVars, gclosed, cacheVars>>

Unregister(p) ==
    /\ where[p] = "unregister"
    /\ registry' = [registry EXCEPT ![named[on[p]]] = NoGroup]
    /\ MovesTo(p, "next")
    /\ UNCHANGED <<named, gclosed, cacheVars>>

-----------------------------------------------------------------------------
(* Group.Set and the Add of a Get that has loaded; Group.Get, Delete and   *)
(* Entries, which only look; Clear.  A caller may hold a *Group that has   *)
(* been closed: the first check of every operation sends it away.          *)

Start(p, g, operation) ==
    /\ where[p] = "idle" /\ named[g] # NoName
    /\ ~gclosed[g]
    /\ Enter(p, g, operation)
    /\ UNCHANGED <<groupVars, gclosed, cacheVars, todo>>

Add(p) ==
    /\ where[p] = "add"
    /\ \/ cclosed[on[p]] /\ Leave(p)
       \/ ~cclosed[on[p]] /\ MovesTo(p, "ensure")
    /\ UNCHANGED <<groupVars, gclosed, cacheVars>>

Read(p) ==
    /\ where[p] = "read"
    /\ \/ (cclosed[on[p]] \/ ~initialized[on[p]]) /\ Leave(p)
       \/ ~cclosed[on[p]] /\ initialized[on[p]] /\ MovesTo(p, "rlock")
    /\ UNCHANGED <<groupVars, gclosed, cacheVars>>

(* ensureInitialized: looks at the flag, takes the mutex, looks at both    *)
(* flags again.                                                            *)
EnsureInitialized(p) ==
    /\ where[p] = "ensure"
    /\ MovesTo(p, IF initialized[on[p]] THEN "rlock" ELSE "initLock")
    /\ UNCHANGED <<groupVars, gclosed, cacheVars>>

(* Mutant: `closed' is not looked at again under the mutex.                *)
InitStoreThoughClosed(p) ==
    LET g == on[p]
        create == ~initialized[g]
    IN  /\ where[p] = "initLocked" /\ Readers(g) = {}
        /\ store' = [store EXCEPT ![g] = @ \/ create]
        /\ running' = [running EXCEPT ![g] = IF create THEN @ + 1 ELSE @]
        /\ initialized' = [initialized EXCEPT ![g] = @ \/ create]
        /\ Release(p)
        /\ MovesTo(p, "rlock")
        /\ UNCHANGED <<groupVars, gclosed, cclosed>>

(* Mutant: the early return of the second look keeps the mutex.            *)
InitStoreKeepsLock(p) ==
    LET g == on[p]
        create == ~cclosed[g] /\ ~initialized[g]
    IN  /\ where[p] = "initLocked" /\ Readers(g) = {}
        /\ store' = [store EXCEPT ![g] = @ \/ create]
        /\ running' = [running EXCEPT ![g] = IF create THEN @ + 1 ELSE @]
        /\ initialized' = [initialized EXCEPT ![g] = @ \/ create]
        /\ IF create THEN Release(p) ELSE UNCHANGED writer
        /\ MovesTo(p, "rlock")
        /\ UNCHANGED <<groupVars, gclosed, cclosed>>

InitStore(p) ==
    LET g == on[p]
        create == ~cclosed[g] /\ ~initialized[g]
    IN  /\ where[p] = "initLocked" /\ Readers(g) = {}
        /\ store' = [store EXCEPT ![g] = @ \/ create]
        /\ running' = [running EXCEPT ![g] = IF create THEN @ + 1 ELSE @]
        /\ initialized' = [initialized EXCEPT ![g] = @ \/ create]
        /\ Release(p)
        /\ MovesTo(p, "rlock")
        /\ UNCHANGED <<groupVars, gclosed, cclosed>>

(* RLock, then the store if there is one.                                  *)
RLock(p) ==
    /\ where[p] = "rlock" /\ writer[on[p]] = NoProc
    /\ \/ store[on[p]] /\ MovesTo(p, "use")
       \/ ~store[on[p]] /\ Leave(p)
    /\ UNCHANGED <<groupVars, gclosed, cacheVars>>

RUnlock(p) ==
    /\ where[p] = "use"
    /\ Leave(p)
    /\ UNCHANGED <<groupVars, gclosed, cacheVars>>

(* Clear takes the write lock; what it does to the store is LruStore's.    *)
Clear(p) ==
    /\ where[p] = "clear"
    /\ \/ (cclosed[on[p]] \/ ~initialized[on[p]]) /\ Leave(p)
       \/ ~cclosed[on[p]] /\ initialized[on[p]] /\ MovesTo(p, "clearLock")
    /\ UNCHANGED <<groupVars, gclosed, cacheVars>>

ClearStore(p) ==
    /\ where[p] = "clearLocked" /\ Readers(on[p]) = {}
    /\ Release(p)
    /\ Leave(p)
    /\ UNCHANGED <<groupVars, gclosed, cclosed, initialized, store, running>>

-----------------------------------------------------------------------------
Continue(p) ==
    \/ NextToClose(p) \/ CloseGroup(p) \/ CloseCache(p) \/ Lock(p)
    \/ CloseStore(p) \/ Unregister(p)
    \/ Add(p) \/ Read(p) \/ EnsureInitialized(p) \/ InitStore(p)
    \/ RLock(p) \/ RUnlock(p) \/ Clear(p) \/ ClearStore(p)

Begin(p) ==
    \/ \E n \in Names : DestroyGroup(p, n) \/ \E g \in Groups : NewGroup(p, n, g)
    \/ DestroyAllGroups(p)
    \/ \E g \in Groups : \/ CallClose(p, g)
                         \/ Start(p, g, "add")
                         \/ Start(p, g, "read")
                         \/ Start(p, g, "clear")

RegistryNext == \E p \in Procs : Begin(p) \/ Continue(p)

RegistrySpec == RegistryInit /\ [][RegistryNext]_registryVars

(* A goroutine runs until it returns.  One that waits for Cache.mu gets it *)
(* though others take it in between (a Go mutex hands itself to a waiter   *)
(* that has waited long enough), hence strong fairness.                    *)
RegistryFairSpec == RegistrySpec /\ \A p \in Procs : SF_registryVars(Continue(p))

-----------------------------------------------------------------------------
(* Properties.                                                             *)

(* Every variable has its type; a cache has at most one running store.     *)
RegistryTypeOK ==
    /\ registry \in [Names -> Groups \cup {NoGroup}]
    /\ named \in [Groups -> Names \cup {NoName}]
    /\ gclosed \in [Groups -> BOOLEAN]
    /\ cclosed \in [Groups -> BOOLEAN]
    /\ initialized \in [Groups -> BOOLEAN]
    /\ store \in [Groups -> BOOLEAN]
    /\ running \in [Groups -> 0..1]
    /\ writer \in [Groups -> Procs \cup {NoProc}]
    /\ where \in [Procs -> Places]
    /\ on \in [Procs -> Groups \cup {NoGroup}]
    /\ todo \in [Procs -> SUBSET Groups]

Closing(g) ==
    \E p \in Procs : on[p] = g /\ where[p] \in {"cacheClose", "closeLock", "closeLocked"}

(* A store outlives its group's Close in no interleaving: an Add that has  *)
(* seen the cache open does not create a store after Close has been there  *)
(* (ensureInitialized looks at `closed' under the mutex).                  *)
NoStoreLeak ==
    \A g \in Groups :
        gclosed[g] /\ ~Closing(g) => running[g] = 0 /\ ~store[g] /\ ~initialized[g]

(* Nobody uses a store that is closed: "a racing Close degrades to a miss" *)
(* (the package's skill document).                                         *)
NoUseAfterClose == \A p \in Procs : where[p] = "use" => store[on[p]] /\ running[on[p]] = 1

(* A group that has been closed does not stay in the registry.             *)
NoClosedGroupLeft ==
    \A n \in Names :
        registry[n] # NoGroup /\ gclosed[registry[n]] =>
            \E p \in Procs : on[p] = registry[n] /\ where[p] \in
                {"cacheClose", "closeLock", "closeLocked", "unregister"}

(* Every operation returns: the locks are released and DestroyAllGroups    *)
(* does not wait for itself.                                               *)
OperationsReturn == \A p \in Procs : where[p] # "idle" ~> where[p] = "idle"
=============================================================================
