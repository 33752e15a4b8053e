# A TLA+ model of lark-go

Specifications of the Go modules in this repository (`swifty_cache`, `swifty_rpc`,
`swifty_http`, `swifty_orm`), their model-checking configurations, and
machine-checked proofs. Paths below are relative to `src/`.

To check one configuration or one module of proofs:

    tlc -workers 2 -config MCGroupLoad_load.cfg MCGroupLoad.tla
    tlapm GroupProofs.tla

## 1. Inventory

### swifty_cache: a distributed read-through cache

| Part | State | Operations | What is hard | What makes it correct |
|---|---|---|---|---|
| LRU store (`lru.go`) | buckets, each with a mutex and two levels of slots; a coarse package clock | Get, Set(WithExpiration), Delete, Clear, Close, cleanup goroutine | a key in two levels, dead slots in the list, byte accounting, loops under a mutex, a stale sample of the clock | it is a map that may forget but never revives or invents an entry; one eviction callback per loss; budget respected; loops end |
| Cache wrapper (`cache.go`) | `store`, `initialized`, `closed`, a RWMutex | Add, Get, Delete, Clear, Close, Entries | lazy creation against Close | no store is leaked or used after it is closed |
| Group and registry (`group.go`) | the map `groups`, `closed` | NewGroup, GetGroup, DestroyGroup, DestroyAllGroups, Close | Close removes by name, twice | one open group per name |
| Load path (`group.go`, `single_flight.go`) | the calls in flight, per key | Get, load, loadData, Set, Delete, syncToPeers | single flight, forwarding, deadlines, writes during loads | one loader per key and node; nobody waits for ever |
| Peer client and server (`client.go`, `server.go`) | gRPC connection | Get, Set, Delete with deadlines | lost and late calls | callers fall back to their own getter |
| Peer discovery (`peers.go`, `consistent_hash.go`) | clients, ring | watch, resync, PickPeer, Close | etcd watch gaps, ring collisions | the ring converges to the registered nodes |
| Registration (`register.go`) | a lease, the goroutine that keeps it | register, keep alive, re-register, revoke | a request that failed but took effect; a lease of an earlier attempt that runs out later; the stop in the middle of an attempt | a node that keeps a lease is registered; one that was stopped leaves for good |
| Dashboard (`dashboard.go`) | one WebSocket, a reader and a writer goroutine, a heartbeat | snapshot, delete | a reader that ends early, a peer that goes away | every goroutine and the socket end |

A `Get` looks in the node's `Cache`; on a miss it runs `load` through the
single-flight group of its node; the leader asks `ClientPicker` for the owner
and either forwards the request to the owner's `Server`, which calls its own
`Group.Get` with the peer mark in the context, or calls the user's getter; it
stores the value locally and releases the waiters. `Set` and `Delete` write the
local cache and tell the owner from a goroutine nobody waits for.

### swifty_rpc: a multiplexed RPC framework

| Part | State | What is hard | What makes it correct |
|---|---|---|---|
| Client transport (`internal/transport/{tcp_client,future,stream,tcp_connection}.go`) | pending futures, streams, `closed` | calls stored while the connection fails; late answers; a full stream buffer | every call resolves exactly once |
| Resolver and pool (`pkg/rpc/client.go`, `internal/client/resolver.go`, `tcp_connection_pool.go`) | one pool per address, its connection, its mutex | two callers that dial at once; Close while a caller dials | one connection per address; none in a pool that was closed |
| Breaker and invocation (`internal/breaker`, `internal/client/invoke.go`) | three states, window counters, one probe | outcomes that arrive late or never, one callback slot per future | every outcome the breaker gets counts once; a probe that was sent ends half-open |
| Server (`internal/server`) | listener, connections, two wait groups, stream handlers | Serve, Stop and GracefulStop against connections and handlers | no connection registered after the sweep; a graceful stop cuts no answer off; both return |
| Registry (`internal/registry`) | cached instances per service, a watch | Get then Watch, breaks, nested read locks, Close | the cache follows etcd while it is watched |
| Load balancers (`internal/load_balance`) | a counter; current weights | lists that change their order, weights that are zero or negative, ties | from a list that keeps its order, every instance gets its share in every window |
| Limiter (`internal/limiter`) | tokens, a ticker | shared by every connection; stopped with the server | no more requests than tokens |
| Framing and codecs | none | | |

A call of `ClientConn` asks the registry for an instance (or has its address from
`Dial`), gets the pool of that address, acquires its connection, asks limiter and
breaker, and sends a frame whose answer the connection's only reader hands to the
call's future or stream. At the other end a goroutine per connection takes packets
from its buffer, serves unary requests itself and starts a goroutine per stream.

### swifty_http: a small Koa-like server

| Part | State | What is hard | What makes it correct |
|---|---|---|---|
| Router and groups (`router.go`, `trie.go`, `group.go`) | a trie and a table of handlers per method; prefixes | patterns that overlap, backtracking, slashes in prefixes and paths | the answer is the best match; a group's middlewares run for the paths that begin with its prefix |
| Middleware chain (`swifty.go`, `logger.go`, `recovery.go`) | compose's index, the nested calls | next called twice or not at all, panics at any depth | each position runs once |
| Deferred response (`context.go`, `response.go`) | status, body, `flushed` | the status changes with the body, in Recovery and in respond; fields that are assigned directly; handlers that answer for themselves | one answer, with the status that Logger printed |
| WebSocket (`websocket.go`) | `closed`, the message being read, the heartbeat | fragments and control frames in any order, goroutines that end each other | messages whole or refused; everything ends |
| Server-sent events (`sse.go`) | a mutex | the head is written at once, as often as `SSE` is called; each event is one write | respond adds nothing to it |

### swifty_orm

`swifty_orm` builds MongoDB filters and pipelines and calls the driver, in straight
line and in the goroutine of its caller. It keeps no state that two calls share.

`PROJECT.json` lists every part with its status, and under `hazards` what in
the code is hard to test, at its line.

## 2. Modules

| Module | Models | State and actions |
|---|---|---|
| `LruLevel` | the type `cache` of `lru.go` | pure operators `Put`, `Del`, `EvictOldest`, `Touch` on a level, a sequence of slots from most to least recently used |
| `LruStore` | `lruStore` | `l1`, `l2`: the levels; `holder[b]`: who is in a loop under the bucket's mutex; `Get*`, `SetWithExpiration`, `TrimStep`, `Delete`, `Clear`, `Collect`, `SweepOne`, `NextBucket`, `Cleanup*`, `Close`, clock, ticker |
| `CacheContract` | nothing of the code: what a store promises | a map that forgets |
| `GroupLoad` | `Group.Get/Set/Delete`, single flight, peer requests, for one key on a cluster | `pc` of each caller and of the handler it causes, `flight[n]`: the leader in `loader.m`, `cache[n]`, `owner[n]`, `sync[c]` |
| `GroupRegistry` | the registry of groups and the Cache wrapper | `registry`, the flags and the store of each group, `writer`: the RWMutex, `where`: the place of each goroutine |
| `CircuitBreaker` | `breaker.go` | the fields of the breaker; `Allow`, `RecordSuccess`, `RecordFailure` |
| `RpcInvoke` | `invoke.go` and `future.go`: the calls of one client to one address, with the breaker | `pc` of each caller, `fut`, `err`, `hook`: its future, with whose callback is in it, `recorded` |
| `ConsistentHash` | `consistent_hash.go` | pure operators `Add`, `Remove`, `Owner` on a ring: the maps `hashMap` and `nodeHashes` |
| `PeerDiscovery` | `ClientPicker` of one node against etcd | `log`: etcd; `pc`, `snap`, `todo`, `rev`, `pos`: the discovery goroutine; `clients`, `open`, `ring`, `life` |
| `RpcTransport` | one connection: `tcp_client.go`, `stream.go`, and the server's handlers at its other end | `pc`, `out` of each call; `entries`: the maps `pending` and `streams`; `buf`, `term`, `ctxDone`, `got`: each stream; `rpc`, `hand`: the reader; `closed`, `sd`, `due`, `cur`: shutdown; `conn`, `up`, `down`: the connection; `serving`, `handlers`, `sent`: the server |
| `Registration` | `register.go` and the leases of etcd | `node`: where Register or its goroutine is; `joined`, `stop`; `leases`, `live`, `mine`, `key`: the leases granted, those that have not run out, the one kept, the one the key hangs on |
| `CacheCluster` | a node that registers, seen by the discovery of another | the variables of both; what the node does to its key is an event of `log` |
| `RpcServer` | `server.go`, `handler.go` and the limiter of one server | `serve`, `hold`, `listener`, `closing`; `once`, `stop`: the shutdowns; `conns`, `handle`, `streams`, `sock`, `deadline`, `packets`: the connections; `tokens`, `ticking` |
| `LoadBalance` | `internal/load_balance` | pure operators `RoundRobin`, `Smooth`, `Select`; `SmoothRun` repeats a selection |
| `RpcClient` | `pkg/rpc/client.go`, resolver, pool and registry, for one service | `pc`, `addr`: the calls; `outer`, `pend`: Registry.mu; `known`, `cache`, `watch`, `events`: the registry; `pools`, `closed`, `conn`, `lock`: the pools; `sockets`; `closer`, `due`: Close |
| `HttpRouter` | `router.go`, `trie.go`, `group.go` | pure operators `parsePattern`, `insert`, `search`, `getRoute`, `normalizePrefix`, `PatternOf`, `Middlewares`; the reference `Matches`, `Before`, `GroupGuarded` |
| `WsConn` | a WebSocket after Upgrade, with the goroutines of the dashboard or of a handler that listens | `reader`, `msgType`, `buf`; `writer`, `hb`, `stop`, `closed`, `sock` |
| `HttpServe` | a request from `ServeHTTP` to `respond`, and its WebSocket afterwards | `chain`, `stack`, `index`, `panic`: compose; `ctx`, `wrote`, `phase`: the response; `taken`, `direct`: history |
| `LruStoreProofs`, `GroupProofs`, `RpcInvokeProofs`, `PeerDiscoveryProofs`, `RpcTransportProofs`, `RpcServerProofs`, `RpcClientProofs`, `HttpServeProofs` | proofs about the modules so named (`GroupProofs` about `GroupLoad` and `GroupRegistry`, whose names therefore differ; `PeerDiscoveryProofs` also about `CacheCluster`, `HttpServeProofs` about `WsConn`) | |
| `MC*` | instances for TLC | |

How they compose. `LruStore` implements `CacheContract` (`ImplementsContract`, checked by
TLC and proved as `StoreKeepsContract`). `GroupLoad` uses a node's cache only as that contract
describes it: a stored value or, at any time, nothing (`Forget`). `GroupRegistry`
uses the store as present or absent, and the operations on it as readers or
writers of the RWMutex. `RpcInvoke` extends `CircuitBreaker`: its steps contain those
of the breaker; `PeerDiscovery` extends `ConsistentHash` in the same way, and is what
`GroupLoad` has as `RingChange`, an owner that any step of a node's discovery may change.
`RpcTransport` shows what `RpcInvoke` has as `Answer`: the reader, or the sweep of a
shutdown, resolves a future that is open, and `NoCallLost` says that one of the two can.

`CacheCluster` extends `PeerDiscovery` and `Registration`: a Put, a revocation or a
lease that runs out is a `Happens` of discovery, the other peers come and go at will.
Every behaviour of it is one of `PeerDiscovery` (`ClusterIsDiscovery`), so nothing proved
of discovery is proved again. `RpcServer` is the other end of `RpcTransport` with every
connection, and with what a frame says left out; `RpcClient` is what happens before the
first frame, and extends `LoadBalance`. `HttpServe` extends `HttpRouter` and `WsConn`: a
route's handler may be the dashboard of `swifty_cache`, whose goroutines are in `WsConn`.

Abstractions, and why they lose nothing the properties tell apart:

- *LruLevel.* `hashMap`, `m` and the `prev`/`next` arrays are one sequence; a
  slot is dead when its `expireAt` is not positive, exactly as in the code. The
  eviction counter, `Len`, `Bytes`, `Stats` and `walk` only read or count.
- *LruStore.* An operation under the bucket's mutex is one step, because nobody
  else sees the bucket then; the loops that call the user's `onEvicted` make one
  step per iteration with the mutex held (`holder`). `Now()` is read before the
  mutex is taken, so the time a deadline is computed from is any earlier one.
  Deadlines are int64 and wrap (`Int64Add`); `Int64Max` is a constant. The clock
  is assumed not to go back. `event` is what a caller sees of the last step, the
  operation and its result; the contract is stated over it.
- *GroupLoad.* Keys share no state on this path, so one key stands for all.
  `raced` is a history variable: a write came to the node since the leader's
  second look at the cache. A handler slot per caller bounds the abandoned
  handlers, one `syncToPeers` goroutine per caller bounds those; the code limits
  neither. `Group.closed` is in `GroupRegistry`.
- *GroupRegistry.* A section under `groupsMu` is one step. The atomic flags are
  tested outside the RWMutex, in a step before it is asked for, and tested again
  inside where the code does so. `Lock` of the RWMutex is two steps: it keeps new
  readers out, then waits for those inside. The Add at the
  end of a long Get is an Add whose goroutine was descheduled after it had found
  the group open. `AddWithExpiration`'s early return for a time already past is
  left out: it changes nothing.
- *ConsistentHash.* A node's virtual nodes are a set of hashes, so two equal hashes
  of one node are one; `keys` is the sorted domain of `hashMap`. Add and Remove are
  under the ring's own mutex and, but for this node's first Add, the picker's.
- *PeerDiscovery.* etcd is a log of Put and Delete events of the other nodes'
  addresses, a revision is a position in it (the code's 0, "no snapshot", is
  `NoRev`, so that the empty log may have a revision). A response with several events
  is several; a watch delivers in order until it breaks, which it may do in any state,
  also for a compacted revision. A resync makes one step per address with the mutex
  held, and the mutex is taken in a step of its own, after the answer: Close may come
  between. Whether `NewClient` succeeds depends on the address (`Unusable`). This
  node's own registration is skipped by the code and left out of the log.
- *CircuitBreaker.* The clock enters by one comparison, `cooled`. The threshold
  is a fraction; the code compares a float quotient with 0.6, and for windows of
  ten both say the same.
- *RpcInvoke.* The reader, the connection's failure and a late answer are one
  action, `Answer`, on a future that is open: which of them comes, and which
  request is whose, is the transport's matter. A failed dial and a failed write
  are one, since both report a failure at once. A refused call leaves nothing.
  `Invoke` keeps its future to itself; the future of `InvokeAsync` is the user's too, who
  may call `OnComplete` on it at any time (`UserOnComplete`). After the end his callback
  just runs; before, it takes the only slot from the breaker's.
- *RpcTransport.* Each direction of the connection is a sequence of messages: the
  write mutex makes writes whole, and a write that waits for room in a socket is one
  not yet made. A break keeps any prefix of what was under way to the client, which
  may still be read. `sync.Map.Range` makes two steps per entry, resolve and delete; an
  entry stored while it runs may be shown or not. The reader's step takes a message
  and looks it up; what it does with it is the next step, so shutdown and callers
  come in between. `shutdown` runs in the caller that fails, in the reader or in
  `Close`, and is a process of its own here. What the server does when the connection
  is gone has no effect. The callback of a future is in `RpcInvoke`.
- *Registration.* A request to etcd ends with its answer or with an error, and one that
  failed has taken effect by then or never does. The check of the address and the
  growth of the pause between attempts are left out: a pause ends at any time.
  `Server.Stop` is what closes `stopCh` (`StopNode`), at any moment.
- *CacheCluster.* One lease id is not another node's; a key that is put again by its
  node is an event as well. `ClusterAssumption` gives the log room for all of them, so
  that the bound on the log never keeps a lease from running out.
- *RpcServer.* A request is a unit that is in the socket or, whole and well formed, in the
  buffer; how bytes make it is left out. `Serve` is assumed to be called once, as it is
  everywhere in the repository. A method of the service returns, after any time. A write waits while the
  peer does not read (`reads`). `SetLinger(0)` on the way out may discard an answer that
  has been written and not been sent: the model counts it as written, and
  `GracefulLosesNothing` speaks of answers that meet a closed connection.
- *LoadBalance.* An instance is its position. `Random` is a choice, with nothing to say.
  The operators are about one list that keeps its order, which is not what a registry's
  client gives its balancer; nothing is claimed of a client's shares.
- *RpcClient.* One service stands for all. `Discover` lists a Go map, in any order, so
  whatever the balancer, any instance may come out, or an empty address, when there are not as
  many instances as weights. The Get of `initService` has the registry's context, which ends
  with `Close` only: an answer may never come, and the write lock is held until then.
  `maxActive` is 1 in every pool the code creates.
  A connection may die at any moment (`ConnDies`); what travels on it is `RpcTransport`'s.
  `missed` is a history variable: etcd changed between the Get and the Watch or while the
  watch was broken.
- *HttpRouter.* A path is the sequence of its parts. A node of the trie is the parts that
  lead to it. The recursion of `search` is one over the number of parts that are left: it
  gives, for every node at once, the leaf that the call finds from there. A wild part has
  a name (`Name`), by which its parameter goes; a lone `*` gives none. A pattern is joined to
  its group's prefix as a string, so that the first part of one without a slash in front goes
  to the end of the prefix's last part; what that gives is `Glue`, of which only what
  `GluesApart` says is used. Empty parts, of double slashes, are parts like others, in the
  prefix, in the pattern and in the path; `parsePattern` drops them.
- *HttpServe.* The nested closures of compose are a stack of frames. What runs for a path
  is never empty (`HttpAssumption`): `ServeHTTP` puts the route's handler, or the answer 404,
  behind the middlewares. User middlewares and
  handlers do any calls of the Context and assign its fields `Status` and `Body` in any
  order, up to `MaxActs`; they may call `SSE` again and again, `Upgrade` fails from the
  second time on, since the connection is gone. `direct` remembers that a body, or the status 404,
  was assigned past the setters, `taken` counts who answered in respond's place. Headers and
  content types are data no property looks at. A body is whole, broken (it cannot be
  rendered), or none. A handler that writes to `ctx.Writer` or hijacks it by
  itself, and an `Upgrade` in a middleware of the user, are left out.
- *WsConn.* A frame is a kind and one unit of length. A write ends whole or with an error,
  so `writeMu` is no variable; what a handler writes, pings and pongs matter by their
  errors only. `Listen` does not close, its caller does, as the dashboard does. A write
  after Close is not refused by the code, and has no effect here. `Close` sends a close
  frame before it closes the socket: a peer that does not read may hold it up there,
  as it may any write.

## 3. Runs

| Run | Question | Bounds and why they are enough |
|---|---|---|
| `lru_bucket` | one bucket: levels, budget, callbacks, contract | 3 keys for 2 slots in level 1 and 1 in level 2, so both levels overflow with live and dead slots; two value sizes, a budget of 5 bytes that bites before the slots do; entries that expire and entries that do not; 2 clock values. Keys are interchangeable (symmetry) |
| `lru_sweep` | `Clear` and cleanup over two buckets: only expired entries go, the loops release the mutex, the goroutine stops | two buckets, so a sweep meets writes before and behind it; one slot per level |
| `group_load` | single flight, forwarding, faults: no lost waiter, no redundant load, every Get returns | two nodes, a caller on each, one of which also writes; rings change in any state, so up to four threads of both kinds meet on one node. One value: no property compares two |
| `group_loop` | threads that wait for each other in a circle | two nodes with opposite rings and no writer: violation |
| `group_lifecycle` | create, use, clear, close and destroy groups | two goroutines, two names, two groups: every pair of operations meets on one group and on two. Groups are never freed, so the goroutines end with none left to create |
| `rpc_calls` | breaker and futures: one outcome per call, one probe, probes decide | unary calls, asynchronous ones with a callback of the user, and streams; two calls, each slot used again and again: one can be late, from before the breaker opened, while the other is the probe. A window of three is the least in which a success can open the breaker. A lost probe stops the system, so deadlock is not an error here |
| `rpc_probe` | a probe that ends without an outcome | the same, window of one: violation |
| `peers_follow` | a kept lease means a registered node, a stopped node leaves for good; a watch that follows a snapshot misses nothing; every key has a connected owner; keys move only with their node; clients catch up | one picker and two peers that share a virtual node, so that each can be the one that is skipped; seven hashes, so that every gap of the ring has a key. The first peer is a `Registration` with two leases, the fewest for which an old one can run out under a new one; the second peer has one event. Breaks, failures, Close and stop fall anywhere |
| `rpc_transport` | calls and streams on one connection: nobody lost, streams whole, shutdown and answers get through | one unary call and one stream of three frames over a buffer of one: the buffer is full with a frame in the reader's hands and another behind it, the call's answer may come before, between or after the frames, and writes, breaks, cancels and Close fall anywhere. A call is used once, so the system ends with none left to make |
| `rpc_server` | no connection behind the sweep, no answer cut off by a graceful stop, both stops return | one GracefulStop and one Stop, which may come before, during and after Serve and each other; two connections, with two requests, so that a packet waits in the buffer behind the one that is served, and with one; a rate of one, so that the second request of a second is refused. Any request may open a stream, any peer stop reading or leave |
| `rpc_client` | one connection per address, none left by Close, the cache follows etcd, a service is fetched once, calls return | one address, where all callers meet; two callers and the watch goroutine, the fewest of which two are inside a read lock when the third asks for it; two changes in etcd: come, and go before or behind the Get, which may be answered, fail or hang |
| `http_serve` | routed right, guarded as `GroupGuarded` says, entered once, answered once and as logged, messages whole, connections end | one request of four kinds: page in a group, dashboard behind the group's middleware, handler that listens, no route behind the middleware; a chain of logger, recovery, user code, handler, so that a panic may pass each; three acts of user code: set, assign, overwrite, spoil or stream an answer; four frames over a limit of two: a message, an interruption, and one that is too long. Router: all lists of up to three of thirteen overlapping patterns against all paths of up to three parts, empty ones and `ab` among them; two groups, siblings or nested, under all pairs of six prefixes, with routes added with a slash and without |

Fairness. `LruStore`: a goroutine inside a loop runs on (weak); one that waits
for a bucket's mutex gets it though others take it in between, since a Go mutex
hands itself to a waiter of more than a millisecond (strong); the ticker,
callers and Close are not obliged to anything. `GroupLoad`: a goroutine that can
run does, the user's getter returns, and a forwarded request ends by the
client's three-second deadline (weak). Messages, rings and the store's
forgetting are under no fairness. `GroupRegistry`: strong fairness for each
goroutine, for the RWMutex as above. `RpcInvoke`: goroutines that can run do, and
a unary call's timeout fires (weak); no answer, no reader of a stream and no
further call is promised. `PeerDiscovery`: the discovery goroutine goes on while it can
(weak): a Get ends by its three-second timeout and a watch delivers what etcd has,
unless it breaks. `CatchesUp` claims nothing for a watch without a snapshot. In
`CacheCluster`, besides, requests of the node end and its goroutine goes on (weak), and a
lease that nobody keeps runs out (weak); nobody need start or stop the node, and a lease
that is kept may break or not.
`RpcTransport`: the reader and the shutdown go on while they can (weak); no caller, no
reader of a stream, no handler and no timeout is obliged to anything. `RpcServer`: Serve,
the stops and the connection goroutines run while they can and a method of the service
returns (weak); no peer is obliged to anything, nor is the limiter's ticker.
`RpcClient`: strong fairness for each caller, the watch and Close, because they wait for
mutexes others take in between; a dial ends by its timeout. The Get has none: it fails
when the registry is closed (fair), and is answered or not while it is open. Neither etcd
nor a server is obliged to anything. `HttpServe`: goroutines of a connection run on (weak),
a read of a connection that is gone fails (weak), and a `select` does not overlook a ready
channel for ever, though the ticker may be ready every time as well (strong: Go
chooses at random).

### What the violations show

- `group_loop`. The claim that forwarding loops are impossible holds for
  requests, not for waiting: a forwarded request is answered locally, but
  "locally" includes joining the call in flight, whose leader may be waiting for
  the very node the request came from. The circle lasts until the deadline;
  `GetReturns` shows that it ends then.
- `rpc_probe`. The flag that stands for an outstanding probe is cleared by an
  outcome only. A probe whose arguments fail to marshal, or a stream that its
  caller cancels or drops, has none: the breaker refuses that service at that
  address from then on. Only an outcome of an older call could still free it.
  That such an outcome decides for the probe is also not what README.md:324 of
  `swifty_rpc` says; the model has it so, and `OneProbe` and `ProbeDecides` hold in
  spite of it.

### Limits met while modelling

The documents list these as pitfalls or are silent on them, so they are no findings, but for
the last, which is quoted there; the models contain those that are marked with a module, and
the properties are stated around them.

- `swifty_cache/lru.go:142` adds a duration to the clock unchecked (`LruStore`). One near the
  int64 limit gives a negative deadline: a slot with a value that counts as dead.
  `NoOverflow` excludes it.
- `swifty_cache/lru.go:436` calls `onEvicted` with the bucket's mutex held: a callback that
  uses the store on a key of the same bucket waits for itself.
- `swifty_cache/group.go:268`: `Close` removes whatever is registered under its name
  (`GroupRegistry`), which after a `DestroyGroup` may be a successor. The successor then
  works and is not found.
- `swifty_cache/peers.go:170`: when the resync after a broken watch fails, the watch starts at
  the present (`PeerDiscovery`). A node that registered in between gets no keys, and one
  that stopped keeps its part of the ring, until the next break.
- `swifty_cache/peers.go:291`: a response that is already received is handled after `Close`
  has returned (`PeerDiscovery`), and the client it creates is closed by nobody.
- `swifty_rpc/internal/transport/tcp_connection_pool.go:110`: `Close` runs completion
  callbacks with the pool's mutex held; one that starts a call on the same pool waits
  for itself.
- `swifty_rpc/internal/client/resolver.go`: a pool that `getPool` stores behind the Range of
  `Client.Close` stays open (`RpcClient`). `NoConnectionLeft` covers the pools Close has
  visited, and in static mode all.
- `swifty_rpc/internal/registry/registry.go:101`: the nested read lock of `Discover` can wait
  for a writer that waits for it (`RpcClient`, `NestedLock`); the skill document lists it
  as a pitfall. `CallsReturn` shows that it is one of two ways not to return.
- `swifty_rpc/internal/registry/registry.go:124`: the other. The Get runs with the
  registry's context, which has no deadline, and under the write lock (`RpcClient`, `GetAnswered`,
  `Stalled`): an etcd that never answers holds up the caller and all who ask for any
  service, until `Close`, which cancels the context.
- `swifty_rpc/internal/transport/future.go:99`: a future has one slot for a callback. A user's
  `OnComplete` on what `InvokeAsync` returned replaces the breaker's (`RpcInvoke`,
  `UserOnComplete`): the call is never counted, and if it was the half-open probe, the
  breaker goes on refusing, as in `rpc_probe`. The skill document lists the lost count as a
  pitfall; `CountedOnce` and `ProbeDecides` except such a call and nothing else.
- `swifty_rpc/internal/load_balance`: weights go by position, and a registry lists its
  instances in a new order each time, so that a client's `WeightedRR` gives the shares to
  no instance in particular, and `RoundRobin` is a random choice. The skill document lists
  it. What is proved (`WeightsAreShares`) is of a list that keeps its order.
- `swifty_rpc/internal/registry/registry.go:150`: Get and Watch are not joined by a revision,
  so that what happens in between is not seen (`RpcClient`, `missed`).
- `swifty_rpc/internal/registry/registry.go:88`: when the keep-alive channel closes, a server
  is not registered again, unlike a node of the cache.
- `swifty_http/websocket.go:460`: a control frame between two fragments makes the reader
  forget those it has (`WsConn`), and refuse the next one. `DeliveredWhole` says that what
  is delivered is never the rest of such a message.
- `swifty_http/group.go`: a group's prefix is compared literally (`HttpRouter`): the
  middlewares of a group under `/:id` or `/a//b` do not run for the paths its routes
  match. `RoutesRight` states the others; the theorem about it has `PlainPrefixes` for a
  hypothesis, which excludes `/a//b`.
- `swifty_http/group.go:186`: so is the path of a request, while the table drops its empty
  parts: `//a/x` is answered by the route of group `/a` for `x`, past the group's
  middlewares. `GroupGuarded` says exactly for which paths that is: those with an empty
  part before the end of the prefix. The comment at `group.go:47` speaks of one consistent view
  of prefixes; it means the prefix, not the path.
- `swifty_http/group.go:71`: prefix and pattern are joined as strings. `Router("/a").Get("b", h)`
  registers `/ab`, which the middlewares of `/a` do not run for; `GroupGuarded` has that as
  well. `Static` joins its pattern by `path.Join`, which keeps the slash it is given and adds none
  in front.
- `swifty_http/sse.go:49`: every call of `SSE` writes a head (`HttpServe`); net/http drops the
  second and logs it, and the skill document says not to. `OnceEach` counts one head for each time
  a request is taken over. What is set after that, and the answer 404 or 500 of a panic
  behind it, changes what Logger prints and nothing that is sent.
- `swifty_http/response.go:98`: a status of 404 that is assigned to `ctx.Status` after a body
  was set is printed by Logger, and then promoted to 200 by respond, since only the setters
  record that a status was chosen; a body assigned to `ctx.Body` alone is promoted in respond
  too, behind Logger. The skill document says that the logged status is what the client got;
  `AnswerAsLogged` has it so but for these two (`direct`) and a body that cannot be rendered.

### What the transport does not promise

The properties of `RpcTransport` say where its guarantees end.

- `AnswersArrive` excepts a reader that is pushing a frame (`rpc = "push"`). README.md:176
  of `swifty_rpc` says that streaming and unary RPCs never block each other; with a stream
  whose consumer has stopped and whose 64 frames are buffered, the connection's only
  reader waits, and so does every answer behind the next frame. The skill document
  lists it as a pitfall.
- `StreamIntact` excepts a stream whose context is over: `Push` may then drop a frame
  while the end of the stream still comes, so that a `Recv` returns io.EOF with frames
  missing.
- A stream's opening request that the server refuses gets an error reply without a
  stream flag (`Reject`); the client looks for it among the unary calls, drops it, and
  the stream's `Recv` waits for the end of its context or of the connection.
- The second look at `closed` (`Recheck`) makes a call fail early. It is not what keeps
  calls from being lost: as the sweep comes after the socket has been closed, a call
  stored behind the sweep meets its write error and returns it.

Three statements of the documents are narrower than the code and the model
shows the stronger fact: the skill document's remark that a bucket may
transiently exceed `maxBucketBytes` through promotion (`ByteBudget`: promotion
moves bytes, it adds none), its remark that dead slots lower the capacity of
level 1 (`DeadSlotsLast`: they are recycled first), and the README's warning on a
duplicate name, which the code answers with a panic.

## 4. Proofs

For every value of the constants, from the assumptions named in the modules.

**LruStore** (`LruStoreProofs`). The induction is over the levels: each operator
of `LruLevel` keeps a level well typed, its keys unique, its length within
capacity, and its dead slots last (lemmas on `ToFront`, `ToBack`, `PushFront`).

- `TypeCorrect`: no level ever has more slots than its capacity, a live slot
  always has a value.
- `SlotsUnique`: a key has one slot per level, in its own bucket. This is what
  makes `CHOOSE` in `PosOf` a function of the level, and the code's hashMap and
  list agree.
- `NoStaleCopy`: no key is live in both levels. It needs `SlotsUnique`, since
  removing *the* slot of a key removes all of it only if there is one.
- `DeadSlotsRecycledFirst`: under `NoOverflow` (no deadline wraps), dead slots
  are behind live ones. Without the assumption it is false: an entry put with a
  wrapped deadline is dead at the front.
- `StoreKeepsContract`: under `NoOverflow`, every step of the store is a step of
  `CacheContract` on the entries it shows, or a stutter. What an operator of `LruLevel`
  does to the entry of each key is a lemma (put changes its own key's and takes away at
  most the last one's, del its own, a touch none), from which follows what each operation
  does to `Content`.
- `LossReportedOnce`: under `NoOverflow`, an entry that goes is reported by one call of
  `onEvicted` with its value, and nothing else is. It needs the same lemmas, now for the
  levels apart, and `NoStaleCopy`: a key lost from one level is not still in the other.
- `BudgetHeld`: under `NoOverflow`, a level's count is the bytes of its live entries, and a
  bucket that is not being trimmed is within its share. A put in level 1 begins the trim
  that the mutex covers; level 2 only gets what level 1 gave up.
- `CleanupSparesFresh`: the cleanup deletes only what has expired. What it
  collected had expired at the time it sampled, and nobody else gets at the bucket
  until it is through (`CleanInv`).

`NoOverflow` is not checked by the code (an ASSUME of `MCLruStore` checks that the
instances satisfy it), and what is proved under it needs it: a
Set whose deadline wraps stores a dead slot, drops the value that was there without a call,
and counts the bytes of an entry nobody can evict. Bytes are sums over the slots of
a level, and a sum is a recursive function over sets. An induction over it is out of
reach as such; its one fact, that a point more adds its value, is proved by taking a
smallest set that would contradict it, which exists since strict inclusion of
finite sets is well-founded.

**GroupLoad** (`GroupProofs`). The inductive invariant adds to the types:
the thread in the single-flight map is in `Do` on that node, and conversely
(`InDoIsInMap`, `InMapIsInDo`); a handler that is active is placed on a node; a
peer's thread never forwards (`NotForwarded`); a thread that stores carries a
value (`ResultOrError`). None of the three safety properties is inductive
without the correspondence of map and threads.

- `TypeCorrect`, with the consequence that a cache never holds an error.
- `SingleLeader`: at most one thread per node between LoadOrStore and Delete.
- `NoLostWaiter`: a thread waits only for the call in its node's map, and that
  call's leader has still to finish it.
- `LoadsOnlyWhatIsMissing`: a load under way over a present entry was overtaken
  by a write.

**GroupRegistry** (`GroupProofs`). A registered group is there and has the
name it is registered under (`OwnName`); the group's and its wrapper's flags are
set in the order of `Close`, and only by the one goroutine that won the
compare-and-swap (`OneCloser`, `ClosedInOrder`); a goroutine past the flag tests
and inside the RWMutex has a store in front of it (`ReadersHaveStore`).

- `RegistryTypeCorrect`.
- `StoreDiesWithGroup`: no store is left open by a closed wrapper. It is where
  `ensureInitialized` tests `closed` a second time, under the lock.
- `StoreOpenWhileUsed`: no operation meets a closed store.
- `ClosedGroupsLeave`: a group whose `Close` has returned is not in the registry.

**RpcInvoke** (`RpcInvokeProofs`). The invariant lists where the caller, its future
and its callback can be together (`Consistent`): the callback is stored before the
future completes, or the caller runs it; and it says that the probe flag is set
exactly in half-open, which is what makes the admission that ends Open the only
one of its period.

- `TypeCorrect`, with the window that is never full between two outcomes.
- `OutcomeCountedOnce`: a call's outcome is counted once, unless a callback of the user has
  taken the future's slot.
- `SingleProbe`: one call per half-open period.

**PeerDiscovery** (`PeerDiscoveryProofs`). Lemmas on the ring: `Add` and `Remove` keep its
two maps exact, collisions or not, and a ring with a virtual node gives every hash
an owner that is a member (the smallest of a non-empty set of naturals exists by
well-foundedness). The invariant joins the ring with the clients (`OnRing`: this node,
all its virtual nodes, and the clients), the clients with the connections (`Connected`),
and the clients with the log: what the snapshot or the watch has reached is what they
reflect (`UpToDate`), with the addresses still to do during a resync. That one event
more changes what is registered by that event alone is a lemma on the log
(`OneEventMore`).

- `TypeCorrect`: also, a peer that cannot be connected never becomes one.
- `RingStaysExact`: the ring's maps agree.
- `EveryKeyHasAnOwner`: `PickPeer` has an answer whatever the key, because this node
  placed its virtual nodes first and never leaves.
- `WatchFollowsEtcd`: nothing missed, nothing stale, when there was a snapshot.
- `KeysStayPut`: a step that adds a node moves keys to it only, and one that removes a
  node moves only the keys it had. The owner of a key is what the smallest hash
  at or behind the key's names, or the smallest of all: with fewer hashes, an owner that
  is left is the owner still (`HitsAmongFewer`). When hashes collide, the exactness of the
  ring's two maps says whose a hash is, before and behind the step.

For **CacheCluster**, in the same module:

- `ClusterIsDiscovery`: ClusterSpec implies the specification of discovery, by simulation:
  each step of the cluster is one of discovery or leaves its variables alone. The
  invariants above hold in the cluster by this.
- `KeptLeaseRegisters`: while the lease the goroutine keeps is live, the node is registered
  by it. The invariant joins etcd with the key (`KeyInLog`: the key has a lease exactly
  when the node is registered, with a lemma on what one event more registers) and the
  key with the newest lease (`NewestLease`: from the Put on, the key hangs on the lease
  granted last, if that is live).

**RpcTransport** (`RpcTransportProofs`). A call is *live* from the store of its entry to
its result. The invariant says that a live call has its entry or is in the reader's
hands (`Held`), and that one which is past its second look at `closed` and still has
its entry is ahead of the sweep: its map has not been ranged over, or the range has yet
to visit it (`AheadOfSweep`). The second fails for a call that has only stored its
entry; that it cannot be live after the second look is where `closed` being set
before anything is swept is needed (`InOrder`).

- `TypeCorrect`: also, a stream's buffer stays within its channel.
- `EveryCallFound`: whoever waits is found by the reader or by the sweep.
- `StreamsIntact`: what a stream hands out is the frames sent, in order and without a gap,
  and io.EOF comes behind the last one. The invariant follows the frames of a stream all the way
  (`StreamInv`): its request is served once, and nothing is sent for it before
  (`ServedOnce`); while anything for it is under way it has its entry, so that the reader does not
  drop it (`HasEntry`); the frames in the channel, in the reader's hands and in
  the connection follow those received (`Follows`); and its end follows them all
  (`EndsWhole`). A stream that was reset or whose context is over is excepted,
  as the property has it.

**RpcServer** (`RpcServerProofs`). What Serve holds has no goroutine yet and is registered
before it gets one (`Holding`); an open connection is registered or in Serve's hands, and
one whose goroutine is done is closed and has no packet and no stream (`Tracked`); behind
`shutdownOnce` the listener is closed or Serve has still to see that it should be, and
behind the wait for Serve nothing is held (`Ordered`); until a Stop has swept, only a
goroutine that is done closes its connection (`Intact`).

- `TypeCorrect`.
- `ShutdownIsComplete`: nothing is accepted behind the sweep, and everything that is still
  served was swept. It needs `Ordered`: Serve is waited for before the sweep begins.
- `GracefulIsLossless`: unless a Stop closes it, a connection ends with its buffer served,
  its streams ended and no answer cut off, whatever graceful stops do.

**RpcClient** (`RpcClientProofs`). A pool counts its connection, and a closed one has none
(`Counted`); who asks etcd holds the registry's write lock and has found the service
missing (`Writers`); who dials holds the mutex of the pool, which is open and without a live
connection (`Dialling`); in static mode there is one pool, and Close has it before it or
has closed it (`OnePool`).

- `TypeCorrect`.
- `OneConnectionAlways`: at most one connection per address. `Dialling` is what a second
  caller that dials at the same time would break.
- `NothingLeftBehind`: a pool that Close has visited has no connection, and none again.
- `CacheAlwaysFollows`: unless etcd changed while the service was not watched, the cached
  instances with the events still to come are what etcd has. Events wait for an open
  watch only, and only a known service is watched (`Watched`); an event that comes last or is
  taken first changes what they amount to by that event (lemmas on `Applied`).
- `CacheFilledOnce`: callers that found a service missing take the write lock one after the
  other, and only the first of them asks etcd: the second looks again, with the lock in hand.
- `WeightsAreShares`: in every run of as many selections as the weights sum up to, each
  position is picked exactly as often as its weight, for any list of weights that stays
  as it is. The current weights always sum to zero, and none falls to minus the
  total: the greatest, once all have grown, is positive, since together they are the total. After
  as many selections as the total, each current weight is a multiple of the total above
  minus the total, so not negative, and all of them sum to zero: all are zero, as they were at
  first. So the selections repeat, and a window of that length anywhere has the same counts.

**HttpServe** (`HttpServeProofs`). For the WebSocket: what the reader has collected is the
message the peer is at, from its first fragment on (`Collected`). For compose: positions
above `index` have not been entered and none twice, and the calls on the stack are those of the
first positions in their order (`Entered`); nothing is written before the end but by
those who take the request over, a head each time (`Written`). For the status: a body that was not assigned past the setters has a
status, Logger prints when everything behind it is done, and behind Recovery only Logger runs
(`Statuses`).

- `TypeCorrect`.
- `WholeMessages`: a message is delivered whole or not at all, whatever comes between its
  fragments.
- `AnsweredOnce`: each position of the chain runs at most once; a request that nobody takes
  over is answered once, by respond, and one that is taken over by nobody besides those who do.
- `AnswerIsLogged`: for a request that nobody takes over, what Logger printed is the status
  that is written, unless `direct`, and a panic that was caught is answered with 500 even then. The hypothesis is `AsDefault`: Logger and Recovery are the first
  two, where `Default` (swifty.go:48) puts them; an ASSUME of `MCHttpServe` checks that the
  instance is so. It is needed because a middleware outside Logger may change the status
  after it has been printed, and one outside Recovery after it has been set to 500.
- `EveryTableAnswers`: for any list of patterns, registered in that order, and any path, the
  answer is the last handler of the best matching pattern, with parameters that give the
  path back, or none when none matches. There is no hypothesis. After each registration
  the nodes are the beginnings of the routes so far, the children of each in the order in
  which something was first registered below them (`Planted`), and a route has the handler
  registered last (`Registered`). By induction on the parts that are left, the
  search finds from a node the leaf below it that is before all others that match (`Best`,
  `SearchFinds`): among the leaves below one child by induction, and between two children
  because they part there. As many names as wild parts means that no two have the
  same name (`NamesOnce`), so that each part is put back where it was (`Refilled`).
- `EveryGroupGuards`: for any list of groups, each behind an earlier one, any route added to
  one of them and any path, with empty parts or without: a group's middleware runs exactly
  for the paths that begin with its prefix as it was written (`MiddlewaresAre`). What is
  written is parsed to what `normalizePrefix` makes of it (`PrefixParsed`, by induction from the
  root), and what is parsed stays a prefix when a pattern is put behind it
  (`ParsedStays`). So what a route answers begins, once parsed, with the fixed parts in
  front of it (`RouteBehind`), which are the prefix if the route was given a slash, and differ from
  it in the last part if it was not (`PatternIs`); and the path itself begins as what it is parsed
  to up to its first empty part (`PathBegins`). That is the equivalence
  of `GroupGuarded` (`RouteInGroup`). The hypotheses are that `normalizePrefix` leaves no
  empty part inside a prefix, and `GluesApart`, which strings have: a part with something
  behind it is another part. Without the first the claim is false: the routes of a
  group under `/a//b` are registered under `/a/b`, where its middlewares do not run.
- `RoutesAlwaysRight`: `RoutesRight` for any lists an instance may be given, with that
  hypothesis (`PlainPrefixes`), which an ASSUME of `MCHttpServe` checks of the instance, as
  `HttpAssumption` has `GluesApart` checked.

The last theorems of these two modules are about what recursions compute for inputs of any
length. The library's induction rules cannot be used with an operator; `SetInduction` is
induction for a set of naturals instead, got from its least element outside, and
`RecursionExists` takes the step of a recursion as a function.

Only model-checked: the liveness properties, which are out of the prover's reach (`LoopsEnd`,
`GetReturns`, `OperationsReturn`, `ProbeDecides`, `CatchesUp`, `StopLeaves`,
`ShutdownCompletes`, `AnswersArrive`, `StopsReturn`, `CallsReturn`, `ConnectionEnds`).
Every safety invariant of a passing run is proved.

## 5. Not modelled

- *The ORM* (`swifty_orm`): operators of a query are translated to documents one by one, and
  the driver is called in straight line. What could be wrong is the wording of a document
  or what the database does with it; no two steps of it can be put in another order.
- *Codecs and framing bytes* (`internal/codec`, `internal/protocol`): pure functions around
  library encoders. The models count messages in whole frames; that bytes arrive in
  pieces, and the resynchronisation on bytes that are no frame, are left out.
- *Generated code* (`pb`), *configuration*, the packages of aliases, example programs and
  the release scripts: no behaviour of their own.
- *Counters and listings*: hits, misses, `Stats`, `Len`, `walk`, `ListGroups`, `getRoutes`,
  `PrintPeers` and the ring's request counters only record or read.
- *Server-sent events* beyond the answer they are: each is one write under a mutex. The
  headers, content types and templates of an answer, and the files that Static serves.
- *The prev/next arrays* of a level in `lru.go`, with their 16-bit widths: a level is a
  sequence. The array form would be a module of its own, of which that sequence is the
  abstraction.
- *Reflection* in the server (`Register`, the call of a method): a method returns, or it
  returns an error.

`PROJECT.json` gives the status of each part and, for a part that is modelled partly,
what is left out of it.
