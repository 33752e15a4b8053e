----------------------------- MODULE RpcServer -----------------------------
(***************************************************************************)
(* The life of a swifty_rpc server: Serve, GracefulStop and Stop of        *)
(* internal/server/server.go, the connection goroutine Handle, the         *)
(* handlers of handler.go with their streams, and the token bucket of      *)
(* internal/limiter.                                                       *)
(*                                                                         *)
(* A request is a unit: `wire' counts those in the socket, `packets' those *)
(* in the connection's buffer. A write waits while the peer does not read. *)
(***************************************************************************)
EXTENDS Integers, FiniteSets

CONSTANTS
    Conns,            \* connections peers may open, each once
    Graceful, Hard,   \* callers of GracefulStop and of Stop
    MaxRequests,      \* [Conns -> Nat]: bound on the requests of a connection
    Rate              \* tokens of the limiter per second

Stoppers == Graceful \cup Hard

ASSUME ServerAssumption ==
    /\ Graceful \cap Hard = {}
    /\ MaxRequests \in [Conns -> Nat]
    /\ Rate \in Nat

VARIABLES
    serve,     \* where Serve is; its wait group counts it from "accept" on
    hold,      \* the connections it has accepted and not yet handed on, at most one
    closing,   \* whether the channel closing is closed
    listener,  \* "none" (not registered), "open", "closed"
    once,      \* shutdownOnce: "no", "running", "over"
    stop,      \* [Stoppers -> StopPCs]
    conns,     \* Server.conns
    handle,    \* [Conns -> HandlePCs]: the connection goroutine
    streams,   \* [Conns -> Nat]: stream handlers running, streamWg
    sock,      \* [Conns -> SockStates], "lost": the peer or the network has closed it
    deadline,  \* [Conns -> BOOLEAN]: the read deadline is over
    wire, packets,
    cut,       \* [Conns -> BOOLEAN]: an answer found the connection closed by this server
    left,      \* [Conns -> Nat]: requests the peer may still send
    reads,     \* [Conns -> BOOLEAN]: the peer reads what it is sent
    tokens,    \* TokenBucket.tokens
    ticking    \* whether its ticker runs

serveVars == <<serve, hold, listener>>
stopVars == <<closing, once, stop>>
handleVars == <<handle, streams, packets, cut>>
peerVars == <<sock, wire, left, reads>>
bucketVars == <<tokens, ticking>>
vars == <<serveVars, stopVars, conns, handleVars, peerVars, deadline, bucketVars>>

ServePCs == {"new", "registered", "checked", "accept", "register", "spawn", "returned"}
StopPCs == {"idle", "first", "other", "waitServe", "sweep", "waitConns", "done"}
HandlePCs == {"none", "read", "process", "write", "drain", "unregister", "gone"}
SockStates == {"none", "backlog", "open", "lost", "closed"}

Init ==
    /\ serve = "new" /\ hold = {} /\ listener = "none"
    /\ closing = FALSE /\ once = "no" /\ stop = [s \in Stoppers |-> "idle"]
    /\ conns = {}
    /\ handle = [c \in Conns |-> "none"]
    /\ streams = [c \in Conns |-> 0]
    /\ packets = [c \in Conns |-> 0]
    /\ cut = [c \in Conns |-> FALSE]
    /\ sock = [c \in Conns |-> "none"]
    /\ wire = [c \in Conns |-> 0]
    /\ left = MaxRequests
    /\ reads = [c \in Conns |-> TRUE]
    /\ deadline = [c \in Conns |-> FALSE]
    /\ tokens = Rate /\ ticking = TRUE

-----------------------------------------------------------------------------
(* Serve                                                                   *)

RegisterListener ==
    /\ serve = "new"
    /\ listener' = "open"
    /\ serve' = "registered"
    /\ UNCHANGED <<hold, stopVars, conns, handleVars, peerVars, deadline, bucketVars>>

(* A closed listener resets what waits to be accepted.                     *)
Reset == sock' = [c \in Conns |-> IF sock[c] = "backlog" THEN "lost" ELSE sock[c]]

CheckClosing ==
    /\ serve = "registered"
    /\ IF closing
       THEN serve' = "returned" /\ listener' = "closed" /\ Reset
       ELSE serve' = "checked" /\ UNCHANGED <<listener, sock>>
    /\ UNCHANGED <<hold, stopVars, conns, handleVars, wire, left, reads, deadline, bucketVars>>

AddServe ==
    /\ serve = "checked"
    /\ serve' = "accept"
    /\ UNCHANGED <<hold, listener, stopVars, conns, handleVars, peerVars, deadline, bucketVars>>

Accept(c) ==
    /\ serve = "accept" /\ listener = "open" /\ sock[c] = "backlog"
    /\ sock' = [sock EXCEPT ![c] = "open"]
    /\ hold' = {c}
    /\ serve' = "register"
    /\ UNCHANGED <<listener, stopVars, conns, handleVars, wire, left, reads, deadline, bucketVars>>

(* Accept fails; while closing is open the loop would go on.               *)
AcceptFails ==
    /\ serve = "accept" /\ listener = "closed" /\ closing
    /\ serve' = "returned"
    /\ UNCHANGED <<hold, listener, stopVars, conns, handleVars, peerVars, deadline, bucketVars>>

Register(c) ==
    /\ serve = "register" /\ c \in hold
    /\ conns' = conns \cup {c}
    /\ serve' = "spawn"
    /\ UNCHANGED <<hold, listener, stopVars, handleVars, peerVars, deadline, bucketVars>>

Spawn(c) ==
    /\ serve = "spawn" /\ c \in hold
    /\ handle' = [handle EXCEPT ![c] = "read"]
    /\ hold' = {}
    /\ serve' = "accept"
    /\ UNCHANGED <<listener, stopVars, conns, streams, packets, cut, peerVars, deadline, bucketVars>>

-----------------------------------------------------------------------------
(* GracefulStop and Stop                                                   *)

(* beginShutdown: the first caller closes the channel, the others wait for *)
(* it to finish.                                                           *)
BeginShutdown(s) ==
    /\ stop[s] = "idle"
    /\ stop' = [stop EXCEPT ![s] = IF once = "no" THEN "first" ELSE "other"]
    /\ once' = IF once = "no" THEN "running" ELSE once
    /\ closing' = TRUE
    /\ UNCHANGED <<serveVars, conns, handleVars, peerVars, deadline, bucketVars>>

CloseListener(s) ==
    /\ stop[s] = "first"
    /\ IF listener = "open"
       THEN listener' = "closed" /\ Reset
       ELSE UNCHANGED <<listener, sock>>
    /\ once' = "over"
    /\ stop' = [stop EXCEPT ![s] = "waitServe"]
    /\ UNCHANGED <<serve, hold, closing, conns, handleVars, wire, left, reads, deadline, bucketVars>>

OnceOver(s) ==
    /\ stop[s] = "other" /\ once = "over"
    /\ stop' = [stop EXCEPT ![s] = "waitServe"]
    /\ UNCHANGED <<serveVars, closing, once, conns, handleVars, peerVars, deadline, bucketVars>>

InServe == serve \in {"accept", "register", "spawn"}

(* Mutant: the accept loop is not waited for.                              *)
WaitServeNot(s) ==
    /\ stop[s] = "waitServe"
    /\ stop' = [stop EXCEPT ![s] = "sweep"]
    /\ UNCHANGED <<serveVars, closing, once, conns, handleVars, peerVars, deadline, bucketVars>>

WaitServe(s) ==
    /\ stop[s] = "waitServe" /\ ~InServe
    /\ stop' = [stop EXCEPT ![s] = "sweep"]
    /\ UNCHANGED <<serveVars, closing, once, conns, handleVars, peerVars, deadline, bucketVars>>

(* Mutant: the sweep closes the connections as Stop's does.                *)
InterruptByClose(s) ==
    /\ stop[s] = "sweep" /\ s \in Graceful
    /\ sock' = [c \in Conns |-> IF c \in conns THEN "closed" ELSE sock[c]]
    /\ stop' = [stop EXCEPT ![s] = "waitConns"]
    /\ UNCHANGED <<serveVars, closing, once, conns, handleVars, wire, left, reads, deadline, bucketVars>>

Interrupt(s) ==
    /\ stop[s] = "sweep" /\ s \in Graceful
    /\ deadline' = [c \in Conns |-> deadline[c] \/ c \in conns]
    /\ stop' = [stop EXCEPT ![s] = "waitConns"]
    /\ UNCHANGED <<serveVars, closing, once, conns, handleVars, peerVars, bucketVars>>

WaitConns(s) ==
    /\ stop[s] = "waitConns"
    /\ \A c \in Conns : handle[c] \in {"none", "gone"}
    /\ stop' = [stop EXCEPT ![s] = "done"]
    /\ ticking' = FALSE
    /\ UNCHANGED <<serveVars, closing, once, conns, handleVars, peerVars, deadline, tokens>>

(* Mutant: Stop interrupts the readers only.                               *)
CloseConnsByDeadline(s) ==
    /\ stop[s] = "sweep" /\ s \in Hard
    /\ deadline' = [c \in Conns |-> deadline[c] \/ c \in conns]
    /\ stop' = [stop EXCEPT ![s] = "done"]
    /\ ticking' = FALSE
    /\ UNCHANGED <<serveVars, closing, once, conns, handleVars, peerVars, tokens>>

CloseConns(s) ==
    /\ stop[s] = "sweep" /\ s \in Hard
    /\ sock' = [c \in Conns |-> IF c \in conns THEN "closed" ELSE sock[c]]
    /\ stop' = [stop EXCEPT ![s] = "done"]
    /\ ticking' = FALSE
    /\ UNCHANGED <<serveVars, closing, once, conns, handleVars, wire, left, reads, deadline, tokens>>

-----------------------------------------------------------------------------
(* Handle: one request after the other, streams in goroutines of their own *)

HandleGoto(c, l) == handle' = [handle EXCEPT ![c] = l]

(* Read finds no whole packet in its buffer and reads the socket.          *)
Fill(c) ==
    /\ handle[c] = "read" /\ packets[c] = 0
    /\ sock[c] \in {"open", "lost"} /\ ~deadline[c]
    /\ \E k \in 1 .. wire[c] :
          /\ packets' = [packets EXCEPT ![c] = k]
          /\ wire' = [wire EXCEPT ![c] = @ - k]
    /\ UNCHANGED <<serveVars, stopVars, conns, handle, streams, cut, sock, left, reads, deadline, bucketVars>>

(* Without a token the request is answered with an error at once. A packet *)
(* in the buffer is read whatever has become of the socket.                *)
Take(c) ==
    /\ handle[c] = "read" /\ packets[c] > 0
    /\ packets' = [packets EXCEPT ![c] = @ - 1]
    /\ IF tokens > 0
       THEN tokens' = tokens - 1 /\ HandleGoto(c, "process")
       ELSE UNCHANGED tokens /\ HandleGoto(c, "write")
    /\ UNCHANGED <<serveVars, stopVars, conns, streams, cut, peerVars, deadline, ticking>>

ReadFails(c) ==
    /\ handle[c] = "read" /\ packets[c] = 0
    /\ sock[c] = "closed" \/ deadline[c] \/ (sock[c] = "lost" /\ wire[c] = 0)
    /\ HandleGoto(c, "drain")
    /\ UNCHANGED <<serveVars, stopVars, conns, streams, packets, cut, peerVars, deadline, bucketVars>>

(* A unary method has returned, panicked or was not found: its answer is   *)
(* to be written. A streaming one gets a goroutine.                        *)
Process(c) ==
    /\ handle[c] = "process"
    /\ \/ HandleGoto(c, "write") /\ UNCHANGED streams
       \/ HandleGoto(c, "read") /\ streams' = [streams EXCEPT ![c] = @ + 1]
    /\ UNCHANGED <<serveVars, stopVars, conns, packets, cut, peerVars, deadline, bucketVars>>

CanWrite(c) == reads[c] \/ sock[c] # "open"

Written(c) == cut' = [cut EXCEPT ![c] = @ \/ sock[c] = "closed"]

WriteReply(c) ==
    /\ handle[c] = "write" /\ CanWrite(c)
    /\ Written(c)
    /\ HandleGoto(c, "read")
    /\ UNCHANGED <<serveVars, stopVars, conns, streams, packets, peerVars, deadline, bucketVars>>

StreamEnds(c) ==
    /\ streams[c] > 0 /\ CanWrite(c)
    /\ Written(c)
    /\ streams' = [streams EXCEPT ![c] = @ - 1]
    /\ UNCHANGED <<serveVars, stopVars, conns, handle, packets, peerVars, deadline, bucketVars>>

(* The deferred streamWg.Wait and conn.Close, in this order.               *)
Drain(c) ==
    /\ handle[c] = "drain" /\ streams[c] = 0
    /\ sock' = [sock EXCEPT ![c] = "closed"]
    /\ HandleGoto(c, "unregister")
    /\ UNCHANGED <<serveVars, stopVars, conns, streams, packets, cut, wire, left, reads, deadline, bucketVars>>

Unregister(c) ==
    /\ handle[c] = "unregister"
    /\ conns' = conns \ {c}
    /\ HandleGoto(c, "gone")
    /\ UNCHANGED <<serveVars, stopVars, streams, packets, cut, peerVars, deadline, bucketVars>>

(* The bucket's ticker.                                                    *)
Refill ==
    /\ ticking /\ tokens # Rate
    /\ tokens' = Rate
    /\ UNCHANGED <<serveVars, stopVars, conns, handleVars, peerVars, deadline, ticking>>

-----------------------------------------------------------------------------
(* The peers                                                               *)

Dial(c) ==
    /\ sock[c] = "none" /\ listener = "open"
    /\ sock' = [sock EXCEPT ![c] = "backlog"]
    /\ UNCHANGED <<serveVars, stopVars, conns, handleVars, wire, left, reads, deadline, bucketVars>>

Request(c) ==
    /\ sock[c] \in {"backlog", "open"} /\ left[c] > 0
    /\ left' = [left EXCEPT ![c] = @ - 1]
    /\ wire' = [wire EXCEPT ![c] = @ + 1]
    /\ UNCHANGED <<serveVars, stopVars, conns, handleVars, sock, reads, deadline, bucketVars>>

StopReading(c) ==
    /\ sock[c] = "open" /\ reads[c]
    /\ reads' = [reads EXCEPT ![c] = FALSE]
    /\ UNCHANGED <<serveVars, stopVars, conns, handleVars, sock, wire, left, deadline, bucketVars>>

(* What was under way may still arrive, or be reset.                       *)
Leave(c) ==
    /\ sock[c] = "open"
    /\ sock' = [sock EXCEPT ![c] = "lost"]
    /\ wire' \in {wire, [wire EXCEPT ![c] = 0]}
    /\ UNCHANGED <<serveVars, stopVars, conns, handleVars, left, reads, deadline, bucketVars>>

-----------------------------------------------------------------------------
ServeLoop ==
    \/ RegisterListener \/ CheckClosing \/ AddServe \/ AcceptFails
    \/ \E c \in Conns : Accept(c) \/ Register(c) \/ Spawn(c)

StopStep(s) ==
    \/ CloseListener(s) \/ OnceOver(s) \/ WaitServe(s)
    \/ Interrupt(s) \/ WaitConns(s) \/ CloseConns(s)

Goroutine(c) ==
    \/ Fill(c) \/ Take(c) \/ ReadFails(c) \/ Process(c) \/ WriteReply(c)
    \/ Drain(c) \/ Unregister(c)

Peer(c) == Dial(c) \/ Request(c) \/ StopReading(c) \/ Leave(c)

Next ==
    \/ ServeLoop \/ Refill
    \/ \E s \in Stoppers : BeginShutdown(s) \/ StopStep(s)
    \/ \E c \in Conns : Goroutine(c) \/ StreamEnds(c) \/ Peer(c)

Spec == Init /\ [][Next]_vars

(* Goroutines that can run do, and a method of the service returns; no     *)
(* peer is obliged to anything.                                            *)
FairSpec ==
    /\ Spec
    /\ WF_vars(ServeLoop)
    /\ \A s \in Stoppers : WF_vars(StopStep(s))
    /\ \A c \in Conns : WF_vars(Goroutine(c)) /\ WF_vars(StreamEnds(c))

-----------------------------------------------------------------------------
(* Type correctness.                                                       *)
TypeOK ==
    /\ serve \in ServePCs
    /\ hold \in SUBSET Conns /\ conns \in SUBSET Conns
    /\ closing \in BOOLEAN /\ ticking \in BOOLEAN
    /\ listener \in {"none", "open", "closed"}
    /\ once \in {"no", "running", "over"}
    /\ stop \in [Stoppers -> StopPCs]
    /\ handle \in [Conns -> HandlePCs]
    /\ sock \in [Conns -> SockStates]
    /\ streams \in [Conns -> Nat]
    /\ packets \in [Conns -> Nat]
    /\ wire \in [Conns -> Nat]
    /\ left \in [Conns -> Nat]
    /\ cut \in [Conns -> BOOLEAN]
    /\ reads \in [Conns -> BOOLEAN]
    /\ deadline \in [Conns -> BOOLEAN]
    /\ tokens \in 0 .. Rate

(* No connection escapes a shutdown: once a sweep is over, nothing is      *)
(* being accepted, and every connection goroutine there is has been        *)
(* interrupted (GracefulStop: "no new connection can be registered after   *)
(* the interrupt sweep"), however Serve and the shutdown interleave.       *)
NothingEscapesSweep ==
    (\E s \in Stoppers : stop[s] \in {"waitConns", "done"}) =>
        /\ hold = {}
        /\ \A c \in Conns : sock[c] = "open" => deadline[c]

(* A graceful shutdown loses nothing that it has read: unless a Stop closes *)
(* the connection, its goroutine serves every packet in the buffer, ends   *)
(* after its streams, and no answer finds the connection closed            *)
(* (GracefulStop: "handlers that are mid-request (including active         *)
(* streams) finish their work before the connection goroutine exits").     *)
GracefulLosesNothing ==
    \A c \in Conns : (\A s \in Hard : stop[s] # "done") =>
        /\ handle[c] \in {"unregister", "gone"} => packets[c] = 0 /\ streams[c] = 0
        /\ ~cut[c]

Blocked(c) ==
    /\ sock[c] = "open" /\ ~reads[c]
    /\ handle[c] = "write" \/ streams[c] > 0

(* GracefulStop returns, unless an answer is stuck in a write to a peer    *)
(* that does not read: the read deadline does not interrupt a write. Stop  *)
(* ends every connection, those that a GracefulStop waits for in vain      *)
(* included, so that both return ("Remains effective after a prior         *)
(* GracefulStop").                                                         *)
StopsReturn ==
    /\ \A s \in Graceful :
          stop[s] # "idle" ~> (stop[s] = "done" \/ \E c \in Conns : Blocked(c))
    /\ (\E s \in Hard : stop[s] # "idle") ~>
          /\ \A c \in Conns : handle[c] \in {"none", "gone"}
          /\ \A s \in Stoppers : stop[s] \in {"idle", "done"}
=============================================================================
