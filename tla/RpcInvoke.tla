------------------------------ MODULE RpcInvoke ------------------------------
(***************************************************************************)
(* The calls of one client to one service at one address, and the breaker  *)
(* that admits them and is told how they end: Invoke, InvokeAsync and      *)
(* InvokeStream of swifty_rpc/internal/client/invoke.go, over the Future   *)
(* of internal/transport/future.go.                                        *)
(*                                                                         *)
(* A call c is a slot used by one call after another. Three goroutines     *)
(* meet on its future: the caller, the reader that has the answer, and     *)
(* whoever holds the call's timeout (the caller in Invoke, a goroutine of  *)
(* its own in InvokeAsync). The transport answers a call that has been     *)
(* sent at any time after, late answers included, or never.                *)
(*                                                                         *)
(* A future has one slot for a callback, and invokeAsync puts the breaker's*)
(* into it. Invoke keeps its future to itself; InvokeAsync hands it out,   *)
(* and a user who calls OnComplete on it replaces the breaker's callback.  *)
(*                                                                         *)
(* The limiter and the choice of an address come before Allow and leave    *)
(* nothing behind when they fail: they are left out.                       *)
(***************************************************************************)
EXTENDS CircuitBreaker

CONSTANTS
    Calls,
    Kinds    \* of "unary" (Invoke), "async" (InvokeAsync) and "stream", those made

ASSUME InvokeAssumption == Kinds \subseteq {"unary", "async", "stream"}

VARIABLES
    pc,        \* [Calls -> PCs]: where the caller is
    kind,      \* [Calls -> Kinds \cup {"none"}]
    fut,       \* [Calls -> FutureStates]
    err,       \* [Calls -> BOOLEAN]: Future.err is not nil
    hook,      \* [Calls -> Hooks]: whose callback is in Future.onComplete
    recorded,  \* [Calls -> 0..2]: outcomes the breaker has had from this call
    probes     \* history: the calls under way admitted in the half-open period

vars == <<cbVars, pc, kind, fut, err, hook, recorded, probes>>

PCs == {"idle", "admitted", "sent", "lateHook", "waiting", "returned", "streaming"}

Hooks == {"none", "breaker", "user"}

(* open; completed with a callback to run; completed, done still to be     *)
(* closed; done                                                            *)
FutureStates == {"none", "open", "callback", "close", "done"}

Init ==
    /\ NewCircuitBreaker
    /\ pc = [c \in Calls |-> "idle"]
    /\ kind = [c \in Calls |-> "none"]
    /\ fut = [c \in Calls |-> "none"]
    /\ err = [c \in Calls |-> FALSE]
    /\ hook = [c \in Calls |-> "none"]
    /\ recorded = [c \in Calls |-> 0]
    /\ probes = {}

Goto(c, l) == pc' = [pc EXCEPT ![c] = l]

Record(failed) == IF failed THEN RecordFailure ELSE RecordSuccess

(* Recorded counts up to 2, which is one too many already.                 *)
RecordFor(c, failed) ==
    /\ Record(failed)
    /\ recorded' = [recorded EXCEPT ![c] = IF @ = 2 THEN 2 ELSE @ + 1]

(* The slot is free for another call.                                      *)
Leave(c) ==
    /\ Goto(c, "idle")
    /\ kind' = [kind EXCEPT ![c] = "none"]
    /\ fut' = [fut EXCEPT ![c] = "none"]
    /\ err' = [err EXCEPT ![c] = FALSE]
    /\ hook' = [hook EXCEPT ![c] = "none"]
    /\ recorded' = [recorded EXCEPT ![c] = 0]
    /\ probes' = probes \ {c}

-----------------------------------------------------------------------------
(* The caller, up to the send.                                             *)

(* A call that is refused goes away: only a call that is admitted is a     *)
(* step.                                                                   *)
Admit(c, k) ==
    /\ pc[c] = "idle"
    /\ Allow
    /\ kind' = [kind EXCEPT ![c] = k]
    /\ probes' = IF state = "Open" THEN {c}
                 ELSE IF state = "HalfOpen" THEN probes \cup {c}
                 ELSE probes
    /\ Goto(c, "admitted")
    /\ UNCHANGED <<fut, err, hook, recorded>>

(* No connection, or the request cannot be written.                        *)
FailToSend(c) ==
    /\ pc[c] = "admitted"
    /\ RecordFailure
    /\ Leave(c)

(* The arguments cannot be marshalled: the breaker is not told.            *)
FailToMarshal(c) ==
    /\ pc[c] = "admitted"
    /\ Leave(c)
    /\ UNCHANGED cbVars

Send(c) ==
    /\ pc[c] = "admitted"
    /\ IF kind[c] = "stream"
       THEN Goto(c, "streaming") /\ UNCHANGED fut
       ELSE Goto(c, "sent") /\ fut' = [fut EXCEPT ![c] = "open"]
    /\ UNCHANGED <<cbVars, kind, err, hook, recorded, probes>>

-----------------------------------------------------------------------------
(* The future.                                                             *)

Complete(c, failed) ==
    /\ fut' = [fut EXCEPT ![c] = IF hook[c] = "none" THEN "close" ELSE "callback"]
    /\ err' = [err EXCEPT ![c] = failed]

(* Future.Done: the first to come completes it, for the others it does     *)
(* nothing.                                                                *)
Done(c, failed) ==
    IF fut[c] = "open" THEN Complete(c, failed) ELSE UNCHANGED <<fut, err>>

(* The rest of Done, outside the future's mutex. A user's callback tells   *)
(* the breaker nothing.                                                    *)
Callback(c) ==
    /\ fut[c] = "callback"
    /\ IF hook[c] = "breaker" THEN RecordFor(c, err[c])
                              ELSE UNCHANGED <<cbVars, recorded>>
    /\ fut' = [fut EXCEPT ![c] = "close"]
    /\ UNCHANGED <<pc, kind, err, hook, probes>>

CloseDone(c) ==
    /\ fut[c] = "close"
    /\ fut' = [fut EXCEPT ![c] = "done"]
    /\ UNCHANGED <<cbVars, pc, kind, err, hook, recorded, probes>>

(* The reader, or the failure of the connection.                           *)
Answer(c, failed) ==
    /\ fut[c] = "open"
    /\ Done(c, failed)
    /\ UNCHANGED <<cbVars, pc, kind, hook, recorded, probes>>

(* Mutant: the callback is stored though the future is complete.           *)
StoreHookAlways(c) ==
    /\ pc[c] = "sent"
    /\ hook' = [hook EXCEPT ![c] = "breaker"]
    /\ Goto(c, "waiting")
    /\ UNCHANGED <<cbVars, kind, fut, err, recorded, probes>>

(* Future.OnComplete, called by invokeAsync for the breaker                *)
OnComplete(c) ==
    /\ pc[c] = "sent"
    /\ IF fut[c] = "open"
       THEN hook' = [hook EXCEPT ![c] = "breaker"] /\ Goto(c, "waiting")
       ELSE Goto(c, "lateHook") /\ UNCHANGED hook
    /\ UNCHANGED <<cbVars, kind, fut, err, recorded, probes>>

(* The same, called by the user of the future that InvokeAsync returned:   *)
(* as long as the future is open, the breaker's callback is overwritten    *)
(* (afterwards the user's function is called and nothing else changes).    *)
UserOnComplete(c) ==
    /\ kind[c] = "async"
    /\ pc[c] = "waiting"
    /\ fut[c] = "open"
    /\ hook' = [hook EXCEPT ![c] = "user"]
    /\ UNCHANGED <<cbVars, pc, kind, fut, err, recorded, probes>>

(* The future was complete already: OnComplete calls the callback itself.  *)
LateCallback(c) ==
    /\ pc[c] = "lateHook"
    /\ RecordFor(c, err[c])
    /\ Goto(c, "waiting")
    /\ UNCHANGED <<kind, fut, err, hook, probes>>

(* The future is done, and Invoke or the timer's goroutine sees it.        *)
Return(c) ==
    /\ pc[c] = "waiting"
    /\ fut[c] = "done"
    /\ Goto(c, "returned")
    /\ UNCHANGED <<cbVars, kind, fut, err, hook, recorded, probes>>

(* Mutant: the caller goes without resolving the future.                   *)
ExpireSilently(c) ==
    /\ pc[c] = "waiting"
    /\ Goto(c, "returned")
    /\ UNCHANGED <<cbVars, kind, fut, err, hook, recorded, probes>>

(* The timeout: the caller or the timer's goroutine resolves the future.   *)
Expire(c) ==
    /\ pc[c] = "waiting"
    /\ Done(c, TRUE)
    /\ Goto(c, "returned")
    /\ UNCHANGED <<cbVars, kind, hook, recorded, probes>>

Forget(c) ==
    /\ pc[c] = "returned"
    /\ fut[c] = "done"
    /\ Leave(c)
    /\ UNCHANGED cbVars

-----------------------------------------------------------------------------
(* observedStream.Recv returned the end of the stream (failed = FALSE) or  *)
(* an error: sync.Once lets one of them through.                           *)
RecvTerminal(c, failed) ==
    /\ pc[c] = "streaming"
    /\ recorded[c] = 0
    /\ RecordFor(c, failed)
    /\ UNCHANGED <<pc, kind, fut, err, hook, probes>>

(* The caller cancels its stream, or just stops reading it.                *)
DropStream(c) ==
    /\ pc[c] = "streaming"
    /\ Leave(c)
    /\ UNCHANGED cbVars

-----------------------------------------------------------------------------
Cool ==
    /\ TimePasses
    /\ UNCHANGED <<pc, kind, fut, err, hook, recorded, probes>>

Call(c) ==
    \/ \E k \in Kinds : Admit(c, k)
    \/ FailToSend(c)
    \/ FailToMarshal(c)
    \/ Send(c)
    \/ Callback(c)
    \/ CloseDone(c)
    \/ \E failed \in BOOLEAN : Answer(c, failed)
    \/ OnComplete(c)
    \/ UserOnComplete(c)
    \/ LateCallback(c)
    \/ Return(c)
    \/ Expire(c)
    \/ Forget(c)
    \/ \E failed \in BOOLEAN : RecvTerminal(c, failed)
    \/ DropStream(c)

Next == Cool \/ \E c \in Calls : Call(c)

Spec == Init /\ [][Next]_vars

(* Goroutines that can run do, and the timeout of a call that is no stream *)
(* fires. A server need not answer, nobody need read a stream, call again, *)
(* leave or set a callback.                                                *)
Fairness ==
    \A c \in Calls :
        /\ WF_vars(OnComplete(c))
        /\ WF_vars(LateCallback(c))
        /\ WF_vars(Callback(c))
        /\ WF_vars(CloseDone(c))
        /\ WF_vars(Expire(c))

FairSpec == Spec /\ Fairness

-----------------------------------------------------------------------------
(* Type correctness. The counts stay below a full window, which is judged  *)
(* and emptied by the outcome that fills it (breaker.go).                  *)
TypeOK ==
    /\ BreakerTypeOK
    /\ failureCount + successCount < WindowSize
    /\ pc \in [Calls -> PCs]
    /\ kind \in [Calls -> Kinds \cup {"none"}]
    /\ fut \in [Calls -> FutureStates]
    /\ err \in [Calls -> BOOLEAN]
    /\ hook \in [Calls -> Hooks]
    /\ recorded \in [Calls -> 0 .. 2]
    /\ probes \subseteq Calls

(* The breaker has the outcome of a call exactly once, whoever completes   *)
(* its future and whether before or after the callback was registered      *)
(* (Future.Done and OnComplete, invoke.go's "exactly once"): never twice,  *)
(* and not at all only as long as somebody is bound to report it, or when  *)
(* a user has put a callback of his own in the place of the breaker's.     *)
CountedOnce ==
    \A c \in Calls :
        /\ recorded[c] <= 1
        /\ fut[c] \in {"close", "done"} /\ recorded[c] = 0 =>
               pc[c] \in {"sent", "lateHook"} \/ hook[c] = "user"

(* A half-open breaker has let through one call, and while it is not       *)
(* closed it carries no counts over from an earlier window (Allow, toOpen, *)
(* toClosed).                                                              *)
OneProbe ==
    state # "Closed" =>
        /\ state = "HalfOpen" => \A c, d \in probes : c = d
        /\ failureCount = 0 /\ successCount = 0

(* A probe with a future (no stream) that has been sent ends the half-open *)
(* state, at the latest by its timeout (Invoke and InvokeAsync resolve the *)
(* future, which tells the breaker), unless a user's callback has taken    *)
(* the place of the breaker's on the future InvokeAsync returned.          *)
ProbeDecides ==
    \A c \in Calls :
        (state = "HalfOpen" /\ c \in probes /\ fut[c] # "none") ~>
            (state # "HalfOpen" \/ hook[c] = "user")

(* What the documents say of HalfOpen: Allow returns false "if a probe is  *)
(* already outstanding" and true otherwise. The flag that stands for an    *)
(* outstanding probe in the code outlives a probe that ends unrecorded     *)
(* (invokeAsync's and InvokeStream's marshal error, a cancelled stream, a  *)
(* future whose user has replaced the breaker's callback).                 *)
ProbeOutstanding == state = "HalfOpen" /\ halfOpenProbe => probes # {}

=============================================================================
