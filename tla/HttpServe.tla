----------------------------- MODULE HttpServe -----------------------------
(***************************************************************************)
(* A request of swifty_http from ServeHTTP to respond: the chain of        *)
(* compose (swifty.go), Logger and Recovery, the deferred response of      *)
(* context.go and response.go, and the handlers that answer for themselves *)
(* (Upgrade, SSE, Static), after which a WebSocket lives on by WsConn.     *)
(*                                                                         *)
(* A stack of frames stands for the nested calls; the last position is the *)
(* handler. Middlewares and handlers other than those of the framework are *)
(* the user's: in their own goroutine they call the methods of Context and *)
(* assign its fields Status and Body, in any order.                        *)
(***************************************************************************)
EXTENDS HttpRouter, WsConn

CONSTANTS
    AppGroups,           \* the groups: [prefix, uses], uses in {"logger", "recovery", "user"}
    Routes, Handlers,    \* the registered patterns, and "page", "dashboard" or "listen" for each
    Paths,               \* the paths that are requested
    MaxActs,             \* bound on what user code does to the Context
    RouteLists, RoutedPaths, GroupSpecs, Comps   \* what the router is checked on

Kinds == {"logger", "recovery", "user", "notFound", "page", "dashboard", "listen"}

(* The middlewares for a path, and its handler.                            *)
Chain(path) ==
    LET n == getRoute(Table(Routes), path).handler
    IN  Middlewares(AppGroups, path) \o <<IF n = 0 THEN "notFound" ELSE Handlers[n]>>

ASSUME HttpAssumption ==
    /\ MaxActs \in Nat /\ \A path \in Paths : Chain(path) \in Seq(Kinds) \ {<<>>}
    /\ RouteLists \subseteq Seq(Seq(Segments)) /\ RoutedPaths \subseteq Seq(Segments)
    /\ Comps \subseteq Seq(Segments) \ {<<>>}
    /\ \A specs \in GroupSpecs : WellMade(specs) /\ \A comp \in Comps :
          \A g \in 1 .. Len(specs) + 1 : GluesApart(Groups(specs)[g].prefix, comp)

(* Logger and Recovery are what Default makes of them: the first two, and  *)
(* nowhere else.                                                           *)
AsDefault ==
    \A path \in Paths : \A i \in DOMAIN Chain(path) :
        /\ Chain(path)[i] = "logger" => i = 1
        /\ Chain(path)[i] = "recovery" => i = 1 \/ (i = 2 /\ Chain(path)[1] = "logger")

(* Between its first part and its last, no prefix has an empty one: that   *)
(* is what normalizePrefix leaves, and addRoute drops.                     *)
PlainPrefixes ==
    \A specs \in GroupSpecs : \A k \in 1 .. Len(specs) :
        Empty \notin Range(normalizePrefix(specs[k].segs))

VARIABLES
    chain, stack, index,   \* the kinds by position; the frames; compose's index
    panic,                 \* "none", "error" or "abort" (ErrAbortHandler)
    ctx,                   \* Context: [status, set, body, flushed]
    acts, ran,             \* how often user code has acted; how often each position was entered
    wrote,                 \* the heads written: WriteHeader's, and the handshake's
    logged, recovered,     \* history: what Logger printed; Recovery caught a panic
    taken, direct,         \* how often the connection was taken over; whether Body, or
                           \* Status with 404, was assigned behind the setters' back
    phase                  \* "new", "running", "answered", "aborted"

chainVars == <<chain, stack, index, ran>>
ctxVars == <<ctx, acts, wrote>>
noteVars == <<logged, recovered, taken, direct>>
vars == <<chainVars, panic, ctxVars, noteVars, phase, wsVars>>

Init ==
    /\ chain = <<>> /\ stack = <<>> /\ index = 0 /\ ran = <<>> /\ panic = "none"
    /\ ctx = [status |-> 404, set |-> FALSE, body |-> "none", flushed |-> FALSE]
    /\ acts = 0 /\ wrote = <<>> /\ logged = 0 /\ recovered = FALSE
    /\ taken = 0 /\ direct = FALSE /\ phase = "new"
    /\ WsInit

Push(s, i) == Append(s, [at |-> i, called |-> 0])

(* dispatch(i); from a frame, that of the caller has called next once more.*)
DispatchAgain(s, i) ==
    /\ index' = i /\ stack' = Push(s, i) /\ ran' = [ran EXCEPT ![i] = @ + 1]
    /\ UNCHANGED panic

Dispatch(s, i) ==
    IF i <= index
    THEN panic' = "error" /\ stack' = s /\ UNCHANGED <<index, ran>>
    ELSE /\ index' = i /\ stack' = Push(s, i) /\ ran' = [ran EXCEPT ![i] = @ + 1]
         /\ UNCHANGED panic

(* ServeHTTP and router.handle.                                            *)
ServeHTTP(path) ==
    /\ phase = "new" /\ phase' = "running"
    /\ chain' = Chain(path)
    /\ index' = 1 /\ stack' = Push(<<>>, 1)
    /\ ran' = [i \in DOMAIN chain' |-> IF i = 1 THEN 1 ELSE 0]
    /\ UNCHANGED <<panic, ctxVars, noteVars, wsVars>>

-----------------------------------------------------------------------------
(* What the frame on top does                                              *)

top == Last(stack)
Kind == chain[top.at]
Runs == phase = "running" /\ stack # <<>> /\ panic = "none"
IsHandler == top.at = Len(chain)

(* The handler's next does nothing. Logger and Recovery call next once;    *)
(* user code, up to twice here.                                            *)
CallNext ==
    /\ Runs /\ ~IsHandler
    /\ top.called < IF Kind = "user" THEN 2 ELSE 1
    /\ Dispatch([stack EXCEPT ![Len(stack)].called = @ + 1], top.at + 1)
    /\ UNCHANGED <<chain, ctxVars, noteVars, phase, wsVars>>

HandlerReturns ==
    /\ Runs
    /\ Kind \in {"logger", "recovery", "notFound"} => top.called = 1
    /\ stack' = Front(stack)
    /\ logged' = IF Kind = "logger" THEN ctx.status ELSE logged
    /\ UNCHANGED <<chain, index, ran, panic, ctxVars, recovered, taken, direct, phase, wsVars>>

Bodies == {"none", "whole", "broken"}

UserCode == Runs /\ Kind \in {"user", "page"} /\ acts < MaxActs /\ acts' = acts + 1
Same == UNCHANGED <<chainVars, logged, recovered, phase>>

(* promoteStatus                                                           *)
Promoted(c) == IF ~c.set /\ c.status = 404 THEN [c EXCEPT !.status = 200] ELSE c

(* Mutant: the status is left to respond.                                  *)
BodyOnly(b) == [ctx EXCEPT !.body = b]

(* JSON, String, Data and HTML; a body that cannot be rendered is broken.  *)
Body(b) == Promoted([ctx EXCEPT !.body = b])

(* Those that net/http has for a redirect with a Location.                 *)
Redirects == {300, 301, 302, 303, 305, 307, 308}

(* SetStatus, Throw and Redirect, with Body.                               *)
Sets ==
    \/ \E b \in {"whole", "broken"} : ctx' = Body(b)
    \/ \E s \in {204, 404} : ctx' = [ctx EXCEPT !.status = s, !.set = TRUE]
    \/ ctx' = [ctx EXCEPT !.status = 500, !.set = TRUE, !.body = "whole"]
    \/ ctx' = [ctx EXCEPT !.status = IF @ \in Redirects THEN @ ELSE 302, !.set = TRUE,
                          !.body = IF @ = "none" THEN "whole" ELSE @]

(* ctx.Status = s, ctx.Body = b                                            *)
Assigns ==
    \/ \E s \in {301, 404} : ctx' = [ctx EXCEPT !.status = s] /\ direct' = (direct \/ s = 404)
    \/ \E b \in Bodies : ctx' = [ctx EXCEPT !.body = b] /\ direct' = TRUE

Acts ==
    /\ UserCode
    /\ (Sets /\ UNCHANGED direct) \/ Assigns
    /\ UNCHANGED <<panic, wrote, taken, wsVars>> /\ Same

Panics ==
    /\ UserCode
    /\ panic' \in {"error", "abort"}
    /\ UNCHANGED <<ctx, wrote, taken, direct, wsVars>> /\ Same

(* Whatever a middleware has set before.                                   *)
SaysNotFound ==
    /\ Runs /\ Kind = "notFound" /\ top.called = 0
    /\ stack' = [stack EXCEPT ![Len(stack)].called = @ + 1]
    /\ ctx' = [ctx EXCEPT !.status = 404, !.set = TRUE, !.body = "whole"]
    /\ UNCHANGED <<chain, index, ran, panic, acts, wrote, noteVars, phase, wsVars>>

TakesOver == taken' = taken + 1 /\ UNCHANGED <<panic, direct>> /\ Same

(* SSE writes the head at once, as often as it is called.                  *)
SSE ==
    /\ UserCode /\ TakesOver
    /\ ctx' = [ctx EXCEPT !.flushed = TRUE, !.status = 200, !.set = TRUE]
    /\ wrote' = Append(wrote, 200)
    /\ UNCHANGED wsVars

(* A file is there; http.FileServer's status is recorded in the Context.   *)
StaticFile ==
    /\ UserCode /\ Kind = "page" /\ TakesOver
    /\ \E s \in {200, 304} :
          /\ ctx' = [ctx EXCEPT !.flushed = TRUE, !.status = s]
          /\ wrote' = Append(wrote, s)
    /\ UNCHANGED wsVars

(* Upgrade does not get the connection (Throw; a second time it never      *)
(* does), or has it and fails in the handshake (it is closed, nothing      *)
(* arrives), or the WebSocket begins.                                      *)
Upgrade ==
    /\ Runs /\ Kind \in {"dashboard", "listen"} /\ acts < MaxActs /\ acts' = acts + 1
    /\ \/ /\ ctx' = [ctx EXCEPT !.status = 400, !.set = TRUE, !.body = "whole"]
          /\ UNCHANGED <<panic, wrote, taken, direct, wsVars>> /\ Same
       \/ /\ use = "none" /\ sock # "shut" /\ TakesOver
          /\ ctx' = [ctx EXCEPT !.flushed = TRUE, !.status = 101, !.set = TRUE]
          /\ \/ wrote' = Append(wrote, 101) /\ Serve(Kind)
             \/ sock' = "shut" /\ UNCHANGED <<wrote, userVars, readVars, peerVars, closed>>

-----------------------------------------------------------------------------
(* A panic unwinds to Recovery, which makes a 500 of it, or out of the     *)
(* handler; net/http then drops the connection.                            *)
Recovered == [ctx EXCEPT !.status = 500, !.set = TRUE, !.body = "whole"]

Unwind ==
    /\ phase = "running" /\ panic # "none"
    /\ IF stack = <<>>
       THEN phase' = "aborted" /\ UNCHANGED <<stack, panic, ctx, recovered>>
       ELSE /\ stack' = Front(stack)
            /\ IF Kind = "recovery" /\ panic = "error"
               THEN panic' = "none" /\ ctx' = Recovered /\ recovered' = TRUE
               ELSE UNCHANGED <<panic, ctx, recovered>>
            /\ UNCHANGED phase
    /\ UNCHANGED <<chain, index, ran, acts, wrote, logged, taken, direct, wsVars>>

emptyStatus(s) == s \in {204, 205, 304}

respond ==
    /\ phase = "running" /\ stack = <<>> /\ panic = "none"
    /\ phase' = "answered"
    /\ IF ctx.flushed
       THEN UNCHANGED <<ctx, wrote>>
       ELSE LET c == IF ctx.body # "none" THEN Promoted(ctx) ELSE ctx
                d == IF emptyStatus(c.status) THEN [c EXCEPT !.body = "none"] ELSE c
            IN  ctx' = d /\ wrote' = Append(wrote, IF d.body = "broken" THEN 500 ELSE d.status)
    /\ UNCHANGED <<chainVars, panic, acts, noteVars, wsVars>>

-----------------------------------------------------------------------------
httpVars == <<chainVars, panic, ctxVars, noteVars, phase>>

Ws(A) == A /\ UNCHANGED httpVars

Next ==
    \/ \E path \in Paths : ServeHTTP(path)
    \/ CallNext \/ HandlerReturns \/ Acts \/ Panics \/ SaysNotFound \/ SSE \/ StaticFile
    \/ Upgrade \/ Unwind \/ respond
    \/ Ws(Read) \/ Ws(ReadFails) \/ Ws(Writer) \/ Ws(Tick) \/ Ws(Hears)
    \/ Ws(HeartbeatEnds) \/ Ws(CloseWithMessage) \/ Ws(CloseConn) \/ Ws(PeerGoes)

Spec == Init /\ [][Next]_vars

(* Goroutines that can run do; a read or a write of a connection that is   *)
(* gone fails; a select does not overlook a ready channel for ever.        *)
FairSpec ==
    /\ Spec
    /\ WF_vars(Ws(ReadFails)) /\ WF_vars(Ws(Writer)) /\ WF_vars(Ws(Tick))
    /\ SF_vars(Ws(Hears)) /\ WF_vars(Ws(HeartbeatEnds)) /\ WF_vars(Ws(CloseConn))

-----------------------------------------------------------------------------
Frames == [at : Nat \ {0}, called : Nat]
Contexts == [status : Nat, set : BOOLEAN, body : Bodies, flushed : BOOLEAN]

(* Contexts, frames and histories have their types; the counters of        *)
(* positions are those of the chain (Context, compose).                    *)
TypeOK ==
    /\ WsTypeOK
    /\ chain \in Seq(Kinds) /\ stack \in Seq(Frames) /\ index \in Nat
    /\ ran \in [DOMAIN chain -> Nat]
    /\ panic \in {"none", "error", "abort"} /\ ctx \in Contexts /\ acts \in 0 .. MaxActs
    /\ wrote \in Seq(Nat) /\ logged \in Nat /\ recovered \in BOOLEAN
    /\ taken \in Nat /\ direct \in BOOLEAN
    /\ phase \in {"new", "running", "answered", "aborted"}

(* What is registered before the first request: every pattern list answers *)
(* as Before and Matches have it; a group's middlewares run for the paths  *)
(* below its prefix, and of what its routes answer they are left out       *)
(* exactly where GroupGuarded says, which is for a route without a slash   *)
(* in front and a path with an empty part inside the prefix (addRoute,     *)
(* getRoute, search; normalizePrefix, matchRouterPath, Router.addRoute).   *)
RoutesRight ==
    phase = "new" =>
        /\ \A rs \in RouteLists, path \in RoutedPaths : RoutedWell(rs, path)
        /\ \A specs \in GroupSpecs, comp \in Comps, path \in RoutedPaths :
              \A g \in 1 .. Len(specs) + 1 : GroupGuarded(specs, g, comp, path)

(* Whatever middlewares do with next, each of them and the handler run     *)
(* once at most. A request that nobody takes over is answered once, by     *)
(* respond, when it comes to its end; one that is taken over has a head    *)
(* for every time that happens, but for a handshake that fails, and none   *)
(* of respond's behind them, whatever is set afterwards (compose, flushed).*)
OnceEach ==
    /\ \A i \in DOMAIN ran : ran[i] <= 1
    /\ taken = 0 => Len(wrote) = IF phase = "answered" THEN 1 ELSE 0
    /\ taken > 0 => \/ Len(wrote) = taken
                    \/ Len(wrote) = taken - 1 /\ use = "none" /\ sock = "shut"

(* When nobody takes the request over: the status that Logger prints, as   *)
(* the outermost, is the one that is written, even though respond comes    *)
(* after it (promoteStatus), but for a body that cannot be rendered, and   *)
(* if Body, or Status with 404, has not been assigned directly; and a      *)
(* panic that Recovery has caught is answered with 500, whatever has been  *)
(* set or assigned before it.                                              *)
AnswerAsLogged ==
    phase = "answered" /\ ~ctx.flushed =>
        /\ logged # 0 /\ ~direct /\ ctx.body # "broken" => wrote = <<logged>>
        /\ recovered => wrote = <<500>>
=============================================================================
