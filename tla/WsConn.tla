------------------------------- MODULE WsConn -------------------------------
(***************************************************************************)
(* A WebSocket connection of swifty_http (websocket.go) behind a           *)
(* successful Upgrade, with the goroutines that use it. In use "dashboard" *)
(* they are those of swifty_cache/dashboard.go: a reader of commands, and  *)
(* a writer with a ticker, which in the end stops the heartbeat and closes *)
(* the connection. In use "listen" a goroutine runs Listen and then does   *)
(* what it has deferred, which is the same.                                *)
(*                                                                         *)
(* A write ends, whole or with an error (writeMu is held for no longer,    *)
(* and so is not a variable); the peer sends any frames in any order, and  *)
(* a frame counts as one of the units that Limit allows a message. What a  *)
(* handler writes, pongs and pings have no effect here but their errors.   *)
(***************************************************************************)
EXTENDS Integers

CONSTANTS
    Limit,      \* messageLimit
    MaxFrames   \* bound on the frames the peer sends

ASSUME WsAssumption == Limit \in Nat \ {0} /\ MaxFrames \in Nat

VARIABLES
    use,       \* "none" before the upgrade, "dashboard" or "listen"
    sock,      \* "open", "gone" (the peer's end is), "shut" (ours is)
    closed,    \* WSConn.closed is closed
    reader, msgType, buf,   \* the reader; what readMessage has in its hands
    writer,    \* the goroutine that writes, or only closes in the end
    hb, stop,  \* the heartbeat goroutine, and its stop channel
    other,     \* someone else who calls CloseWithMessage
    frames,    \* the number of frames so far
    sent, going,   \* data frames of the peer's message; whether more are to come
    got        \* frames in the message that has just been read

peerVars == <<frames, sent, going>>
userVars == <<use, writer, hb, stop, other>>
readVars == <<reader, msgType, buf, got>>
wsVars == <<userVars, readVars, peerVars, sock, closed>>

WsInit ==
    /\ use = "none" /\ sock = "open" /\ closed = FALSE
    /\ reader = "off" /\ msgType = FALSE /\ buf = 0 /\ got = 0
    /\ writer = "off" /\ hb = "off" /\ stop = FALSE /\ other = "off"
    /\ frames = 0 /\ sent = 0 /\ going = FALSE

(* serveDashboardConn, or Heartbeat and a goroutine for Listen.            *)
Serve(how) ==
    /\ use = "none" /\ use' = how
    /\ reader' = "read" /\ hb' = "wait"
    /\ writer' = IF how = "dashboard" THEN "write" ELSE "listen"
    /\ UNCHANGED <<sock, closed, msgType, buf, got, stop, other, peerVars>>

-----------------------------------------------------------------------------
(* What the peer sends next.                                               *)
Sends(f) ==
    /\ frames < MaxFrames /\ frames' = frames + 1
    /\ sent' = CASE f \in {"text", "first"} -> 1
                 [] f \in {"next", "last"}  -> sent + 1
                 [] OTHER -> sent
    /\ going' = CASE f = "first" -> TRUE [] f \in {"text", "last"} -> FALSE [] OTHER -> going

(* readMessage: what it has collected is gone when it returns.             *)
Returns == msgType' = FALSE /\ buf' = 0
Collects(n) == msgType' = TRUE /\ buf' = n /\ got' = 0 /\ UNCHANGED <<reader, closed>>

handleError == closed' = TRUE /\ reader' = "ended"

Control ==
    /\ reader = "read" /\ Sends("control")
    /\ Returns /\ got' = 0
    /\ UNCHANGED <<userVars, sock, closed, reader>>

(* The peer's close frame is answered; Listen and the reader are done.     *)
CloseFrame ==
    /\ reader = "read" /\ Sends("close")
    /\ Returns /\ got' = 0
    /\ closed' = TRUE /\ reader' = "ended"
    /\ UNCHANGED <<userVars, sock>>

(* The dashboard's reader ends with a command that is no JSON.             *)
Deliver(n) ==
    /\ got' = n
    /\ reader' \in IF use = "dashboard" THEN {"read", "ended"} ELSE {"read"}
    /\ Returns /\ UNCHANGED closed

Refuse == got' = 0 /\ handleError /\ Returns

DataFrame(f) ==
    /\ reader = "read" /\ f \in {"text", "first"} /\ Sends(f)
    /\ IF msgType THEN Refuse ELSE IF f = "text" THEN Deliver(1) ELSE Collects(1)
    /\ UNCHANGED <<userVars, sock>>

(* Mutant: a continuation is taken for the start of a message.             *)
ContinuationAnyhow(f) ==
    /\ reader = "read" /\ f \in {"next", "last"} /\ Sends(f)
    /\ IF buf + 1 > Limit THEN Refuse
       ELSE IF f = "last" THEN Deliver(buf + 1) ELSE Collects(buf + 1)
    /\ UNCHANGED <<userVars, sock>>

Continuation(f) ==
    /\ reader = "read" /\ f \in {"next", "last"} /\ Sends(f)
    /\ IF ~msgType \/ buf + 1 > Limit THEN Refuse
       ELSE IF f = "last" THEN Deliver(buf + 1) ELSE Collects(buf + 1)
    /\ UNCHANGED <<userVars, sock>>

(* readFrame: reserved bits, no mask, a long or cut control frame, a frame *)
(* above the limit.                                                        *)
BadFrame ==
    /\ reader = "read" /\ Sends("bad")
    /\ Refuse
    /\ UNCHANGED <<userVars, sock>>

(* What is buffered may be read even when the connection is not there.     *)
ReadFails ==
    /\ reader = "read" /\ sock # "open"
    /\ handleError /\ Returns /\ got' = 0
    /\ UNCHANGED <<userVars, peerVars, sock>>

Read ==
    \/ Control \/ CloseFrame \/ BadFrame
    \/ \E f \in {"text", "first", "next", "last"} : DataFrame(f) \/ Continuation(f)

-----------------------------------------------------------------------------
(* The goroutine that writes and closes, the heartbeat, and the others     *)

WriterGoes(from, to) ==
    /\ writer = from /\ writer' = to
    /\ UNCHANGED <<use, hb, other, readVars, peerVars>>

Quiet == UNCHANGED <<sock, closed, stop>>

(* Mutant: a failed write is tried again at the next tick.                 *)
WriteJSONAgain == WriterGoes("write", "wait") /\ Quiet

WriteJSON == WriterGoes("write", IF sock = "open" THEN "wait" ELSE "stop") /\ Quiet

Tick == WriterGoes("wait", "write") /\ Quiet

(* The select of the writer sees Closed(), or Listen has returned.         *)
Hears ==
    \/ closed /\ WriterGoes("wait", "stop") /\ Quiet
    \/ reader = "ended" /\ WriterGoes("listen", "stop") /\ Quiet

StopHeartbeat == WriterGoes("stop", "join") /\ stop' = TRUE /\ UNCHANGED <<sock, closed>>

Joins == hb = "ended" /\ WriterGoes("join", "close") /\ Quiet

(* Close: the channel, a close frame, the socket.                          *)
Close ==
    \/ WriterGoes("close", "closing") /\ closed' = TRUE /\ UNCHANGED <<sock, stop>>
    \/ WriterGoes("closing", "ended") /\ sock' = "shut" /\ UNCHANGED <<closed, stop>>

(* A tick's ping fails, or the select sees one of the channels.            *)
HeartbeatEnds ==
    /\ hb = "wait" /\ (sock # "open" \/ closed \/ stop)
    /\ hb' = "ended"
    /\ UNCHANGED <<use, writer, stop, other, readVars, peerVars, sock, closed>>

CloseWithMessage ==
    /\ use = "listen" /\ other = "off"
    /\ other' = "closing" /\ closed' = TRUE
    /\ UNCHANGED <<use, writer, hb, stop, sock, readVars, peerVars>>

CloseConn ==
    /\ other = "closing"
    /\ other' = "ended" /\ sock' = "shut"
    /\ UNCHANGED <<use, writer, hb, stop, closed, readVars, peerVars>>

PeerGoes ==
    /\ use # "none" /\ sock = "open"
    /\ sock' = "gone"
    /\ UNCHANGED <<userVars, readVars, peerVars, closed>>

Writer == WriteJSON \/ StopHeartbeat \/ Joins \/ Close

-----------------------------------------------------------------------------
(* The goroutines are somewhere in their code, and what the reader has in  *)
(* its hands is within the limit (WSConn).                                 *)
WsTypeOK ==
    /\ use \in {"none", "dashboard", "listen"} /\ sock \in {"open", "gone", "shut"}
    /\ closed \in BOOLEAN /\ reader \in {"off", "read", "ended"}
    /\ msgType \in BOOLEAN /\ buf \in 0 .. Limit
    /\ writer \in {"off", "listen", "write", "wait", "stop", "join", "close", "closing", "ended"}
    /\ hb \in {"off", "wait", "ended"} /\ stop \in BOOLEAN
    /\ other \in {"off", "closing", "ended"}
    /\ frames \in 0 .. MaxFrames /\ sent \in Nat /\ going \in BOOLEAN /\ got \in 0 .. Limit

(* What readMessage returns is a whole message of the peer's, never the    *)
(* end of one or parts of two, and never above the limit, whatever frames  *)
(* it sends.                                                               *)
DeliveredWhole == got # 0 => got = sent /\ ~going /\ got <= Limit

AllEnded == reader = "ended" /\ writer = "ended" /\ hb = "ended" /\ sock = "shut"

(* Once the peer's end is gone, or anybody has closed the channel, all the *)
(* goroutines end and the socket is closed, although the dashboard's       *)
(* reader may have ended before, at a command it could not read            *)
(* (serveDashboardConn, Heartbeat).                                        *)
ConnectionEnds == (use # "none" /\ (sock = "gone" \/ closed)) ~> AllEnded
=============================================================================
