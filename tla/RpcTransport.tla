---------------------------- MODULE RpcTransport ----------------------------
(***************************************************************************)
(* One connection of swifty_rpc with the calls and streams multiplexed on  *)
(* it: TCPClient of internal/transport/tcp_client.go with its reader       *)
(* goroutine and its shutdown, ClientStreamConn of stream.go, and the      *)
(* handler at the other end (internal/server/handler.go, stream.go).       *)
(*                                                                         *)
(* A call is its sequence number and used once. `out' is what its future   *)
(* holds or, for a stream, what Recv returned last. Frames of a stream are *)
(* numbered as the server sends them.                                      *)
(*                                                                         *)
(* Each direction of the connection is a sequence of messages: writes are  *)
(* whole (the write mutex), and one that waits for room in a socket is one *)
(* not yet made. What the server does once the connection is gone has no   *)
(* effect here.                                                            *)
(***************************************************************************)
EXTENDS Integers, Sequences

CONSTANTS
    Unary, Streams,   \* the calls: requests for one answer, and for a stream
    NoCall,
    BufferSize,       \* frames a stream buffers, 64 in the code
    MaxFrames         \* bound on the frames of a stream

Calls == Unary \cup Streams

ASSUME TransportAssumption ==
    /\ Unary \cap Streams = {}
    /\ NoCall \notin Calls
    /\ BufferSize \in Nat \ {0}
    /\ MaxFrames \in Nat

VARIABLES
    pc,        \* [Calls -> PCs]: where the caller is
    out,       \* [Calls -> Outcomes]
    entries,   \* the keys of TCPClient.pending and TCPClient.streams
    buf,       \* [Streams -> Seq of frames]: ClientStreamConn.ch
    term,      \* [Streams -> {"none", "eof", "error"}]: termErr, once termCh is closed
    ctxDone,   \* [Streams -> BOOLEAN]: the stream's context is over
    got,       \* [Streams -> Seq of frames]: what Recv has delivered
    rpc,       \* where the reader goroutine is
    hand,      \* the message it holds
    closed,    \* TCPClient.closed
    sd,        \* how far shutdown is
    due,       \* the entries the current Range must still visit
    cur,       \* the entry it has resolved and not yet deleted
    conn,      \* "open", "broken" (the other end or the network), "closed"
    up, down,  \* the messages under way to the server and to the client
    serving,   \* the unary call the server's connection goroutine runs, or NoCall
    handlers,  \* the stream handlers running
    sent       \* [Streams -> Nat]: frames the server has sent

callVars == <<pc, out>>
streamVars == <<buf, term, ctxDone, got>>
readVars == <<rpc, hand>>
downVars == <<closed, sd, due, cur>>
netVars == <<conn, up, down>>
serverVars == <<serving, handlers, sent>>
vars == <<callVars, entries, streamVars, readVars, downVars, netVars, serverVars>>

PCs == {"idle", "begun", "stored", "ready", "waiting", "recv", "blocked", "ended", "failed"}
Outcomes == {"none", "open", "reply", "error", "eof"}
Readers == {"read", "push", "deliver", "terminate", "ended"}
Stages == {"no", "closeConn", "pending", "streams", "over"}
Flags == {"data", "end", "error", "reply", "fail"}

Messages == [id : Calls, flag : Flags, n : 0 .. MaxFrames]
Message(c, f, n) == [id |-> c, flag |-> f, n |-> n]
NoMessage == [id |-> NoCall, flag |-> "none", n |-> 0]

Goto(c, l) == pc' = [pc EXCEPT ![c] = l]

Init ==
    /\ pc = [c \in Calls |-> "idle"]
    /\ out = [c \in Calls |-> "none"]
    /\ entries = {}
    /\ buf = [c \in Streams |-> <<>>]
    /\ term = [c \in Streams |-> "none"]
    /\ ctxDone = [c \in Streams |-> FALSE]
    /\ got = [c \in Streams |-> <<>>]
    /\ rpc = "read" /\ hand = NoMessage
    /\ closed = FALSE /\ sd = "no" /\ due = {} /\ cur = NoCall
    /\ conn = "open" /\ up = <<>> /\ down = <<>>
    /\ serving = NoCall /\ handlers = {} /\ sent = [c \in Streams |-> 0]

-----------------------------------------------------------------------------
(* Futures, streams and shutdown: what several goroutines call.            *)

(* Future.Done: the first result stays.                                    *)
Done(c, how) == out' = [out EXCEPT ![c] = IF @ = "open" THEN how ELSE @]

(* Mutant: a second terminal state replaces the first.                     *)
TerminateAgain(c, how) == term' = [term EXCEPT ![c] = how]

(* ClientStreamConn.terminate, once.                                       *)
Terminate(c, how) == term' = [term EXCEPT ![c] = IF @ = "none" THEN how ELSE @]

(* shutdown: whoever sets closed goes on with it, for the others it is     *)
(* over.                                                                   *)
Shutdown ==
    /\ closed' = TRUE
    /\ sd' = IF closed THEN sd ELSE "closeConn"
    /\ UNCHANGED <<due, cur>>

-----------------------------------------------------------------------------
(* The caller: SendAsyncWithCodec and SendStream.                          *)

(* The connection is not closed. A call that finds it closed leaves        *)
(* nothing.                                                                *)
Begin(c) ==
    /\ pc[c] = "idle" /\ ~closed
    /\ Goto(c, "begun")
    /\ UNCHANGED <<out, entries, streamVars, readVars, downVars, netVars, serverVars>>

StoreEntry(c) ==
    /\ pc[c] = "begun"
    /\ entries' = entries \cup {c}
    /\ out' = [out EXCEPT ![c] = "open"]
    /\ Goto(c, "stored")
    /\ UNCHANGED <<streamVars, readVars, downVars, netVars, serverVars>>

(* Mutant: the entry is taken back, but the request sent all the same.     *)
RecheckDeletes(c) ==
    /\ pc[c] = "stored"
    /\ entries' = IF closed THEN entries \ {c} ELSE entries
    /\ Goto(c, "ready")
    /\ UNCHANGED <<out, streamVars, readVars, downVars, netVars, serverVars>>

(* closed is looked at again: a shutdown may have swept before the entry   *)
(* was there.                                                              *)
Recheck(c) ==
    /\ pc[c] = "stored"
    /\ IF closed /\ c \in entries
       THEN entries' = entries \ {c} /\ Goto(c, "failed")
       ELSE UNCHANGED entries /\ Goto(c, "ready")
    /\ UNCHANGED <<out, streamVars, readVars, downVars, netVars, serverVars>>

Sent(c) == Goto(c, IF c \in Unary THEN "waiting" ELSE "recv")

(* A request written to a broken connection goes nowhere.                  *)
Write(c) ==
    /\ pc[c] = "ready" /\ conn # "closed"
    /\ up' = IF conn = "open" THEN Append(up, c) ELSE up
    /\ Sent(c)
    /\ UNCHANGED <<out, entries, streamVars, readVars, downVars, conn, down, serverVars>>

(* Encoding or writing fails: the caller deletes its entry and shuts the   *)
(* connection down.                                                        *)
WriteFails(c) ==
    /\ pc[c] = "ready"
    /\ entries' = entries \ {c}
    /\ Shutdown
    /\ Goto(c, "failed")
    /\ UNCHANGED <<out, streamVars, readVars, netVars, serverVars>>

(* The caller of Invoke gives up and resolves its future; the entry stays. *)
Expire(c) ==
    /\ pc[c] = "waiting" /\ out[c] = "open"
    /\ Done(c, "error")
    /\ UNCHANGED <<pc, entries, streamVars, readVars, downVars, netVars, serverVars>>

-----------------------------------------------------------------------------
(* The reader of a stream: Recv, and the end of the stream's context.      *)

CancelStream(c) ==
    /\ pc[c] \notin {"idle", "begun"} /\ ~ctxDone[c]
    /\ ctxDone' = [ctxDone EXCEPT ![c] = TRUE]
    /\ UNCHANGED <<callVars, entries, buf, term, got, readVars, downVars, netVars, serverVars>>

TakeFrame(c) ==
    /\ buf[c] # <<>>
    /\ got' = [got EXCEPT ![c] = Append(@, Head(buf[c]))]
    /\ buf' = [buf EXCEPT ![c] = Tail(@)]
    /\ Goto(c, "recv")
    /\ UNCHANGED <<out, term>>

EndRecv(c, how) ==
    /\ out' = [out EXCEPT ![c] = how]
    /\ Goto(c, "ended")
    /\ UNCHANGED <<buf, term, got>>

(* The first select: a frame that is there is taken.                       *)
Recv(c) ==
    /\ pc[c] = "recv"
    /\ \/ TakeFrame(c)
       \/ buf[c] = <<>> /\ Goto(c, "blocked") /\ UNCHANGED <<out, buf, term, got>>
    /\ UNCHANGED <<entries, ctxDone, readVars, downVars, netVars, serverVars>>

(* The second select takes any of its cases that is ready; the terminal    *)
(* case looks for a frame once more.                                       *)
RecvBlocked(c) ==
    /\ pc[c] = "blocked"
    /\ \/ TakeFrame(c)
       \/ term[c] # "none" /\ buf[c] = <<>> /\ EndRecv(c, term[c])
       \/ ctxDone[c] /\ EndRecv(c, "error")
    /\ UNCHANGED <<entries, ctxDone, readVars, downVars, netVars, serverVars>>

-----------------------------------------------------------------------------
(* readLoop                                                                *)

Answers == {"reply", "fail"}

HandFor(flag) ==
    IF flag \in Answers THEN "deliver" ELSE IF flag = "data" THEN "push" ELSE "terminate"

(* An answer is looked for among the pending calls, a frame among the      *)
(* streams; all but data take the entry out. What is not found is dropped. *)
Dispatch ==
    /\ rpc = "read" /\ down # <<>>
    /\ LET m == Head(down)
           table == entries \cap (IF m.flag \in Answers THEN Unary ELSE Streams)
       IN  IF m.id \in table
           THEN /\ rpc' = HandFor(m.flag) /\ hand' = m
                /\ entries' = IF m.flag = "data" THEN entries ELSE entries \ {m.id}
           ELSE UNCHANGED <<rpc, hand, entries>>
    /\ down' = Tail(down)
    /\ UNCHANGED <<callVars, streamVars, downVars, conn, up, serverVars>>

ReadOn == rpc' = "read" /\ hand' = NoMessage

Deliver ==
    /\ rpc = "deliver"
    /\ Done(hand.id, IF hand.flag = "reply" THEN "reply" ELSE "error")
    /\ ReadOn
    /\ UNCHANGED <<pc, entries, streamVars, downVars, netVars, serverVars>>

(* Mutant: a frame without room waits for the reader or its context only.  *)
PushThroughEnd ==
    /\ rpc = "push"
    /\ \/ /\ Len(buf[hand.id]) < BufferSize
          /\ buf' = [buf EXCEPT ![hand.id] = Append(@, hand.n)]
       \/ ctxDone[hand.id] /\ UNCHANGED buf
    /\ ReadOn
    /\ UNCHANGED <<callVars, entries, term, ctxDone, got, downVars, netVars, serverVars>>

(* Push: of room in the buffer, the end of the context and a terminal      *)
(* state, select takes any that is there, and waits while there is none.   *)
Push ==
    /\ rpc = "push"
    /\ \/ /\ Len(buf[hand.id]) < BufferSize
          /\ buf' = [buf EXCEPT ![hand.id] = Append(@, hand.n)]
       \/ (ctxDone[hand.id] \/ term[hand.id] # "none") /\ UNCHANGED buf
    /\ ReadOn
    /\ UNCHANGED <<callVars, entries, term, ctxDone, got, downVars, netVars, serverVars>>

(* Mutant: the terminal state goes through the buffer.                     *)
EndStreamInBand ==
    /\ rpc = "terminate"
    /\ Len(buf[hand.id]) < BufferSize
    /\ Terminate(hand.id, IF hand.flag = "end" THEN "eof" ELSE "error")
    /\ ReadOn
    /\ UNCHANGED <<callVars, entries, buf, ctxDone, got, downVars, netVars, serverVars>>

EndStream ==
    /\ rpc = "terminate"
    /\ Terminate(hand.id, IF hand.flag = "end" THEN "eof" ELSE "error")
    /\ ReadOn
    /\ UNCHANGED <<callVars, entries, buf, ctxDone, got, downVars, netVars, serverVars>>

(* What had arrived before the failure may still be read, also from a      *)
(* closed connection (TCPConnection.buffer).                               *)
ReadFails ==
    /\ rpc = "read"
    /\ conn # "open"
    /\ conn = "closed" \/ down = <<>>
    /\ Shutdown
    /\ rpc' = "ended"
    /\ UNCHANGED <<callVars, entries, streamVars, hand, netVars, serverVars>>

-----------------------------------------------------------------------------
(* TCPClient.Close, and the rest of shutdown in whichever goroutine it is. *)

Close ==
    /\ ~closed
    /\ Shutdown
    /\ UNCHANGED <<callVars, entries, streamVars, readVars, netVars, serverVars>>

CloseConn ==
    /\ sd = "closeConn"
    /\ conn' = "closed"
    /\ sd' = "pending"
    /\ due' = entries \cap Unary
    /\ UNCHANGED <<callVars, entries, streamVars, readVars, closed, cur, up, down, serverVars>>

(* Range shows every entry that is there from start to end; an entry       *)
(* stored meanwhile it may show or not.                                    *)
Resolve(c) ==
    /\ cur = NoCall /\ c \in entries
    /\ \/ sd = "pending" /\ c \in Unary /\ Done(c, "error") /\ UNCHANGED term
       \/ sd = "streams" /\ c \in Streams /\ Terminate(c, "error") /\ UNCHANGED out
    /\ cur' = c
    /\ UNCHANGED <<pc, entries, buf, ctxDone, got, readVars, closed, sd, due, netVars, serverVars>>

DeleteEntry ==
    /\ cur # NoCall
    /\ entries' = entries \ {cur}
    /\ due' = due \ {cur}
    /\ cur' = NoCall
    /\ UNCHANGED <<callVars, streamVars, readVars, closed, sd, netVars, serverVars>>

RangeEnds ==
    /\ sd \in {"pending", "streams"} /\ cur = NoCall
    /\ due \cap entries = {}
    /\ IF sd = "pending"
       THEN sd' = "streams" /\ due' = entries \cap Streams
       ELSE sd' = "over" /\ due' = {}
    /\ UNCHANGED <<callVars, entries, streamVars, readVars, closed, cur, netVars, serverVars>>

-----------------------------------------------------------------------------
(* The other end: Server.Handle reads a request after the other, runs a    *)
(* unary method itself and a streaming one in a goroutine of its own.      *)

Reply(m) == down' = Append(down, m)

Reject ==
    /\ conn = "open" /\ serving = NoCall /\ up # <<>>
    /\ up' = Tail(up)
    /\ Reply(Message(Head(up), "fail", 0))   \* without a stream flag
    /\ UNCHANGED <<callVars, entries, streamVars, readVars, downVars, conn, serverVars>>

Serve ==
    /\ conn = "open" /\ serving = NoCall /\ up # <<>>
    /\ up' = Tail(up)
    /\ IF Head(up) \in Unary
       THEN serving' = Head(up) /\ UNCHANGED handlers
       ELSE handlers' = handlers \cup {Head(up)} /\ UNCHANGED serving
    /\ UNCHANGED <<callVars, entries, streamVars, readVars, downVars, conn, down, sent>>

AnswerCall ==
    /\ conn = "open" /\ serving # NoCall
    /\ \E flag \in {"reply", "fail"} : Reply(Message(serving, flag, 0))
    /\ serving' = NoCall
    /\ UNCHANGED <<callVars, entries, streamVars, readVars, downVars, conn, up, handlers, sent>>

SendFrame(c) ==
    /\ conn = "open" /\ c \in handlers /\ sent[c] < MaxFrames
    /\ sent' = [sent EXCEPT ![c] = @ + 1]
    /\ Reply(Message(c, "data", sent[c] + 1))
    /\ UNCHANGED <<callVars, entries, streamVars, readVars, downVars, conn, up, serving, handlers>>

HandlerReturns(c) ==
    /\ conn = "open" /\ c \in handlers
    /\ handlers' = handlers \ {c}
    /\ \E flag \in {"end", "error"} : Reply(Message(c, flag, 0))
    /\ UNCHANGED <<callVars, entries, streamVars, readVars, downVars, conn, up, serving, sent>>

(* The server closes the connection or the network loses it, with what had *)
(* not arrived.                                                            *)
Break ==
    /\ conn = "open"
    /\ conn' = "broken"
    /\ up' = <<>>
    /\ \E k \in 0 .. Len(down) : down' = SubSeq(down, 1, k)
    /\ UNCHANGED <<callVars, entries, streamVars, readVars, downVars, serverVars>>

-----------------------------------------------------------------------------
Send(c) == Begin(c) \/ StoreEntry(c) \/ Recheck(c) \/ Write(c) \/ WriteFails(c)

ReadLoop == Dispatch \/ Deliver \/ Push \/ EndStream \/ ReadFails

Sweep == CloseConn \/ (\E c \in Calls : Resolve(c)) \/ DeleteEntry \/ RangeEnds

Other ==
    \/ Reject \/ Serve \/ AnswerCall \/ Break
    \/ \E c \in Streams : SendFrame(c) \/ HandlerReturns(c)

Next ==
    \/ \E c \in Calls : Send(c)
    \/ \E c \in Unary : Expire(c)
    \/ \E c \in Streams : Recv(c) \/ RecvBlocked(c) \/ CancelStream(c)
    \/ ReadLoop \/ Close \/ Sweep \/ Other

Spec == Init /\ [][Next]_vars

(* The reader and the shutdown go on while they can. Nobody need call,     *)
(* read a stream or answer, nor a timeout fire.                            *)
FairSpec == Spec /\ WF_vars(ReadLoop) /\ WF_vars(Sweep)

-----------------------------------------------------------------------------
(* Type correctness; a stream buffers no more than its channel holds.      *)
TypeOK ==
    /\ pc \in [Calls -> PCs]
    /\ out \in [Calls -> Outcomes]
    /\ entries \subseteq Calls
    /\ buf \in [Streams -> Seq(0 .. MaxFrames)]
    /\ \A c \in Streams : Len(buf[c]) <= BufferSize
    /\ term \in [Streams -> {"none", "eof", "error"}]
    /\ ctxDone \in [Streams -> BOOLEAN]
    /\ got \in [Streams -> Seq(0 .. MaxFrames)]
    /\ rpc \in Readers
    /\ hand \in Messages \cup {NoMessage}
    /\ closed \in BOOLEAN
    /\ sd \in Stages
    /\ due \subseteq Calls
    /\ cur \in Calls \cup {NoCall}
    /\ conn \in {"open", "broken", "closed"}
    /\ up \in Seq(Calls)
    /\ down \in Seq(Messages)
    /\ serving \in Unary \cup {NoCall}
    /\ handlers \subseteq Streams
    /\ sent \in [Streams -> 0 .. MaxFrames]

Unresolved(c) ==
    \/ pc[c] = "waiting" /\ out[c] = "open"
    \/ pc[c] \in {"recv", "blocked"} /\ term[c] = "none"

(* Whoever waits can be found: a future or stream that was handed to its   *)
(* caller and has no result is among the entries, or in the reader's       *)
(* hands; and after a shutdown it is not among the entries any more (the   *)
(* store, the second look at closed and the two sweeps of tcp_client.go).  *)
NoCallLost ==
    \A c \in Calls : Unresolved(c) =>
        \/ c \in entries /\ sd # "over"
        \/ hand.id = c /\ rpc \in {"deliver", "terminate"}

(* A stream that was not cancelled delivers what the server sent from the  *)
(* first frame on, in order and without a gap, unless it ends with an      *)
(* error; and all of it if it ends without one (Push, terminate and Recv   *)
(* of stream.go: "no frame received prior to StreamEnd/StreamError is      *)
(* lost").                                                                 *)
StreamIntact ==
    \A c \in Streams :
        LET frames == got[c] \o buf[c]
        IN  term[c] # "error" /\ ~ctxDone[c] =>
                /\ \A i \in 1 .. Len(frames) : frames[i] = i
                /\ term[c] = "eof" => Len(frames) = sent[c]

(* A shutdown comes to its end, and so does the reader, although nobody    *)
(* may be reading a stream whose buffer is full (shutdown; Push waits for  *)
(* termCh too).                                                            *)
ShutdownCompletes == closed ~> (sd = "over" /\ rpc = "ended")

(* An answer that has arrived reaches its caller, unless the connection    *)
(* breaks or a full stream keeps the reader: the one thing that can, since *)
(* "End/Error never block the caller (readLoop)" (stream.go).              *)
AnswersArrive ==
    \A c \in Unary :
        (\E i \in 1 .. Len(down) : down[i].id = c)
            ~> (out[c] # "open" \/ closed \/ conn # "open" \/ rpc = "push")
=============================================================================
