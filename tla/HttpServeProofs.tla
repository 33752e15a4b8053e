-------------------------- MODULE HttpServeProofs --------------------------
(***************************************************************************)
(* Safety of a request of swifty_http and of the WebSocket it may turn     *)
(* into, for any routes, middlewares, acts of user code and frames.        *)
(***************************************************************************)
EXTENDS HttpServe, FiniteSetTheorems, NaturalsInduction, WellFoundedInduction, TLAPS

(* What the reader has collected is the message the peer is at.            *)
Collected == IF msgType THEN going /\ buf = sent /\ buf > 0 /\ got = 0 ELSE buf = 0

(* Positions above compose's index have not been entered, none twice; the  *)
(* frames on the stack are those of the first positions, in their order.   *)
Entered ==
    /\ \A i \in DOMAIN ran : ran[i] <= (IF i <= index THEN 1 ELSE 0)
    /\ \A k \in DOMAIN stack : stack[k].at = k /\ k <= index
    /\ \A k \in DOMAIN stack : stack[k].at \in DOMAIN chain

(* respond writes only what nobody has taken over.                         *)
Written ==
    /\ phase = "new" => chain = <<>>
    /\ ctx.flushed <=> taken > 0
    /\ taken = 0 => Len(wrote) = IF phase = "answered" THEN 1 ELSE 0
    /\ taken > 0 => \/ Len(wrote) = taken
                    \/ Len(wrote) = taken - 1 /\ use = "none" /\ sock = "shut"

(* A body set by a setter has a status; Logger is the last to run, and     *)
(* behind Recovery only Logger does.                                       *)
Statuses ==
    /\ phase = "new" => logged = 0 /\ ~recovered
    /\ ~direct /\ ctx.body # "none" => ctx.set \/ ctx.status # 404
    /\ phase = "running" /\ logged # 0 => stack = <<>> /\ panic = "none" /\ logged = ctx.status
    /\ phase = "running" /\ recovered =>
          /\ ctx.status = 500 /\ ctx.set /\ ctx.body = "whole"
          /\ stack # <<>> => Len(stack) = 1 /\ chain[stack[1].at] = "logger" /\ index >= 2

(* The chain is as AsDefault has it.                                       *)
InOrder ==
    \A i \in DOMAIN chain :
        /\ chain[i] = "logger" => i = 1
        /\ chain[i] = "recovery" => i = 1 \/ (i = 2 /\ chain[1] = "logger")

-----------------------------------------------------------------------------
(* The WebSocket                                                           *)

WsInv == WsTypeOK /\ Collected /\ DeliveredWhole

WsActs ==
    \/ Read \/ ReadFails \/ Writer \/ Tick \/ Hears
    \/ HeartbeatEnds \/ CloseWithMessage \/ CloseConn \/ PeerGoes

(* The peer's message, with one frame more.                                *)
LEMMA SendsFrame ==
    ASSUME WsTypeOK, NEW f, Sends(f)
    PROVE  /\ frames' \in 0 .. MaxFrames /\ sent' \in Nat /\ going' \in BOOLEAN
           /\ f = "text" => sent' = 1 /\ going' = FALSE
           /\ f = "first" => sent' = 1 /\ going' = TRUE
           /\ f = "next" => sent' = sent + 1 /\ going' = going
           /\ f = "last" => sent' = sent + 1 /\ going' = FALSE
<1>1. frames' \in 0 .. MaxFrames
  BY WsAssumption DEF WsTypeOK, Sends
<1>2. CASE f \in {"text", "first", "next", "last"}
  <2>1. CASE f = "text"
    BY <1>1, <2>1 DEF WsTypeOK, Sends
  <2>2. CASE f = "first"
    BY <1>1, <2>2 DEF WsTypeOK, Sends
  <2>3. CASE f = "next"
    BY <1>1, <2>3 DEF WsTypeOK, Sends
  <2>4. CASE f = "last"
    BY <1>1, <2>4 DEF WsTypeOK, Sends
  <2>. QED BY <1>2, <2>1, <2>2, <2>3, <2>4
<1>3. CASE f \notin {"text", "first", "next", "last"}
  <2>1. sent' = sent /\ going' = going
    BY <1>3 DEF Sends
  <2>. QED BY <1>1, <1>3, <2>1 DEF WsTypeOK
<1>. QED BY <1>2, <1>3

(* A frame is refused or is not data: nothing is in the reader's hands.    *)
LEMMA NothingHeld ==
    ASSUME WsInv, msgType' = FALSE, buf' = 0, got' = 0,
           frames' \in 0 .. MaxFrames, sent' \in Nat, going' \in BOOLEAN,
           closed' \in BOOLEAN, reader' \in {"read", "ended"}, UNCHANGED <<userVars, sock>>
    PROVE  WsInv'
<1>1. 0 \in 0 .. Limit /\ reader' \in {"off", "read", "ended"}
  BY WsAssumption
<1>2. use' = use /\ writer' = writer /\ hb' = hb /\ stop' = stop /\ other' = other /\ sock' = sock
  BY DEF userVars
<1>3. WsTypeOK'
  BY <1>1, <1>2 DEF WsInv, WsTypeOK
<1>. QED BY <1>3 DEF WsInv, Collected, DeliveredWhole

(* A message is complete.                                                  *)
LEMMA WholeDelivered ==
    ASSUME WsInv, NEW n \in 1 .. Limit, Deliver(n), sent' = n, going' = FALSE,
           frames' \in 0 .. MaxFrames, UNCHANGED <<userVars, sock>>
    PROVE  WsInv'
<1>1. /\ msgType' = FALSE /\ buf' = 0 /\ got' = n /\ closed' = closed
      /\ reader' \in {"read", "ended"}
  BY DEF Deliver, Returns
<1>2. use' = use /\ writer' = writer /\ hb' = hb /\ stop' = stop /\ other' = other /\ sock' = sock
  BY DEF userVars
<1>3. 0 \in 0 .. Limit /\ n \in 0 .. Limit /\ n \in Nat
  BY WsAssumption
<1>4. WsTypeOK'
  <2>1. /\ reader' \in {"off", "read", "ended"} /\ closed' \in BOOLEAN /\ msgType' \in BOOLEAN
        /\ buf' \in 0 .. Limit /\ got' \in 0 .. Limit
    BY <1>1, <1>3 DEF WsInv, WsTypeOK
  <2>2. frames' \in 0 .. MaxFrames /\ sent' \in Nat /\ going' \in BOOLEAN
    BY <1>3
  <2>. QED BY <1>2, <2>1, <2>2 DEF WsInv, WsTypeOK
<1>. QED BY <1>1, <1>3, <1>4 DEF WsInv, Collected, DeliveredWhole

(* A message has begun or goes on.                                         *)
LEMMA PartCollected ==
    ASSUME WsInv, NEW n \in 1 .. Limit, Collects(n), sent' = n, going' = TRUE,
           frames' \in 0 .. MaxFrames, UNCHANGED <<userVars, sock>>
    PROVE  WsInv'
<1>1. msgType' = TRUE /\ buf' = n /\ got' = 0 /\ closed' = closed /\ reader' = reader
  BY DEF Collects
<1>2. WsTypeOK'
  BY <1>1, WsAssumption DEF WsInv, WsTypeOK, userVars
<1>. QED BY <1>1, <1>2 DEF WsInv, Collected, DeliveredWhole

LEMMA ReadKeeps ==
    ASSUME WsInv, Read
    PROVE  WsInv'
<1>. USE DEF Returns, Refuse, handleError
<1>1. ASSUME NEW f, Sends(f) PROVE frames' \in 0 .. MaxFrames /\ sent' \in Nat /\ going' \in BOOLEAN
  BY <1>1, SendsFrame, Zenon DEF WsInv
<1>2. closed \in BOOLEAN /\ buf \in Nat /\ msgType \in BOOLEAN
  BY DEF WsInv, WsTypeOK
<1>3. CASE Control
  <2>1. Sends("control") BY <1>3 DEF Control
  <2>2. frames' \in 0 .. MaxFrames /\ sent' \in Nat /\ going' \in BOOLEAN BY <1>1, <2>1
  <2>. QED BY <1>2, <1>3, <2>2, NothingHeld DEF Control
<1>4. CASE CloseFrame
  <2>1. Sends("close") BY <1>4 DEF CloseFrame
  <2>2. frames' \in 0 .. MaxFrames /\ sent' \in Nat /\ going' \in BOOLEAN BY <1>1, <2>1
  <2>. QED BY <1>4, <2>2, NothingHeld DEF CloseFrame
<1>5. CASE BadFrame
  <2>1. Sends("bad") BY <1>5 DEF BadFrame
  <2>2. frames' \in 0 .. MaxFrames /\ sent' \in Nat /\ going' \in BOOLEAN BY <1>1, <2>1
  <2>. QED BY <1>5, <2>2, NothingHeld DEF BadFrame
<1>6. ASSUME NEW f \in {"text", "first", "next", "last"}, DataFrame(f) PROVE WsInv'
  <2>1. Sends(f) /\ f \in {"text", "first"} BY <1>6 DEF DataFrame
  <2>2. frames' \in 0 .. MaxFrames /\ sent' \in Nat /\ going' \in BOOLEAN BY <1>1, <2>1
  <2>3. sent' = 1 /\ going' = (f = "first")
    BY <2>1, SendsFrame DEF WsInv
  <2>4. CASE msgType
    BY <1>6, <2>2, <2>4, NothingHeld DEF DataFrame
  <2>. 1 \in 1 .. Limit BY WsAssumption
  <2>5. CASE ~msgType /\ f = "text"
    <3>1. Deliver(1) /\ going' = FALSE /\ UNCHANGED <<userVars, sock>>
      BY <1>6, <2>3, <2>5 DEF DataFrame
    <3>. QED BY <2>2, <2>3, <3>1, WholeDelivered
  <2>6. CASE ~msgType /\ f = "first"
    <3>1. Collects(1) /\ going' = TRUE /\ UNCHANGED <<userVars, sock>>
      BY <1>6, <2>3, <2>6 DEF DataFrame
    <3>. QED BY <2>2, <2>3, <3>1, PartCollected
  <2>. QED BY <1>2, <2>1, <2>4, <2>5, <2>6
<1>7. ASSUME NEW f \in {"text", "first", "next", "last"}, Continuation(f) PROVE WsInv'
  <2>1. Sends(f) /\ f \in {"next", "last"} BY <1>7 DEF Continuation
  <2>2. frames' \in 0 .. MaxFrames /\ sent' \in Nat /\ going' \in BOOLEAN BY <1>1, <2>1
  <2>3. sent' = sent + 1 /\ (f = "last" => going' = FALSE) /\ (f = "next" => going' = going)
    BY <2>1, SendsFrame DEF WsInv
  <2>4. CASE ~msgType \/ buf + 1 > Limit
    BY <1>7, <2>2, <2>4, NothingHeld DEF Continuation
  <2>5. CASE msgType /\ ~(buf + 1 > Limit)
    <3>1. buf + 1 \in 1 .. Limit /\ sent' = buf + 1 /\ going
      BY <1>2, <2>3, <2>5, WsAssumption DEF WsInv, Collected
    <3>2. going = TRUE
      BY <3>1 DEF WsInv, WsTypeOK
    <3>3. CASE f = "last"
      BY <1>7, <2>2, <2>3, <2>5, <3>1, <3>3, WholeDelivered DEF Continuation
    <3>4. CASE f = "next"
      BY <1>7, <2>2, <2>3, <2>5, <3>1, <3>2, <3>4, PartCollected DEF Continuation
    <3>. QED BY <2>1, <3>3, <3>4
  <2>. QED BY <1>2, <2>4, <2>5
<1>. QED BY <1>3, <1>4, <1>5, <1>6, <1>7 DEF Read

(* The others leave alone what the reader has in its hands.                *)
LEMMA OthersKeep ==
    ASSUME WsInv, Writer \/ Tick \/ Hears \/ HeartbeatEnds \/ CloseWithMessage \/ CloseConn \/ PeerGoes
    PROVE  WsInv'
<1>1. UNCHANGED <<readVars, peerVars>>
  BY DEF Writer, WriteJSON, Tick, Hears, StopHeartbeat, Joins, Close, WriterGoes,
         HeartbeatEnds, CloseWithMessage, CloseConn, PeerGoes, readVars, peerVars
<1>2. WsTypeOK'
  <2>1. CASE Writer \/ Tick \/ Hears
    BY <1>1, <2>1
    DEF WsInv, WsTypeOK, Writer, WriteJSON, Tick, Hears, StopHeartbeat, Joins, Close, WriterGoes,
        Quiet, readVars, peerVars
  <2>2. CASE HeartbeatEnds \/ CloseWithMessage \/ CloseConn \/ PeerGoes
    BY <1>1, <2>2
    DEF WsInv, WsTypeOK, HeartbeatEnds, CloseWithMessage, CloseConn, PeerGoes,
        readVars, peerVars, userVars
  <2>. QED BY <2>1, <2>2
<1>. QED BY <1>1, <1>2 DEF WsInv, Collected, DeliveredWhole, readVars, peerVars

LEMMA WsStep ==
    ASSUME WsInv, WsActs
    PROVE  WsInv'
<1>1. CASE ReadFails
  <2>1. /\ msgType' = FALSE /\ buf' = 0 /\ got' = 0 /\ closed' = TRUE /\ reader' = "ended"
        /\ UNCHANGED <<userVars, sock>> /\ UNCHANGED <<frames, sent, going>>
    BY <1>1 DEF ReadFails, Returns, handleError, peerVars
  <2>. QED BY <2>1, NothingHeld DEF WsInv, WsTypeOK
<1>. QED BY <1>1, ReadKeeps, OthersKeep DEF WsActs

(* Serve begins with nothing in the reader's hands.                        *)
LEMMA ServeKeeps ==
    ASSUME WsInv, NEW how \in {"dashboard", "listen"}, Serve(how)
    PROVE  WsInv'
BY DEF WsInv, WsTypeOK, Collected, DeliveredWhole, Serve, peerVars

LEMMA WsStays ==
    ASSUME WsInv, UNCHANGED wsVars
    PROVE  WsInv'
BY DEF WsInv, WsTypeOK, Collected, DeliveredWhole, wsVars, userVars, readVars, peerVars

(* A step of the WebSocket hands it to nobody, and opens nothing again.    *)
LEMMA WsSockets ==
    ASSUME WsActs
    PROVE  use' = use /\ (sock = "shut" => sock' = "shut")
BY DEF WsActs, Read, Control, CloseFrame, BadFrame, DataFrame, Continuation, ReadFails,
       Writer, WriteJSON, Tick, Hears, StopHeartbeat, Joins, Close, WriterGoes, Quiet,
       HeartbeatEnds, CloseWithMessage, CloseConn, PeerGoes, userVars

-----------------------------------------------------------------------------
(* The request                                                             *)

IInv == TypeOK /\ WsInv /\ Entered /\ Written

LEMMA PushOne ==
    ASSUME NEW s \in Seq(Frames), NEW i \in Nat \ {0}
    PROVE  /\ Push(s, i) \in Seq(Frames) /\ Len(Push(s, i)) = Len(s) + 1
           /\ Push(s, i)[Len(s) + 1].at = i
           /\ \A k \in 1 .. Len(s) : Push(s, i)[k] = s[k]
BY DEF Push, Frames

LEMMA FrameReplaced ==
    ASSUME NEW s \in Seq(Frames), NEW k \in DOMAIN s, NEW e \in Frames
    PROVE  /\ [s EXCEPT ![k] = e] \in Seq(Frames) /\ Len([s EXCEPT ![k] = e]) = Len(s)
           /\ \A j \in DOMAIN s : [s EXCEPT ![k] = e][j] = IF j = k THEN e ELSE s[j]
OBVIOUS

LEMMA CalledAgain ==
    ASSUME NEW s \in Seq(Frames), NEW k \in DOMAIN s
    PROVE  /\ [s EXCEPT ![k].called = @ + 1] \in Seq(Frames)
           /\ Len([s EXCEPT ![k].called = @ + 1]) = Len(s)
           /\ \A j \in DOMAIN s : [s EXCEPT ![k].called = @ + 1][j].at = s[j].at
<1>. DEFINE e == [s[k] EXCEPT !.called = @ + 1]
<1>1. s[k] \in Frames
  OBVIOUS
<1>2. e \in Frames /\ e.at = s[k].at
  <2>1. s[k].at \in Nat \ {0} /\ s[k].called + 1 \in Nat
    BY <1>1 DEF Frames
  <2>2. e = [at |-> s[k].at, called |-> s[k].called + 1]
    BY <1>1 DEF Frames
  <2>. HIDE DEF e
  <2>. QED BY <2>1, <2>2 DEF Frames
<1>3. [s EXCEPT ![k].called = @ + 1] = [s EXCEPT ![k] = e]
  OBVIOUS
<1>. HIDE DEF e
<1>. QED BY <1>2, <1>3, FrameReplaced

LEMMA FrontOfStack ==
    ASSUME NEW s \in Seq(Frames), s # <<>>
    PROVE  /\ Front(s) \in Seq(Frames) /\ Len(Front(s)) = Len(s) - 1
           /\ \A k \in 1 .. Len(s) - 1 : Front(s)[k] = s[k]
           /\ Len(s) \in DOMAIN s /\ Last(s) = s[Len(s)] /\ Last(s) \in Frames
<1>1. Len(s) \in Nat \ {0} /\ Len(s) \in DOMAIN s
  OBVIOUS
<1>2. \A k \in 1 .. Len(s) - 1 : s[k] \in Frames
  OBVIOUS
<1>3. Front(s) = [k \in 1 .. Len(s) - 1 |-> s[k]]
  BY DEF Front
<1>4. Front(s) \in [1 .. Len(s) - 1 -> Frames] /\ Len(s) - 1 \in Nat
  BY <1>1, <1>2, <1>3
<1>5. Front(s) \in Seq(Frames) /\ Len(Front(s)) = Len(s) - 1
  BY <1>4
<1>6. \A k \in 1 .. Len(s) - 1 : Front(s)[k] = s[k]
  BY <1>3
<1>7. Last(s) = s[Len(s)] /\ Last(s) \in Frames
  BY <1>1 DEF Last
<1>. QED BY <1>1, <1>5, <1>6, <1>7

(* The setters, and the context as they leave it.                          *)
StatusSet(c, st) == [c EXCEPT !.status = st, !.set = TRUE]
BodySet(c, b) == [c EXCEPT !.body = b]
AnswerSet(c, st, b) == [c EXCEPT !.status = st, !.set = TRUE, !.body = b]

LEMMA StatusSetContext ==
    ASSUME NEW c \in Contexts, NEW st \in Nat
    PROVE  /\ StatusSet(c, st) \in Contexts /\ StatusSet(c, st).flushed = c.flushed
           /\ StatusSet(c, st).set /\ StatusSet(c, st).body = c.body
BY DEF Contexts, StatusSet

LEMMA BodySetContext ==
    ASSUME NEW c \in Contexts, NEW b \in Bodies
    PROVE  /\ BodySet(c, b) \in Contexts /\ BodySet(c, b).flushed = c.flushed
           /\ BodySet(c, b).body = b
           /\ BodySet(c, b).set = c.set /\ BodySet(c, b).status = c.status
BY DEF Contexts, BodySet

LEMMA AnswerSetContext ==
    ASSUME NEW c \in Contexts, NEW st \in Nat, NEW b \in Bodies
    PROVE  /\ AnswerSet(c, st, b) \in Contexts /\ AnswerSet(c, st, b).flushed = c.flushed
           /\ AnswerSet(c, st, b).set /\ AnswerSet(c, st, b).status = st
           /\ AnswerSet(c, st, b).body = b
BY DEF Contexts, AnswerSet

LEMMA PromotedContext ==
    ASSUME NEW c \in Contexts
    PROVE  /\ Promoted(c) \in Contexts
           /\ Promoted(c).flushed = c.flushed /\ Promoted(c).body = c.body
           /\ Promoted(c).set = c.set
           /\ Promoted(c).set \/ Promoted(c).status # 404
           /\ c.set \/ c.status # 404 => Promoted(c) = c
           /\ c.status # 404 => Promoted(c) = c
BY DEF Promoted, Contexts

(* The frame on top.                                                       *)
LEMMA TopFrame ==
    ASSUME IInv, stack # <<>>
    PROVE  /\ top = stack[Len(stack)] /\ top \in Frames
           /\ Len(stack) \in DOMAIN stack /\ Len(stack) \in Nat \ {0}
           /\ top.at \in DOMAIN chain /\ Len(stack) = top.at /\ top.at <= index
<1>1. stack \in Seq(Frames)
  BY DEF IInv, TypeOK
<1>2. top = stack[Len(stack)] /\ top \in Frames /\ Len(stack) \in DOMAIN stack
  BY <1>1, FrontOfStack DEF top
<1>3. Len(stack) \in Nat \ {0}
  BY <1>1
<1>. QED BY <1>2, <1>3 DEF IInv, Entered

(* A step that writes nothing and enters no position.                      *)
LEMMA NothingWritten ==
    ASSUME IInv, UNCHANGED <<chain, index, ran, wrote, taken, wsVars>>,
           stack' \in Seq(Frames),
           \A k \in DOMAIN stack' : k \in DOMAIN stack /\ stack'[k].at = stack[k].at,
           panic' \in {"none", "error", "abort"},
           ctx' \in Contexts, ctx'.flushed = ctx.flushed,
           acts' \in 0 .. MaxActs, direct' \in BOOLEAN,
           logged' \in Nat, recovered' \in BOOLEAN,
           phase' = phase \/ (phase = "running" /\ phase' = "aborted")
    PROVE  IInv'
<1>1. WsInv'
  BY WsStays DEF IInv
<1>2. TypeOK'
  BY <1>1 DEF IInv, TypeOK, WsInv
<1>3. Entered'
  BY DEF IInv, Entered
<1>4. use' = use /\ sock' = sock
  BY DEF wsVars, userVars
<1>5. Written'
  BY <1>4 DEF IInv, Written
<1>. QED BY <1>1, <1>2, <1>3, <1>5 DEF IInv

LEMMA ServeHTTPKeeps ==
    ASSUME IInv, NEW path \in Paths, ServeHTTP(path)
    PROVE  IInv'
<1>1. chain' = Chain(path) /\ chain' \in Seq(Kinds) /\ chain' # <<>>
  BY HttpAssumption DEF ServeHTTP
<1>2. 1 \in DOMAIN chain'
  BY <1>1
<1>3. ran' \in [DOMAIN chain' -> Nat] /\ \A i \in DOMAIN ran' : ran'[i] = IF i = 1 THEN 1 ELSE 0
  BY DEF ServeHTTP
<1>4. index' = 1 /\ phase = "new" /\ phase' = "running"
  BY DEF ServeHTTP
<1>5. /\ stack' \in Seq(Frames) /\ DOMAIN stack' = 1 .. 1 /\ stack'[1].at = 1
  <2>1. stack' = Push(<<>>, 1)
    BY DEF ServeHTTP
  <2>2. <<>> \in Seq(Frames) /\ Len(<<>>) = 0 /\ 1 \in Nat \ {0}
    OBVIOUS
  <2>3. Push(<<>>, 1) \in Seq(Frames) /\ Len(Push(<<>>, 1)) = 0 + 1 /\ Push(<<>>, 1)[0 + 1].at = 1
    <3>. DEFINE e == <<>>
    <3>1. e \in Seq(Frames) /\ Len(e) = 0
      BY <2>2
    <3>. HIDE DEF e
    <3>2. Push(e, 1) \in Seq(Frames) /\ Len(Push(e, 1)) = Len(e) + 1 /\ Push(e, 1)[Len(e) + 1].at = 1
      BY <2>2, <3>1, PushOne
    <3>. QED BY <3>1, <3>2 DEF e
  <2>. QED BY <2>1, <2>3
<1>6. UNCHANGED <<panic, ctx, acts, wrote, logged, recovered, taken, direct, wsVars>>
  BY DEF ServeHTTP, ctxVars, noteVars
<1>7. WsInv'
  BY <1>6, WsStays DEF IInv
<1>8. TypeOK'
  BY <1>1, <1>3, <1>4, <1>5, <1>6, <1>7 DEF IInv, TypeOK, WsInv
<1>9. Entered'
  <2>1. DOMAIN chain' \subseteq Nat \ {0} /\ DOMAIN ran' = DOMAIN chain'
    BY <1>1, <1>3
  <2>2. \A i \in DOMAIN ran' : ran'[i] <= (IF i <= index' THEN 1 ELSE 0)
    BY <1>3, <1>4, <2>1
  <2>3. \A k \in DOMAIN stack' : k = 1
    BY <1>5
  <2>. QED BY <1>2, <1>4, <1>5, <2>2, <2>3 DEF Entered
<1>10. use' = use /\ sock' = sock
  BY <1>6 DEF wsVars, userVars
<1>11. Written'
  BY <1>4, <1>6, <1>10 DEF IInv, Written
<1>. QED BY <1>7, <1>8, <1>9, <1>11 DEF IInv

(* dispatch enters the position above the index, or panics.                *)
LEMMA CallNextKeeps ==
    ASSUME IInv, CallNext
    PROVE  IInv'
<1>. DEFINE i == top.at + 1
            s == [stack EXCEPT ![Len(stack)].called = @ + 1]
<1>1. /\ stack \in Seq(Frames) /\ index \in Nat /\ chain \in Seq(Kinds)
      /\ ran \in [DOMAIN chain -> Nat] /\ stack # <<>> /\ phase = "running"
  BY DEF IInv, TypeOK, CallNext, Runs
<1>2. /\ top = stack[Len(stack)] /\ top \in Frames /\ Len(stack) \in Nat \ {0}
      /\ top.at \in DOMAIN chain /\ Len(stack) = top.at /\ top.at <= index
      /\ Len(stack) \in DOMAIN stack
  BY <1>1, TopFrame
<1>3. top.at # Len(chain) /\ Dispatch(s, i)
  BY DEF CallNext, IsHandler
<1>4. top.at \in Nat \ {0} /\ i \in Nat \ {0} /\ i \in DOMAIN chain /\ Len(stack) + 1 = i
  <2>1. top.at \in Nat \ {0} /\ DOMAIN chain = 1 .. Len(chain) /\ Len(chain) \in Nat
    BY <1>1, <1>2 DEF Frames
  <2>. QED BY <1>2, <1>3, <2>1
<1>5. /\ s \in Seq(Frames) /\ Len(s) = Len(stack)
      /\ \A k \in DOMAIN stack : s[k].at = stack[k].at
  BY <1>1, <1>2, CalledAgain
<1>6. UNCHANGED <<chain, ctx, acts, wrote, logged, recovered, taken, direct, phase, wsVars>>
  BY DEF CallNext, ctxVars, noteVars
<1>. HIDE DEF i, s
<1>7. WsInv'
  BY <1>6, WsStays DEF IInv
<1>8. use' = use /\ sock' = sock
  BY <1>6 DEF wsVars, userVars
<1>9. Written'
  BY <1>6, <1>8 DEF IInv, Written
<1>10. CASE i <= index
  <2>1. panic' = "error" /\ stack' = s /\ index' = index /\ ran' = ran
    BY <1>3, <1>10 DEF Dispatch
  <2>2. TypeOK'
    BY <1>5, <1>6, <1>7, <2>1 DEF IInv, TypeOK, WsInv
  <2>3. DOMAIN stack' = DOMAIN stack /\ \A k \in DOMAIN stack : stack'[k].at = stack[k].at
    BY <1>1, <1>5, <2>1
  <2>4. Entered'
    BY <1>6, <2>1, <2>3 DEF IInv, Entered
  <2>. QED BY <1>7, <1>9, <2>2, <2>4 DEF IInv
<1>11. CASE ~(i <= index)
  <2>1. /\ panic' = panic /\ stack' = Push(s, i) /\ index' = i
        /\ ran' = [ran EXCEPT ![i] = @ + 1]
    BY <1>3, <1>11 DEF Dispatch
  <2>2. /\ stack' \in Seq(Frames) /\ Len(stack') = Len(stack) + 1 /\ stack'[Len(stack) + 1].at = i
        /\ \A k \in 1 .. Len(stack) : stack'[k].at = stack[k].at
    <3>1. /\ Push(s, i) \in Seq(Frames) /\ Len(Push(s, i)) = Len(s) + 1
          /\ Push(s, i)[Len(s) + 1].at = i
          /\ \A k \in 1 .. Len(s) : Push(s, i)[k] = s[k]
      BY <1>4, <1>5, PushOne
    <3>2. DOMAIN stack = 1 .. Len(stack)
      BY <1>1
    <3>. QED BY <1>5, <2>1, <3>1, <3>2
  <2>3. ran' \in [DOMAIN chain -> Nat]
    <3>1. ran[i] + 1 \in Nat
      BY <1>1, <1>4
    <3>. QED BY <1>1, <2>1, <3>1
  <2>4. TypeOK'
    BY <1>4, <1>6, <1>7, <2>1, <2>2, <2>3 DEF IInv, TypeOK, WsInv
  <2>5. \A j \in DOMAIN ran' : ran'[j] <= (IF j <= index' THEN 1 ELSE 0)
    <3>1. DOMAIN ran \subseteq Nat /\ DOMAIN ran' = DOMAIN ran
      <4>1. DOMAIN ran = DOMAIN chain /\ DOMAIN chain = 1 .. Len(chain)
        BY <1>1
      <4>. QED BY <2>1, <4>1
    <3>2. \A j \in DOMAIN ran : ran[j] \in Nat /\ ran[j] <= (IF j <= index THEN 1 ELSE 0)
      BY <1>1 DEF IInv, Entered
    <3>3. \A j \in DOMAIN ran : ran'[j] = IF j = i THEN ran[j] + 1 ELSE ran[j]
      BY <1>1, <2>1
    <3>. QED BY <1>1, <1>4, <1>11, <2>1, <3>1, <3>2, <3>3
  <2>6. \A k \in DOMAIN stack' : stack'[k].at = k /\ k <= index'
                                 /\ stack'[k].at \in DOMAIN chain
    <3>1. SUFFICES ASSUME NEW k \in DOMAIN stack'
                   PROVE  stack'[k].at = k /\ k <= index' /\ stack'[k].at \in DOMAIN chain
      OBVIOUS
    <3>2. CASE k = Len(stack) + 1
      BY <1>2, <1>4, <2>1, <2>2, <3>2
    <3>3. CASE k \in 1 .. Len(stack)
      <4>1. k \in DOMAIN stack /\ stack[k] \in Frames
        BY <1>1, <3>3
      <4>2. stack[k].at = k /\ k <= index /\ stack[k].at \in DOMAIN chain
        BY <4>1 DEF IInv, Entered
      <4>3. stack[k].at \in Nat
        BY <4>1 DEF Frames
      <4>. QED BY <1>1, <1>4, <1>11, <2>1, <2>2, <3>3, <4>2, <4>3
    <3>. QED BY <1>2, <2>2, <3>2, <3>3
  <2>7. Entered'
    BY <1>6, <2>5, <2>6 DEF Entered
  <2>. QED BY <1>7, <1>9, <2>4, <2>7 DEF IInv
<1>. QED BY <1>10, <1>11

LEMMA ReturnsKeep ==
    ASSUME IInv, HandlerReturns
    PROVE  IInv'
<1>1. stack \in Seq(Frames) /\ stack # <<>>
  BY DEF IInv, TypeOK, HandlerReturns, Runs
<1>2. /\ stack' \in Seq(Frames)
      /\ \A k \in DOMAIN stack' : k \in DOMAIN stack /\ stack'[k] = stack[k]
  <2>1. /\ stack' \in Seq(Frames) /\ Len(stack') = Len(stack) - 1
        /\ \A k \in 1 .. Len(stack) - 1 : stack'[k] = stack[k]
    BY <1>1, FrontOfStack DEF HandlerReturns
  <2>. QED BY <1>1, <2>1
<1>3. logged' \in Nat
  BY DEF IInv, TypeOK, HandlerReturns, Contexts
<1>4. /\ UNCHANGED <<chain, index, ran, panic, ctx, acts, wrote, recovered, taken, direct>>
      /\ UNCHANGED <<phase, wsVars>>
  BY DEF HandlerReturns, ctxVars
<1>. QED BY <1>2, <1>3, <1>4, NothingWritten DEF IInv, TypeOK

(* A setter leaves a context, flushed or not as before; a body that is     *)
(* there has a status, if it had one.                                      *)
LEMMA SetsContext ==
    ASSUME ctx \in Contexts, Sets
    PROVE  /\ ctx' \in Contexts /\ ctx'.flushed = ctx.flushed
           /\ ctx'.set \/ ctx'.status # 404
<1>. DEFINE kept == IF ctx.body = "none" THEN "whole" ELSE ctx.body
            redirect == IF ctx.status \in Redirects THEN ctx.status ELSE 302
<1>1. \/ \E b \in {"whole", "broken"} : ctx' = Promoted(BodySet(ctx, b))
      \/ \E s \in {204, 404} : ctx' = StatusSet(ctx, s)
      \/ ctx' = AnswerSet(ctx, 500, "whole")
      \/ ctx' = AnswerSet(ctx, redirect, kept)
  BY DEF Sets, Body, BodySet, StatusSet, AnswerSet, Contexts
<1>2. kept \in Bodies /\ "whole" \in Bodies /\ "broken" \in Bodies /\ redirect \in Nat
  BY DEF Contexts, Bodies
<1>. HIDE DEF kept, redirect
<1>3. ASSUME NEW b \in {"whole", "broken"}, ctx' = Promoted(BodySet(ctx, b))
      PROVE  /\ ctx' \in Contexts /\ ctx'.flushed = ctx.flushed
             /\ ctx'.set \/ ctx'.status # 404
  <2>1. b \in Bodies
    BY <1>2
  <2>2. BodySet(ctx, b) \in Contexts /\ BodySet(ctx, b).flushed = ctx.flushed
    BY <2>1, BodySetContext
  <2>. QED BY <1>3, <2>2, PromotedContext
<1>4. ASSUME NEW s \in {204, 404}, ctx' = StatusSet(ctx, s)
      PROVE  ctx' \in Contexts /\ ctx'.flushed = ctx.flushed /\ ctx'.set
  <2>1. s \in Nat
    OBVIOUS
  <2>. QED BY <1>4, <2>1, StatusSetContext
<1>5. ASSUME NEW n \in Nat, NEW b \in Bodies, ctx' = AnswerSet(ctx, n, b)
      PROVE  ctx' \in Contexts /\ ctx'.flushed = ctx.flushed /\ ctx'.set
  BY <1>5, AnswerSetContext
<1>6. 500 \in Nat
  OBVIOUS
<1>7. CASE ctx' = AnswerSet(ctx, 500, "whole") \/ ctx' = AnswerSet(ctx, redirect, kept)
  BY <1>2, <1>5, <1>6, <1>7
<1>. QED BY <1>1, <1>3, <1>4, <1>7

(* So does an assignment; it shows if it may have taken the status away.   *)
LEMMA AssignsContext ==
    ASSUME ctx \in Contexts, direct \in BOOLEAN, Assigns
    PROVE  /\ ctx' \in Contexts /\ ctx'.flushed = ctx.flushed /\ direct' \in BOOLEAN
           /\ ~direct' => ~direct /\ ctx'.status = 301
<1>1. CASE \E s \in {301, 404} : ctx' = [ctx EXCEPT !.status = s] /\ direct' = (direct \/ s = 404)
  <2>1. PICK s \in {301, 404} : ctx' = [ctx EXCEPT !.status = s] /\ direct' = (direct \/ s = 404)
    BY <1>1, Zenon
  <2>2. ctx' \in Contexts /\ ctx'.flushed = ctx.flushed /\ ctx'.status = s
    BY <2>1 DEF Contexts
  <2>3. CASE s = 404
    <3>1. direct' = TRUE
      BY <2>1, <2>3
    <3>. QED BY <2>2, <3>1
  <2>4. CASE s = 301
    <3>1. direct' = direct
      BY <2>1, <2>4
    <3>. QED BY <2>2, <2>4, <3>1
  <2>. QED BY <2>3, <2>4
<1>2. CASE \E b \in Bodies : ctx' = BodySet(ctx, b) /\ direct' = TRUE
  <2>1. PICK b \in Bodies : ctx' = BodySet(ctx, b) /\ direct' = TRUE
    BY <1>2, Zenon
  <2>. QED BY <2>1, BodySetContext
<1>3. \/ \E s \in {301, 404} : ctx' = [ctx EXCEPT !.status = s] /\ direct' = (direct \/ s = 404)
      \/ \E b \in Bodies : ctx' = BodySet(ctx, b) /\ direct' = TRUE
  BY Zenon DEF Assigns, BodySet
<1>. QED BY <1>1, <1>2, <1>3, Zenon

LEMMA ActsSet ==
    ASSUME ctx \in Contexts, direct \in BOOLEAN, Acts
    PROVE  /\ ctx' \in Contexts /\ ctx'.flushed = ctx.flushed /\ direct' \in BOOLEAN
           /\ ~direct' => ctx'.set \/ ctx'.status # 404
BY SetsContext, AssignsContext DEF Acts

LEMMA ActsKeep ==
    ASSUME IInv, Acts
    PROVE  IInv'
<1>1. ctx \in Contexts /\ direct \in BOOLEAN /\ MaxActs \in Nat /\ acts \in Nat
  BY HttpAssumption DEF IInv, TypeOK
<1>2. ctx' \in Contexts /\ ctx'.flushed = ctx.flushed /\ direct' \in BOOLEAN
  BY <1>1, ActsSet
<1>3. acts' = acts + 1 /\ acts < MaxActs
  BY DEF Acts, UserCode
<1>4. UNCHANGED <<chain, stack, index, ran, panic, wrote, logged, recovered, taken, phase, wsVars>>
  BY DEF Acts, Same, chainVars
<1>5. acts' \in 0 .. MaxActs
  BY <1>1, <1>3
<1>. QED BY <1>2, <1>4, <1>5, NothingWritten DEF IInv, TypeOK

LEMMA PanicsKeep ==
    ASSUME IInv, Panics
    PROVE  IInv'
<1>1. MaxActs \in Nat /\ acts \in Nat
  BY HttpAssumption DEF IInv, TypeOK
<1>2. acts' = acts + 1 /\ acts < MaxActs /\ panic' \in {"error", "abort"}
  BY DEF Panics, UserCode
<1>3. /\ UNCHANGED <<chain, stack, index, ran, ctx, wrote, logged, recovered, taken, direct>>
      /\ UNCHANGED <<phase, wsVars>>
  BY DEF Panics, Same, chainVars
<1>4. acts' \in 0 .. MaxActs
  BY <1>1, <1>2
<1>. QED BY <1>2, <1>3, <1>4, NothingWritten DEF IInv, TypeOK

LEMMA SaysNotFoundKeeps ==
    ASSUME IInv, SaysNotFound
    PROVE  IInv'
<1>1. ctx' \in Contexts /\ ctx'.flushed = ctx.flushed
  <2>1. ctx' = AnswerSet(ctx, 404, "whole") /\ ctx \in Contexts /\ "whole" \in Bodies
    BY DEF IInv, TypeOK, SaysNotFound, AnswerSet, Bodies
  <2>. QED BY <2>1, AnswerSetContext
<1>2. /\ UNCHANGED <<chain, index, ran, panic, acts, wrote, logged, recovered, taken, direct>>
      /\ UNCHANGED <<phase, wsVars>>
  BY DEF SaysNotFound, noteVars
<1>3. /\ stack' \in Seq(Frames)
      /\ \A k \in DOMAIN stack' : k \in DOMAIN stack /\ stack'[k].at = stack[k].at
  <2>1. stack \in Seq(Frames) /\ stack # <<>>
    BY DEF IInv, TypeOK, SaysNotFound, Runs
  <2>2. Len(stack) \in DOMAIN stack
    BY <2>1
  <2>3. stack' = [stack EXCEPT ![Len(stack)].called = @ + 1]
    BY DEF SaysNotFound
  <2>4. /\ stack' \in Seq(Frames) /\ Len(stack') = Len(stack)
        /\ \A k \in DOMAIN stack : stack'[k].at = stack[k].at
    BY <2>1, <2>2, <2>3, CalledAgain
  <2>. QED BY <2>1, <2>4
<1>. QED BY <1>1, <1>2, <1>3, NothingWritten DEF IInv, TypeOK

LEMMA UnwindKeeps ==
    ASSUME IInv, Unwind
    PROVE  IInv'
<1>1. stack \in Seq(Frames) /\ ctx \in Contexts /\ phase = "running"
  BY DEF IInv, TypeOK, Unwind
<1>2. UNCHANGED <<chain, index, ran, acts, wrote, logged, taken, direct, wsVars>>
  BY DEF Unwind
<1>3. CASE stack = <<>>
  <2>1. phase' = "aborted" /\ UNCHANGED <<stack, panic, ctx, recovered>>
    BY <1>3 DEF Unwind
  <2>. QED BY <1>1, <1>2, <2>1, NothingWritten DEF IInv, TypeOK
<1>4. CASE stack # <<>>
  <2>1. /\ stack' \in Seq(Frames)
        /\ \A k \in DOMAIN stack' : k \in DOMAIN stack /\ stack'[k] = stack[k]
    <3>1. /\ stack' \in Seq(Frames) /\ Len(stack') = Len(stack) - 1
          /\ \A k \in 1 .. Len(stack) - 1 : stack'[k] = stack[k]
      BY <1>1, <1>4, FrontOfStack DEF Unwind
    <3>. QED BY <1>1, <3>1
  <2>2. phase' = phase
    BY <1>4 DEF Unwind
  <2>3. CASE Kind = "recovery" /\ panic = "error"
    <3>1. panic' = "none" /\ ctx' = Recovered /\ recovered' = TRUE
      BY <1>4, <2>3 DEF Unwind
    <3>2. ctx' \in Contexts /\ ctx'.flushed = ctx.flushed
      <4>1. ctx' = AnswerSet(ctx, 500, "whole") /\ "whole" \in Bodies
        BY <3>1 DEF Recovered, AnswerSet, Bodies
      <4>2. 500 \in Nat
        OBVIOUS
      <4>. QED BY <1>1, <4>1, <4>2, AnswerSetContext
    <3>. QED BY <1>2, <2>1, <2>2, <3>1, <3>2, NothingWritten DEF IInv, TypeOK
  <2>4. CASE ~(Kind = "recovery" /\ panic = "error")
    <3>1. UNCHANGED <<panic, ctx, recovered>>
      BY <1>4, <2>4 DEF Unwind
    <3>. QED BY <1>2, <2>1, <2>2, <3>1, NothingWritten DEF IInv, TypeOK
  <2>. QED BY <2>3, <2>4
<1>. QED BY <1>3, <1>4

(* A step that takes the connection over and writes a head, or none for a  *)
(* socket that it shuts.                                                   *)
LEMMA TakenOver ==
    ASSUME IInv, Runs, UNCHANGED <<chain, stack, index, ran, panic, logged, recovered, phase, direct>>,
           taken' = taken + 1, WsInv', acts' \in 0 .. MaxActs, ctx' \in Contexts, ctx'.flushed,
           wrote' \in Seq(Nat),
           \/ Len(wrote') = Len(wrote) + 1 /\ (UNCHANGED wsVars \/ sock # "shut")
           \/ wrote' = wrote /\ sock # "shut" /\ use' = "none" /\ sock' = "shut"
    PROVE  IInv'
<1>1. taken \in Nat /\ taken' \in Nat /\ taken' > 0 /\ Len(wrote) \in Nat
  BY DEF IInv, TypeOK
<1>2. TypeOK'
  BY <1>1 DEF IInv, TypeOK, WsInv
<1>3. Entered'
  BY DEF IInv, Entered
<1>4. \/ Len(wrote) = taken
      \/ Len(wrote) = taken - 1 /\ use = "none" /\ sock = "shut"
  <2>1. CASE taken = 0
    BY <2>1 DEF IInv, Written, Runs
  <2>2. CASE taken > 0
    BY <2>2 DEF IInv, Written
  <2>. QED BY <1>1, <2>1, <2>2
<1>5. \/ Len(wrote') = taken'
      \/ Len(wrote') = taken' - 1 /\ use' = "none" /\ sock' = "shut"
  <2>1. CASE Len(wrote') = Len(wrote) + 1 /\ UNCHANGED wsVars
    <3>1. use' = use /\ sock' = sock
      BY <2>1 DEF wsVars, userVars
    <3>. QED BY <1>1, <1>4, <2>1, <3>1
  <2>2. CASE Len(wrote') = Len(wrote) + 1 /\ sock # "shut"
    BY <1>1, <1>4, <2>2
  <2>3. CASE wrote' = wrote /\ sock # "shut" /\ use' = "none" /\ sock' = "shut"
    BY <1>1, <1>4, <2>3
  <2>. QED BY <2>1, <2>2, <2>3
<1>6. Written'
  BY <1>1, <1>5 DEF IInv, Written, Runs
<1>. QED BY <1>2, <1>3, <1>6 DEF IInv

LEMMA StreamsKeep ==
    ASSUME IInv, SSE \/ StaticFile
    PROVE  IInv'
<1>1. /\ ctx \in Contexts /\ MaxActs \in Nat /\ acts \in Nat /\ wrote \in Seq(Nat)
      /\ UserCode /\ TakesOver /\ UNCHANGED wsVars
  BY HttpAssumption DEF IInv, TypeOK, SSE, StaticFile
<1>2. acts' \in 0 .. MaxActs /\ Runs
  BY <1>1 DEF UserCode
<1>3. ctx' \in Contexts /\ ctx'.flushed /\ \E s \in Nat : wrote' = Append(wrote, s)
  <2>1. CASE SSE
    <3>1. ctx' = [ctx EXCEPT !.flushed = TRUE, !.status = 200, !.set = TRUE]
      BY <2>1 DEF SSE
    <3>2. ctx' \in Contexts /\ ctx'.flushed
      BY <1>1, <3>1 DEF Contexts
    <3>3. wrote' = Append(wrote, 200) /\ 200 \in Nat
      BY <2>1 DEF SSE
    <3>. QED BY <3>2, <3>3, Zenon
  <2>2. CASE StaticFile
    <3>1. PICK s \in {200, 304} :
            ctx' = [ctx EXCEPT !.flushed = TRUE, !.status = s] /\ wrote' = Append(wrote, s)
      BY <2>2 DEF StaticFile
    <3>2. s \in Nat
      BY <3>1
    <3>3. ctx' \in Contexts /\ ctx'.flushed
      BY <1>1, <3>1, <3>2 DEF Contexts
    <3>. QED BY <3>1, <3>2, <3>3, Zenon
  <2>. QED BY <2>1, <2>2, Zenon
<1>5. wrote' \in Seq(Nat) /\ Len(wrote') = Len(wrote) + 1
  BY <1>1, <1>3
<1>6. /\ UNCHANGED <<chain, stack, index, ran, panic, logged, recovered, phase, direct>>
      /\ taken' = taken + 1
  BY <1>1 DEF TakesOver, Same, chainVars
<1>7. WsInv'
  BY <1>1, WsStays DEF IInv
<1>. QED BY <1>1, <1>2, <1>3, <1>5, <1>6, <1>7, TakenOver

LEMMA UpgradeKeeps ==
    ASSUME IInv, Upgrade
    PROVE  IInv'
<1>1. /\ ctx \in Contexts /\ MaxActs \in Nat /\ acts \in Nat /\ wrote \in Seq(Nat)
      /\ direct \in BOOLEAN
      /\ Kind \in {"dashboard", "listen"} /\ acts < MaxActs /\ acts' = acts + 1 /\ Runs
  BY HttpAssumption DEF IInv, TypeOK, Upgrade
<1>2. acts' \in 0 .. MaxActs
  BY <1>1
<1>. DEFINE throws ==
              /\ ctx' = [ctx EXCEPT !.status = 400, !.set = TRUE, !.body = "whole"]
              /\ UNCHANGED <<panic, wrote, taken, direct, wsVars>> /\ Same
            hands ==
              /\ use = "none" /\ sock # "shut" /\ TakesOver
              /\ ctx' = [ctx EXCEPT !.flushed = TRUE, !.status = 101, !.set = TRUE]
              /\ \/ wrote' = Append(wrote, 101) /\ Serve(Kind)
                 \/ sock' = "shut" /\ UNCHANGED <<wrote, userVars, readVars, peerVars, closed>>
<1>3. throws \/ hands
  BY Zenon DEF Upgrade
<1>4. CASE throws
  <2>1. ctx' \in Contexts /\ ctx'.flushed = ctx.flushed
    <3>1. ctx' = AnswerSet(ctx, 400, "whole") /\ "whole" \in Bodies
      BY <1>4 DEF AnswerSet, Bodies
    <3>2. 400 \in Nat
      OBVIOUS
    <3>. QED BY <1>1, <3>1, <3>2, AnswerSetContext
  <2>2. /\ UNCHANGED <<chain, stack, index, ran, panic, wrote, logged, recovered, taken, direct>>
        /\ UNCHANGED <<phase, wsVars>>
    BY <1>4 DEF Same, chainVars
  <2>. QED BY <1>2, <2>1, <2>2, NothingWritten DEF IInv, TypeOK
<1>5. CASE hands
  <2>1. ctx' \in Contexts /\ ctx'.flushed
    BY <1>1, <1>5 DEF Contexts
  <2>2. /\ UNCHANGED <<chain, stack, index, ran, panic, logged, recovered, phase, direct>>
        /\ taken' = taken + 1 /\ use = "none" /\ sock # "shut"
    BY <1>5 DEF TakesOver, Same, chainVars
  <2>3. CASE wrote' = Append(wrote, 101) /\ Serve(Kind)
    <3>1. wrote' \in Seq(Nat) /\ Len(wrote') = Len(wrote) + 1
      BY <1>1, <2>3
    <3>2. WsInv'
      BY <1>1, <2>3, ServeKeeps DEF IInv
    <3>. QED BY <1>1, <1>2, <2>1, <2>2, <3>1, <3>2, TakenOver
  <2>4. CASE sock' = "shut" /\ UNCHANGED <<wrote, userVars, readVars, peerVars, closed>>
    <3>1. WsInv'
      BY <2>4
      DEF IInv, WsInv, WsTypeOK, Collected, DeliveredWhole, userVars, readVars, peerVars
    <3>2. wrote' \in Seq(Nat) /\ wrote' = wrote /\ use' = "none" /\ sock' = "shut"
      BY <1>1, <2>2, <2>4 DEF userVars
    <3>. QED BY <1>1, <1>2, <2>1, <2>2, <3>1, <3>2, TakenOver
  <2>. QED BY <1>5, <2>3, <2>4
<1>. QED BY <1>3, <1>4, <1>5

(* respond: the answer and the context that it leaves.                     *)
Answered(c) == IF c.body # "none" THEN Promoted(c) ELSE c
Emptied(c) == IF emptyStatus(c.status) THEN [c EXCEPT !.body = "none"] ELSE c
StatusOf(c) == IF c.body = "broken" THEN 500 ELSE c.status

LEMMA RespondWrites ==
    ASSUME ctx \in Contexts, respond, ~ctx.flushed
    PROVE  /\ ctx' = Emptied(Answered(ctx)) /\ wrote' = Append(wrote, StatusOf(ctx'))
           /\ ctx' \in Contexts /\ ~ctx'.flushed /\ StatusOf(ctx') \in Nat
<1>1. ctx' = Emptied(Answered(ctx)) /\ wrote' = Append(wrote, StatusOf(ctx'))
  <2>1. /\ ctx' = LET c == IF ctx.body # "none" THEN Promoted(ctx) ELSE ctx
                  IN  IF emptyStatus(c.status) THEN [c EXCEPT !.body = "none"] ELSE c
        /\ wrote' = Append(wrote, IF ctx'.body = "broken" THEN 500 ELSE ctx'.status)
    <3>. DEFINE c == IF ctx.body # "none" THEN Promoted(ctx) ELSE ctx
                d == IF emptyStatus(c.status) THEN [c EXCEPT !.body = "none"] ELSE c
    <3>1. ctx' = d /\ wrote' = Append(wrote, IF d.body = "broken" THEN 500 ELSE d.status)
      BY Zenon DEF respond
    <3>. HIDE DEF d
    <3>2. wrote' = Append(wrote, IF ctx'.body = "broken" THEN 500 ELSE ctx'.status)
      BY <3>1
    <3>. QED BY <3>1, <3>2, Zenon DEF d
  <2>. QED BY <2>1, Zenon DEF Emptied, Answered, StatusOf
<1>2. Answered(ctx) \in Contexts /\ ~Answered(ctx).flushed
  BY PromotedContext DEF Answered
<1>3. \A c \in Contexts : Emptied(c) \in Contexts /\ Emptied(c).flushed = c.flushed
  <2>1. SUFFICES ASSUME NEW c \in Contexts
                 PROVE  Emptied(c) \in Contexts /\ Emptied(c).flushed = c.flushed
    OBVIOUS
  <2>2. [c EXCEPT !.body = "none"] \in Contexts /\ [c EXCEPT !.body = "none"].flushed = c.flushed
    <3>1. BodySet(c, "none") \in Contexts /\ BodySet(c, "none").flushed = c.flushed
      BY BodySetContext DEF Bodies
    <3>. QED BY <3>1 DEF BodySet
  <2>. QED BY <2>2 DEF Emptied
<1>4. ctx' \in Contexts /\ ~ctx'.flushed
  BY <1>1, <1>2, <1>3
<1>5. StatusOf(ctx') \in Nat
  BY <1>4 DEF StatusOf, Contexts
<1>. QED BY <1>1, <1>4, <1>5

LEMMA RespondKeeps ==
    ASSUME IInv, respond
    PROVE  IInv'
<1>1. /\ UNCHANGED <<chain, stack, index, ran, panic, acts, logged, recovered, taken, direct, wsVars>>
      /\ phase = "running" /\ phase' = "answered"
  BY DEF respond, chainVars, noteVars
<1>2. ctx \in Contexts /\ wrote \in Seq(Nat)
  BY DEF IInv, TypeOK
<1>3. WsInv'
  BY <1>1, WsStays DEF IInv
<1>4. use' = use /\ sock' = sock
  BY <1>1 DEF wsVars, userVars
<1>5. Entered'
  BY <1>1 DEF IInv, Entered
<1>6. CASE ctx.flushed
  <2>1. ctx' = ctx /\ wrote' = wrote
    BY <1>6 DEF respond
  <2>2. TypeOK'
    BY <1>1, <1>3, <2>1 DEF IInv, TypeOK, WsInv
  <2>3. Written'
    BY <1>1, <1>4, <1>6, <2>1 DEF IInv, Written
  <2>. QED BY <1>3, <1>5, <2>2, <2>3 DEF IInv
<1>7. CASE ~ctx.flushed
  <2>1. /\ wrote' = Append(wrote, StatusOf(ctx'))
        /\ ctx' \in Contexts /\ ~ctx'.flushed /\ StatusOf(ctx') \in Nat
    BY <1>2, <1>7, RespondWrites
  <2>2. wrote' \in Seq(Nat) /\ Len(wrote') = Len(wrote) + 1
    BY <1>2, <2>1
  <2>3. TypeOK'
    BY <1>1, <1>3, <2>1, <2>2 DEF IInv, TypeOK, WsInv
  <2>4. taken \in Nat /\ taken = 0 /\ Len(wrote) = 0
    BY <1>1, <1>7 DEF IInv, TypeOK, Written
  <2>5. Written'
    BY <1>1, <1>4, <2>1, <2>2, <2>4 DEF IInv, Written
  <2>. QED BY <1>3, <1>5, <2>3, <2>5 DEF IInv
<1>. QED BY <1>6, <1>7

LEMMA WsKeeps ==
    ASSUME IInv, WsActs, UNCHANGED httpVars
    PROVE  IInv'
<1>1. /\ UNCHANGED <<chain, stack, index, ran, panic, ctx, acts, wrote, logged, recovered, phase>>
      /\ UNCHANGED <<taken, direct>>
  BY DEF httpVars, chainVars, ctxVars, noteVars
<1>2. WsInv' /\ use' = use /\ (sock = "shut" => sock' = "shut")
  BY WsStep, WsSockets DEF IInv
<1>3. TypeOK'
  BY <1>1, <1>2 DEF IInv, TypeOK, WsInv
<1>4. Entered'
  BY <1>1 DEF IInv, Entered
<1>5. Written'
  BY <1>1, <1>2 DEF IInv, Written
<1>. QED BY <1>2, <1>3, <1>4, <1>5 DEF IInv

LEMMA StutterKeeps ==
    ASSUME IInv, UNCHANGED vars
    PROVE  IInv'
<1>1. /\ UNCHANGED <<chain, stack, index, ran, panic, ctx, acts, wrote, logged, recovered, phase>>
      /\ UNCHANGED <<taken, direct, wsVars>>
  BY DEF vars, chainVars, ctxVars, noteVars
<1>. QED BY <1>1, NothingWritten DEF IInv, TypeOK

LEMMA InitIInv == Init => IInv
<1>. SUFFICES ASSUME Init PROVE IInv
  OBVIOUS
<1>1. WsInv
  <2>1. 0 \in 0 .. Limit /\ 0 \in 0 .. MaxFrames
    BY WsAssumption
  <2>2. WsTypeOK
    BY <2>1 DEF Init, WsInit, WsTypeOK
  <2>3. msgType = FALSE /\ buf = 0 /\ got = 0
    BY DEF Init, WsInit
  <2>. QED BY <2>2, <2>3 DEF WsInv, Collected, DeliveredWhole
<1>2. TypeOK
  <2>1. chain \in Seq(Kinds) /\ stack \in Seq(Frames) /\ wrote \in Seq(Nat)
    BY DEF Init
  <2>2. ran \in [DOMAIN chain -> Nat]
    BY DEF Init
  <2>3. acts \in 0 .. MaxActs
    BY HttpAssumption DEF Init
  <2>4. ctx \in Contexts
    BY DEF Init, Contexts, Bodies
  <2>5. /\ index \in Nat /\ panic \in {"none", "error", "abort"} /\ logged \in Nat
        /\ recovered \in BOOLEAN /\ phase \in {"new", "running", "answered", "aborted"}
        /\ taken \in Nat /\ direct \in BOOLEAN
    BY DEF Init
  <2>. QED BY <1>1, <2>1, <2>2, <2>3, <2>4, <2>5 DEF TypeOK, WsInv
<1>3. Entered
  BY DEF Init, Entered
<1>4. Written
  BY DEF Init, WsInit, Written
<1>. QED BY <1>1, <1>2, <1>3, <1>4 DEF IInv

LEMMA StepIInv == IInv /\ [Next]_vars => IInv'
<1>. SUFFICES ASSUME IInv, [Next]_vars PROVE IInv'
  OBVIOUS
<1>1. ASSUME NEW path \in Paths, ServeHTTP(path) PROVE IInv'
  BY <1>1, ServeHTTPKeeps
<1>2. CASE CallNext BY <1>2, CallNextKeeps
<1>3. CASE HandlerReturns BY <1>3, ReturnsKeep
<1>4. CASE Acts BY <1>4, ActsKeep
<1>5. CASE Panics BY <1>5, PanicsKeep
<1>6. CASE SaysNotFound BY <1>6, SaysNotFoundKeeps
<1>7. CASE SSE \/ StaticFile BY <1>7, StreamsKeep
<1>8. CASE Upgrade BY <1>8, UpgradeKeeps
<1>9. CASE Unwind BY <1>9, UnwindKeeps
<1>10. CASE respond BY <1>10, RespondKeeps
<1>11. CASE WsActs /\ UNCHANGED httpVars BY <1>11, WsKeeps
<1>12. CASE UNCHANGED vars BY <1>12, StutterKeeps
<1>. QED BY <1>1, <1>2, <1>3, <1>4, <1>5, <1>6, <1>7, <1>8, <1>9, <1>10, <1>11, <1>12, Zenon
     DEF Next, Ws, WsActs

LEMMA Invariance == Spec => []IInv
BY InitIInv, StepIInv, PTL DEF Spec

(* Every variable keeps to its type, whatever user code and the peer do;   *)
(* what has been collected of a message never exceeds the limit.           *)
THEOREM TypeCorrect == Spec => []TypeOK
<1>1. IInv => TypeOK BY DEF IInv
<1>. QED BY <1>1, Invariance, PTL

(* Whatever frames the peer sends, in whatever order, readMessage returns  *)
(* whole messages within the limit (WSConn.readMessage).                   *)
THEOREM WholeMessages == Spec => []DeliveredWhole
<1>1. IInv => DeliveredWhole BY DEF IInv, WsInv
<1>. QED BY <1>1, Invariance, PTL

(* However middlewares call next, panic, set, assign and take over, each   *)
(* of them runs once at most; a finished request that nobody has taken     *)
(* over is answered once, and respond adds nothing to one that somebody    *)
(* has, who writes a head each time (compose, respond, SSE, Upgrade).      *)
THEOREM AnsweredOnce == Spec => []OnceEach
<1>1. IInv => OnceEach
  <2>. SUFFICES ASSUME IInv PROVE OnceEach
    OBVIOUS
  <2>1. ran \in [DOMAIN chain -> Nat]
    BY DEF IInv, TypeOK
  <2>2. \A i \in DOMAIN ran : ran[i] \in Nat /\ ran[i] <= (IF i <= index THEN 1 ELSE 0)
    BY <2>1 DEF IInv, Entered
  <2>3. \A i \in DOMAIN ran : ran[i] <= 1
    BY <2>2
  <2>. QED BY <2>3 DEF OnceEach, IInv, Written
<1>. QED BY <1>1, Invariance, PTL

-----------------------------------------------------------------------------
(* The log                                                                 *)

LogInv == InOrder /\ Statuses /\ AnswerAsLogged

(* While user code runs, Logger has not printed, and Recovery caught       *)
(* nothing, for behind them nothing runs.                                  *)
LEMMA UserRuns ==
    ASSUME IInv, LogInv, Runs
    PROVE  logged = 0 /\ (Kind # "logger" => ~recovered)
<1>1. phase = "running" /\ stack # <<>> /\ panic = "none" /\ logged \in Nat
  BY DEF Runs, IInv, TypeOK
<1>2. logged = 0
  BY <1>1 DEF LogInv, Statuses
<1>3. recovered => Kind = "logger"
  <2>1. SUFFICES ASSUME recovered PROVE Kind = "logger"
    OBVIOUS
  <2>2. Len(stack) = 1 /\ chain[stack[1].at] = "logger"
    BY <1>1, <2>1 DEF LogInv, Statuses
  <2>3. top = stack[Len(stack)]
    BY <1>1, TopFrame
  <2>. QED BY <2>2, <2>3 DEF Kind
<1>. QED BY <1>2, <1>3

(* Before the answer, the log and the chain unchanged, only the statuses   *)
(* are to be looked at.                                                    *)
LEMMA Running ==
    ASSUME IInv, LogInv, chain' = chain, phase = "running", phase' \in {"running", "aborted"},
           Statuses'
    PROVE  LogInv'
BY DEF LogInv, InOrder, AnswerAsLogged

(* User code sets the context.                                             *)
LEMMA UserSets ==
    ASSUME IInv, LogInv, Runs, Kind # "logger",
           UNCHANGED <<chain, logged, recovered, phase>>,
           ~direct' /\ ctx'.body # "none" => ctx'.set \/ ctx'.status # 404
    PROVE  LogInv'
<1>1. logged' = 0 /\ ~recovered' /\ phase = "running" /\ phase' = "running"
  BY UserRuns DEF Runs
<1>2. Statuses'
  BY <1>1 DEF Statuses
<1>. QED BY <1>1, <1>2, Running

LEMMA ServeHTTPLogs ==
    ASSUME AsDefault, IInv, LogInv, NEW path \in Paths, ServeHTTP(path)
    PROVE  LogInv'
<1>1. /\ chain' = Chain(path) /\ phase = "new" /\ phase' = "running"
      /\ UNCHANGED <<ctx, direct, logged, recovered>>
  BY DEF ServeHTTP, ctxVars, noteVars
<1>2. InOrder'
  BY <1>1 DEF AsDefault, InOrder
<1>3. logged' = 0 /\ ~recovered'
  BY <1>1 DEF LogInv, Statuses
<1>4. Statuses'
  BY <1>1, <1>3 DEF LogInv, Statuses
<1>5. AnswerAsLogged'
  BY <1>1 DEF AnswerAsLogged
<1>. QED BY <1>2, <1>4, <1>5 DEF LogInv

(* Logger that calls next behind Recovery would call it again.             *)
LEMMA CallNextLogs ==
    ASSUME IInv, LogInv, CallNext
    PROVE  LogInv'
<1>1. /\ Runs /\ phase = "running" /\ phase' = "running" /\ stack # <<>>
      /\ UNCHANGED <<chain, ctx, direct, logged, recovered>>
      /\ Dispatch([stack EXCEPT ![Len(stack)].called = @ + 1], top.at + 1)
  BY DEF CallNext, Runs, ctxVars, noteVars
<1>2. logged = 0
  BY <1>1, UserRuns
<1>3. CASE ~recovered
  <2>1. Statuses'
    BY <1>1, <1>2, <1>3 DEF LogInv, Statuses
  <2>. QED BY <1>1, <2>1, Running
<1>4. CASE recovered
  <2>1. /\ Len(stack) = 1 /\ chain[stack[1].at] = "logger" /\ index >= 2
        /\ ctx.status = 500 /\ ctx.set /\ ctx.body = "whole"
    BY <1>1, <1>4 DEF LogInv, Statuses
  <2>2. top = stack[1] /\ top.at = 1 /\ stack \in Seq(Frames) /\ index \in Nat
        /\ stack[1] \in Frames
    <3>1. top = stack[Len(stack)] /\ Len(stack) = top.at /\ top \in Frames
      BY <1>1, TopFrame
    <3>. QED BY <2>1, <3>1 DEF IInv, TypeOK
  <2>3. index' = index /\ stack' = [stack EXCEPT ![1].called = @ + 1]
    BY <1>1, <2>1, <2>2 DEF Dispatch
  <2>4. Len(stack') = 1 /\ stack'[1].at = stack[1].at
    <3>1. 1 \in DOMAIN stack
      BY <2>1, <2>2
    <3>2. /\ Len([stack EXCEPT ![1].called = @ + 1]) = Len(stack)
          /\ [stack EXCEPT ![1].called = @ + 1][1].at = stack[1].at
      BY <2>2, <3>1, CalledAgain
    <3>. QED BY <2>1, <2>3, <3>2
  <2>5. Statuses'
    BY <1>1, <1>2, <2>1, <2>3, <2>4 DEF LogInv, Statuses
  <2>. QED BY <1>1, <2>5, Running
<1>. QED BY <1>3, <1>4

(* Logger is the outermost: when it has printed, nothing is left to run.   *)
LEMMA ReturnsLog ==
    ASSUME IInv, LogInv, HandlerReturns
    PROVE  LogInv'
<1>1. /\ Runs /\ phase = "running" /\ phase' = "running" /\ stack # <<>> /\ panic = "none"
      /\ UNCHANGED <<chain, ctx, direct, recovered, index, panic>> /\ stack' = Front(stack)
      /\ logged' = IF Kind = "logger" THEN ctx.status ELSE logged
  BY DEF HandlerReturns, Runs, ctxVars
<1>2. logged = 0 /\ (Kind # "logger" => ~recovered)
  BY <1>1, UserRuns
<1>3. CASE Kind = "logger"
  <2>1. top.at \in DOMAIN chain /\ Len(stack) = top.at
    BY <1>1, TopFrame
  <2>2. top.at = 1
    BY <1>3, <2>1 DEF Kind, LogInv, InOrder
  <2>3. stack' = <<>>
    <3>1. Front(stack) \in Seq(Frames) /\ Len(Front(stack)) = Len(stack) - 1
      BY <1>1, FrontOfStack DEF IInv, TypeOK
    <3>. QED BY <1>1, <2>1, <2>2, <3>1
  <2>4. Statuses'
    BY <1>1, <1>3, <2>3 DEF LogInv, Statuses
  <2>. QED BY <1>1, <2>4, Running
<1>4. CASE Kind # "logger"
  <2>1. Statuses'
    BY <1>1, <1>2, <1>4 DEF LogInv, Statuses
  <2>. QED BY <1>1, <2>1, Running
<1>. QED BY <1>3, <1>4

LEMMA ActsLog ==
    ASSUME IInv, LogInv, Acts
    PROVE  LogInv'
<1>1. /\ ctx \in Contexts /\ direct \in BOOLEAN /\ Runs /\ Kind # "logger"
      /\ UNCHANGED <<chain, logged, recovered, phase>>
  BY DEF IInv, TypeOK, Acts, UserCode, Same, chainVars
<1>2. ~direct' => ctx'.set \/ ctx'.status # 404
  BY <1>1, ActsSet
<1>. QED BY <1>1, <1>2, UserSets

LEMMA SetsLog ==
    ASSUME IInv, LogInv, Panics \/ SaysNotFound \/ SSE \/ StaticFile \/ Upgrade
    PROVE  LogInv'
<1>1. ctx \in Contexts
  BY DEF IInv, TypeOK
<1>2. Runs /\ Kind # "logger" /\ UNCHANGED <<chain, logged, recovered, phase, direct>>
  BY DEF Panics, SaysNotFound, SSE, StaticFile, Upgrade, UserCode, TakesOver, Same, chainVars,
         noteVars
<1>3. ctx' = ctx \/ ctx'.set = TRUE \/ ctx'.status # 404
  <2>1. CASE Panics
    BY <2>1 DEF Panics
  <2>2. CASE SaysNotFound
    BY <1>1, <2>2 DEF SaysNotFound, Contexts
  <2>3. CASE SSE
    BY <1>1, <2>3 DEF SSE, Contexts
  <2>4. CASE StaticFile
    BY <1>1, <2>4 DEF StaticFile, Contexts
  <2>5. CASE Upgrade
    <3>1. \/ ctx' = [ctx EXCEPT !.status = 400, !.set = TRUE, !.body = "whole"]
          \/ ctx' = [ctx EXCEPT !.flushed = TRUE, !.status = 101, !.set = TRUE]
      BY <2>5, Zenon DEF Upgrade
    <3>2. CASE ctx' = [ctx EXCEPT !.status = 400, !.set = TRUE, !.body = "whole"]
      BY <1>1, <3>2 DEF Contexts
    <3>3. CASE ctx' = [ctx EXCEPT !.flushed = TRUE, !.status = 101, !.set = TRUE]
      BY <1>1, <3>3 DEF Contexts
    <3>. QED BY <3>1, <3>2, <3>3
  <2>. QED BY <2>1, <2>2, <2>3, <2>4, <2>5
<1>4. ~direct' /\ ctx'.body # "none" => ctx'.set \/ ctx'.status # 404
  BY <1>2, <1>3 DEF LogInv, Statuses
<1>. QED BY <1>2, <1>4, UserSets

(* A panic ends in Recovery, with Logger above it, or unwinds to the end.  *)
LEMMA UnwindLogs ==
    ASSUME IInv, LogInv, Unwind
    PROVE  LogInv'
<1>1. /\ phase = "running" /\ panic # "none" /\ UNCHANGED <<chain, logged, index, direct>>
      /\ ctx \in Contexts /\ stack \in Seq(Frames) /\ logged \in Nat
  BY DEF IInv, TypeOK, Unwind
<1>2. logged = 0
  BY <1>1 DEF LogInv, Statuses
<1>3. CASE stack = <<>>
  <2>1. phase' = "aborted" /\ UNCHANGED <<ctx, recovered>>
    BY <1>3 DEF Unwind
  <2>2. Statuses'
    BY <1>1, <2>1 DEF LogInv, Statuses
  <2>. QED BY <1>1, <2>1, <2>2, Running
<1>4. CASE stack # <<>>
  <2>1. stack' = Front(stack) /\ phase' = "running"
    BY <1>1, <1>4 DEF Unwind
  <2>2. /\ Front(stack) \in Seq(Frames) /\ Len(Front(stack)) = Len(stack) - 1
        /\ \A k \in 1 .. Len(stack) - 1 : Front(stack)[k] = stack[k]
        /\ Len(stack) \in DOMAIN stack
    BY <1>1, <1>4, FrontOfStack
  <2>3. CASE Kind = "recovery" /\ panic = "error"
    <3>1. ctx' = Recovered /\ recovered'
      BY <1>4, <2>3 DEF Unwind
    <3>2. ctx'.status = 500 /\ ctx'.set /\ ctx'.body = "whole"
      BY <1>1, <3>1 DEF Recovered, Contexts
    <3>3. top.at \in DOMAIN chain /\ Len(stack) = top.at /\ top.at <= index
      BY <1>4, TopFrame
    <3>4. top.at = 1 \/ (top.at = 2 /\ chain[1] = "logger")
      BY <2>3, <3>3 DEF Kind, LogInv, InOrder
    <3>5. CASE top.at = 1
      <4>1. stack' = <<>>
        BY <2>1, <2>2, <3>3, <3>5
      <4>2. Statuses'
        BY <1>1, <1>2, <2>1, <3>2, <4>1 DEF Statuses
      <4>. QED BY <1>1, <2>1, <4>2, Running
    <3>6. CASE top.at = 2 /\ chain[1] = "logger"
      <4>1. Len(stack') = 1 /\ stack'[1] = stack[1] /\ index' >= 2
        BY <1>1, <2>1, <2>2, <3>3, <3>6
      <4>2. stack[1].at = 1
        <5>1. 1 \in DOMAIN stack
          BY <1>1, <3>3, <3>6
        <5>. QED BY <5>1 DEF IInv, Entered
      <4>3. chain'[stack'[1].at] = "logger"
        BY <1>1, <3>6, <4>1, <4>2
      <4>4. Statuses'
        BY <1>1, <1>2, <2>1, <3>2, <4>1, <4>3 DEF Statuses
      <4>. QED BY <1>1, <2>1, <4>4, Running
    <3>. QED BY <3>4, <3>5, <3>6
  <2>4. CASE ~(Kind = "recovery" /\ panic = "error")
    <3>1. UNCHANGED <<ctx, recovered>>
      BY <1>4, <2>4 DEF Unwind
    <3>2. recovered => stack' = <<>>
      <4>1. recovered => Len(stack) = 1
        BY <1>1, <1>4 DEF LogInv, Statuses
      <4>2. Len(stack) = 1 => Front(stack) = <<>>
        BY <2>2
      <4>. QED BY <2>1, <4>1, <4>2
    <3>3. Statuses'
      BY <1>1, <1>2, <2>1, <3>1, <3>2 DEF LogInv, Statuses
    <3>. QED BY <1>1, <2>1, <3>3, Running
  <2>. QED BY <2>3, <2>4
<1>. QED BY <1>3, <1>4

(* What is written is the status as the setters left it.                   *)
LEMMA RespondStatus ==
    ASSUME NEW c \in Contexts
    PROVE  /\ Emptied(Answered(c)).body # "broken"
              /\ (c.body # "none" => c.set \/ c.status # 404)
                 => StatusOf(Emptied(Answered(c))) = c.status
           /\ c.status = 500 /\ c.body = "whole" => StatusOf(Emptied(Answered(c))) = 500
           /\ Emptied(Answered(c)).body # "none"
                 => Emptied(Answered(c)).set \/ Emptied(Answered(c)).status # 404
<1>. DEFINE a == Answered(c)
            d == Emptied(a)
<1>1. /\ a \in Contexts /\ a.body = c.body /\ a.set = c.set
      /\ c.body # "none" => a.set \/ a.status # 404
      /\ c.body = "none" \/ c.set \/ c.status # 404 => a.status = c.status
  BY PromotedContext DEF Answered, Promoted, Contexts
<1>2. /\ d.status = a.status /\ d.set = a.set
      /\ d.body = IF emptyStatus(a.status) THEN "none" ELSE a.body
  BY <1>1 DEF Emptied, Contexts
<1>. HIDE DEF a, d
<1>3. /\ d.body # "broken" /\ (c.body # "none" => c.set \/ c.status # 404)
            => StatusOf(d) = c.status
  BY <1>1, <1>2 DEF StatusOf
<1>4. c.status = 500 /\ c.body = "whole" => StatusOf(d) = 500
  BY <1>1, <1>2 DEF StatusOf, emptyStatus
<1>5. d.body # "none" => d.set \/ d.status # 404
  BY <1>1, <1>2
<1>. QED BY <1>3, <1>4, <1>5 DEF a, d

LEMMA RespondLogs ==
    ASSUME IInv, LogInv, respond
    PROVE  LogInv'
<1>1. /\ UNCHANGED <<chain, logged, recovered, direct>> /\ phase = "running" /\ phase' = "answered"
      /\ ctx \in Contexts /\ wrote \in Seq(Nat)
  BY DEF respond, chainVars, noteVars, IInv, TypeOK
<1>2. InOrder'
  BY <1>1 DEF LogInv, InOrder
<1>3. CASE ctx.flushed
  <2>1. ctx' = ctx
    BY <1>3 DEF respond
  <2>2. Statuses' /\ AnswerAsLogged'
    BY <1>1, <1>3, <2>1 DEF LogInv, Statuses, AnswerAsLogged
  <2>. QED BY <1>2, <2>2 DEF LogInv
<1>4. CASE ~ctx.flushed
  <2>1. ctx' = Emptied(Answered(ctx)) /\ wrote' = Append(wrote, StatusOf(ctx'))
        /\ StatusOf(ctx') \in Nat
    BY <1>1, <1>4, RespondWrites
  <2>2. wrote' = <<StatusOf(ctx')>>
    <3>1. wrote = <<>>
      <4>1. taken \in Nat /\ Len(wrote) = 0
        BY <1>1, <1>4 DEF IInv, TypeOK, Written
      <4>. QED BY <1>1, <4>1
    <3>. QED BY <2>1, <3>1
  <2>3. ~direct /\ ctx.body # "none" => ctx.set \/ ctx.status # 404
    BY DEF LogInv, Statuses
  <2>4. /\ ~direct /\ ctx'.body # "broken" => StatusOf(ctx') = ctx.status
        /\ ctx.status = 500 /\ ctx.body = "whole" => StatusOf(ctx') = 500
        /\ ctx'.body # "none" => ctx'.set \/ ctx'.status # 404
    BY <1>1, <2>1, <2>3, RespondStatus
  <2>5. /\ logged # 0 => logged = ctx.status
        /\ recovered => ctx.status = 500 /\ ctx.body = "whole"
    BY <1>1 DEF LogInv, Statuses
  <2>6. Statuses'
    BY <1>1, <2>4 DEF Statuses
  <2>7. AnswerAsLogged'
    BY <1>1, <2>2, <2>4, <2>5 DEF AnswerAsLogged
  <2>. QED BY <1>2, <2>6, <2>7 DEF LogInv
<1>. QED BY <1>3, <1>4

LEMMA OthersLog ==
    ASSUME LogInv, UNCHANGED httpVars
    PROVE  LogInv'
BY DEF LogInv, InOrder, Statuses, AnswerAsLogged, httpVars, chainVars, ctxVars, noteVars

LEMMA StepLogInv ==
    ASSUME AsDefault
    PROVE  IInv /\ LogInv /\ [Next]_vars => LogInv'
<1>. SUFFICES ASSUME IInv, LogInv, [Next]_vars PROVE LogInv'
  OBVIOUS
<1>1. ASSUME NEW path \in Paths, ServeHTTP(path) PROVE LogInv'
  BY <1>1, ServeHTTPLogs
<1>2. CASE CallNext BY <1>2, CallNextLogs
<1>3. CASE HandlerReturns BY <1>3, ReturnsLog
<1>4. CASE Acts BY <1>4, ActsLog
<1>5. CASE Panics \/ SaysNotFound \/ SSE \/ StaticFile \/ Upgrade BY <1>5, SetsLog
<1>6. CASE Unwind BY <1>6, UnwindLogs
<1>7. CASE respond BY <1>7, RespondLogs
<1>8. CASE UNCHANGED httpVars BY <1>8, OthersLog
<1>9. CASE UNCHANGED vars
  <2>1. UNCHANGED httpVars
    BY <1>9 DEF vars, httpVars
  <2>. QED BY <2>1, OthersLog
<1>. QED BY <1>1, <1>2, <1>3, <1>4, <1>5, <1>6, <1>7, <1>8, <1>9, Zenon DEF Next, Ws

(* With Logger and Recovery where Default puts them, the status that is    *)
(* printed is the one that is written, unless somebody takes the request   *)
(* over, assigns Body or the status 404 directly, or sets a body that      *)
(* cannot be rendered; and a panic that was caught is answered with 500,   *)
(* whatever was set or assigned before it, unless the request had been     *)
(* taken over (Logger, Recovery, promoteStatus).                           *)
THEOREM AnswerIsLogged ==
    ASSUME AsDefault
    PROVE  Spec => []AnswerAsLogged
<1>1. Init => LogInv
  BY DEF Init, LogInv, InOrder, Statuses, AnswerAsLogged
<1>2. IInv /\ LogInv /\ [Next]_vars => LogInv'
  BY StepLogInv
<1>3. LogInv => AnswerAsLogged
  BY DEF LogInv
<1>. QED BY <1>1, <1>2, <1>3, Invariance, PTL DEF Spec

-----------------------------------------------------------------------------
(* The route table: its recursions run over lists of any length.           *)

(* Induction over the naturals, for a set of them; the least of a set.     *)
LEMMA LeastOf ==
    ASSUME NEW S, S \subseteq Nat, S # {}
    PROVE  /\ Min(S) \in S
           /\ \A j \in S : Min(S) <= j
<1>1. PICK k \in S : \A j \in S : ~ (<<j, k>> \in OpToRel(<, Nat))
  BY NatLessThanWellFounded, WFMin
<1>2. \A j \in S : ~ (j < k)
  BY <1>1 DEF OpToRel
<1>3. k \in S /\ \A j \in S : k <= j
  BY <1>2
<1> QED
  BY <1>3 DEF Min

LEMMA SetInduction ==
    ASSUME NEW S, 0 \in S, \A n \in Nat : n \in S => n + 1 \in S
    PROVE  Nat \subseteq S
<1> DEFINE B == Nat \ S
<1> SUFFICES ASSUME B # {} PROVE FALSE
  OBVIOUS
<1>1. Min(B) \in B /\ \A j \in B : Min(B) <= j
  BY LeastOf
<1>2. Min(B) - 1 \in Nat /\ Min(B) - 1 \notin B
  BY <1>1
<1> QED
  BY <1>1, <1>2

(* A recursion over 0..n from x by the step d, a function that leads from  *)
(* X[k - 1] into X[k].                                                     *)
Recursion(f, n, x, d) == f = [k \in 0 .. n |-> IF k = 0 THEN x ELSE d[k][f[k - 1]]]

LEMMA RecursionExists ==
    ASSUME NEW n \in Nat, NEW X, NEW x \in X[0], NEW d,
           \A k \in 1 .. n : \A v \in X[k - 1] : d[k][v] \in X[k]
    PROVE  \E f : Recursion(f, n, x, d) /\ \A k \in 0 .. n : f[k] \in X[k]
<1> DEFINE Good(f, m) == Recursion(f, m, x, d) /\ \A k \in 0 .. m : f[k] \in X[k]
           S == {m \in Nat : m <= n => \E f : Good(f, m)}
<1>1. 0 \in S
  <2> DEFINE f == [k \in 0 .. 0 |-> x]
  <2>1. \A k \in 0 .. 0 : k = 0 /\ f[k] = x
    OBVIOUS
  <2>2. Recursion(f, 0, x, d)
    BY DEF Recursion
  <2>3. Good(f, 0)
    BY <2>1, <2>2
  <2> QED
    BY <2>3
<1>2. ASSUME NEW m \in Nat, m \in S PROVE m + 1 \in S
  <2> SUFFICES ASSUME m + 1 <= n
               PROVE  \E f : Good(f, m + 1)
    OBVIOUS
  <2>1. PICK f : Good(f, m)
    BY <1>2
  <2> DEFINE g == [k \in 0 .. m + 1 |-> IF k = m + 1 THEN d[m + 1][f[m]] ELSE f[k]]
  <2>2. d[m + 1][f[m]] \in X[m + 1]
    <3>1. m + 1 \in 1 .. n /\ (m + 1) - 1 = m /\ f[m] \in X[m]
      BY <2>1
    <3> QED
      BY <3>1
  <2>3. \A k \in 0 .. m + 1 : g[k] \in X[k]
    BY <2>1, <2>2
  <2>4. \A k \in 0 .. m : f[k] = IF k = 0 THEN x ELSE d[k][f[k - 1]]
    BY <2>1 DEF Recursion
  <2>5. ASSUME NEW k \in 0 .. m + 1 PROVE g[k] = IF k = 0 THEN x ELSE d[k][g[k - 1]]
    <3>1. CASE k = m + 1
      <4>1. g[k] = d[m + 1][f[m]] /\ g[k - 1] = f[m] /\ k # 0
        BY <3>1
      <4> QED
        BY <3>1, <4>1
    <3>2. CASE k # m + 1
      <4>1. k \in 0 .. m /\ g[k] = f[k]
        BY <3>2
      <4>2. k # 0 => g[k - 1] = f[k - 1]
        BY <4>1
      <4> QED
        BY <2>4, <4>1, <4>2
    <3> QED
      BY <3>1, <3>2
  <2>6. Recursion(g, m + 1, x, d)
    BY <2>5 DEF Recursion
  <2> HIDE DEF g
  <2> QED
    BY <2>3, <2>6
<1>3. n \in S
  <2> HIDE DEF S
  <2> QED BY <1>1, <1>2, SetInduction
<1> QED
  BY <1>3

(* What such a recursion has at each place.                                *)
LEMMA RecursionStays ==
    ASSUME NEW n \in Nat, NEW X, NEW f, f[0] \in X[0],
           \A k \in 1 .. n : f[k - 1] \in X[k - 1] => f[k] \in X[k]
    PROVE  \A k \in 0 .. n : f[k] \in X[k]
<1> DEFINE S == {m \in Nat : m <= n => f[m] \in X[m]}
<1>1. 0 \in S
  OBVIOUS
<1>2. ASSUME NEW m \in Nat, m \in S PROVE m + 1 \in S
  <2> SUFFICES ASSUME m + 1 <= n PROVE f[m + 1] \in X[m + 1]
    OBVIOUS
  <2>1. m + 1 \in 1 .. n /\ (m + 1) - 1 = m /\ f[m] \in X[m]
    BY <1>2
  <2> QED
    BY <2>1
<1>3. Nat \subseteq S
  <2> HIDE DEF S
  <2> QED BY <1>1, <1>2, SetInduction
<1> QED
  BY <1>3

-----------------------------------------------------------------------------
(* Sequences of parts and their beginnings.                                *)

LEMMA Beginning ==
    ASSUME NEW p \in Seq(Segments), NEW h \in 0 .. Len(p)
    PROVE  /\ SubSeq(p, 1, h) \in Seq(Segments) /\ Len(SubSeq(p, 1, h)) = h
           /\ \A i \in 1 .. h : SubSeq(p, 1, h)[i] = p[i]
OBVIOUS

LEMMA SameParts ==
    ASSUME NEW p \in Seq(Segments), NEW q \in Seq(Segments), Len(p) = Len(q),
           \A i \in 1 .. Len(p) : p[i] = q[i]
    PROVE  p = q
OBVIOUS

LEMMA PrefixIs ==
    ASSUME NEW a \in Seq(Segments), NEW p \in Seq(Segments)
    PROVE  IsPrefix(a, p) <=> Len(a) <= Len(p) /\ \A i \in 1 .. Len(a) : a[i] = p[i]
<1>1. CASE Len(a) <= Len(p)
  <2>1. /\ SubSeq(a, 1, Len(a)) \in Seq(Segments) /\ Len(SubSeq(a, 1, Len(a))) = Len(a)
        /\ \A i \in 1 .. Len(a) : SubSeq(a, 1, Len(a))[i] = a[i]
    BY Beginning
  <2>2. /\ SubSeq(p, 1, Len(a)) \in Seq(Segments) /\ Len(SubSeq(p, 1, Len(a))) = Len(a)
        /\ \A i \in 1 .. Len(a) : SubSeq(p, 1, Len(a))[i] = p[i]
    BY <1>1, Beginning
  <2>3. ASSUME \A i \in 1 .. Len(a) : a[i] = p[i]
        PROVE  SubSeq(a, 1, Len(a)) = SubSeq(p, 1, Len(a))
    <3>1. \A i \in 1 .. Len(a) : SubSeq(a, 1, Len(a))[i] = SubSeq(p, 1, Len(a))[i]
      BY <2>1, <2>2, <2>3
    <3> QED
      BY <2>1, <2>2, <3>1, SameParts
  <2> QED
    BY <1>1, <2>1, <2>2, <2>3 DEF IsPrefix
<1>2. CASE ~(Len(a) <= Len(p))
  BY <1>2 DEF IsPrefix
<1> QED
  BY <1>1, <1>2

LEMMA OnePartMore ==
    ASSUME NEW p \in Seq(Segments), NEW e \in Segments
    PROVE  /\ Append(p, e) \in Seq(Segments) /\ Len(Append(p, e)) = Len(p) + 1
           /\ \A i \in 1 .. Len(p) : Append(p, e)[i] = p[i]
           /\ Append(p, e)[Len(p) + 1] = e
           /\ Append(p, e) # <<>> /\ Last(Append(p, e)) = e
BY DEF Last

-----------------------------------------------------------------------------
(* parsePattern: no part is empty, and only the last can begin with '*'.   *)

Canonical == {p \in Seq(Segments) : /\ \A i \in 1 .. Len(p) : p[i] # Empty
                                  /\ \A i \in 1 .. Len(p) - 1 : p[i] \notin CatchAlls}

Kept(f, segs) ==
    f = [k \in 0 .. Len(segs) |->
            IF k = 0 THEN <<>>
            ELSE LET parts == f[k - 1]
                 IN  IF segs[k] = Empty \/ Ends(parts) THEN parts ELSE Append(parts, segs[k])]

LEMMA KeepOne ==
    ASSUME NEW p \in Canonical, NEW e \in Segments, e # Empty, ~Ends(p)
    PROVE  Append(p, e) \in Canonical
<1>1. p \in Seq(Segments) /\ (\A i \in 1 .. Len(p) : p[i] # Empty) /\ Len(p) \in Nat
      /\ \A i \in 1 .. Len(p) - 1 : p[i] \notin CatchAlls
  BY DEF Canonical
<1>2. Len(p) # 0 => p[Len(p)] \notin CatchAlls
  BY <1>1 DEF Ends, Last
<1>3. /\ Append(p, e) \in Seq(Segments) /\ Len(Append(p, e)) = Len(p) + 1
      /\ \A i \in 1 .. Len(p) : Append(p, e)[i] = p[i]
      /\ Append(p, e)[Len(p) + 1] = e
  BY <1>1, OnePartMore
<1>4. \A i \in 1 .. Len(Append(p, e)) : Append(p, e)[i] # Empty
  BY <1>1, <1>3
<1>5. \A i \in 1 .. Len(Append(p, e)) - 1 : Append(p, e)[i] \notin CatchAlls
  BY <1>1, <1>2, <1>3
<1> QED
  BY <1>3, <1>4, <1>5 DEF Canonical

LEMMA KeptIs ==
    ASSUME NEW segs \in Seq(Segments)
    PROVE  \E f : /\ Kept(f, segs) /\ parsePattern(segs) = f[Len(segs)]
                  /\ \A k \in 0 .. Len(segs) : f[k] \in Canonical
<1> DEFINE n == Len(segs)
           X == [k \in 0 .. n |-> Canonical]
           Step(k, v) == IF segs[k] = Empty \/ Ends(v) THEN v ELSE Append(v, segs[k])
           d == [k \in 1 .. n |-> [v \in Canonical |-> Step(k, v)]]
<1>1. n \in Nat /\ <<>> \in X[0]
  BY DEF Canonical
<1>2. \A k \in 1 .. n : \A v \in Canonical : Step(k, v) \in Canonical
  BY KeepOne
<1>3. \A k \in 1 .. n : \A v \in X[k - 1] : v \in Canonical /\ d[k][v] = Step(k, v) /\ d[k][v] \in X[k]
  BY <1>2
<1>4. PICK g : Recursion(g, n, <<>>, d) /\ \A k \in 0 .. n : g[k] \in X[k]
  <2> HIDE DEF n, d, X
  <2> QED BY <1>1, <1>3, RecursionExists
<1>5. Kept(g, segs)
  <2>1. g = [k \in 0 .. n |-> IF k = 0 THEN <<>> ELSE d[k][g[k - 1]]]
    BY <1>4 DEF Recursion
  <2>2. \A k \in 0 .. n : k # 0 => d[k][g[k - 1]] = Step(k, g[k - 1])
    BY <1>3, <1>4
  <2> QED
    BY <2>1, <2>2 DEF Kept
<1> DEFINE f == CHOOSE f : Kept(f, segs)
<1>6. Kept(f, segs)
  BY <1>5
<1>7. parsePattern(segs) = f[n]
  BY DEF parsePattern, Kept
<1> HIDE DEF f
<1>8. \A k \in 0 .. n : f[k] = IF k = 0 THEN <<>> ELSE Step(k, f[k - 1])
  BY <1>6 DEF Kept
<1>9. \A k \in 0 .. n : f[k] \in X[k]
  <2>1. f[0] \in X[0]
    BY <1>1, <1>8
  <2>2. \A k \in 1 .. n : f[k - 1] \in X[k - 1] => f[k] \in X[k]
    BY <1>2, <1>8
  <2> HIDE DEF n, X
  <2> QED BY <1>1, <2>1, <2>2, RecursionStays
<1>10. \A k \in 0 .. Len(segs) : f[k] \in Canonical
  BY <1>9
<1> QED
  BY <1>6, <1>7, <1>10

LEMMA Parsed ==
    ASSUME NEW segs \in Seq(Segments)
    PROVE  parsePattern(segs) \in Canonical
<1>1. Len(segs) \in 0 .. Len(segs)
  OBVIOUS
<1> QED
  BY <1>1, KeptIs

-----------------------------------------------------------------------------
(* insert: the nodes are the beginnings of the routes, the kids of each    *)
(* are its continuations, in the order of their first registration.        *)

LEMMA NonePrefix ==
    ASSUME NEW p \in Seq(Segments)
    PROVE  <<>> \in Seq(Segments) /\ IsPrefix(<<>>, p)
<1> DEFINE a == <<>>
<1>1. a \in Seq(Segments) /\ Len(a) = 0 /\ Len(p) \in Nat
  OBVIOUS
<1> HIDE DEF a
<1>2. Len(a) <= Len(p) /\ \A i \in 1 .. Len(a) : a[i] = p[i]
  BY <1>1
<1>3. IsPrefix(a, p)
  BY <1>1, <1>2, PrefixIs
<1> QED
  BY <1>1, <1>3 DEF a

LEMMA PrefixStep ==
    ASSUME NEW at \in Seq(Segments), NEW e \in Segments, NEW p \in Seq(Segments)
    PROVE  IsPrefix(Append(at, e), p) <=>
              IsPrefix(at, p) /\ at # p /\ Len(at) + 1 \in 1 .. Len(p) /\ e = p[Len(at) + 1]
<1> DEFINE b == Append(at, e)
<1>1. /\ b \in Seq(Segments) /\ Len(b) = Len(at) + 1 /\ b[Len(at) + 1] = e
      /\ \A i \in 1 .. Len(at) : b[i] = at[i]
  BY OnePartMore
<1> HIDE DEF b
<1>2. IsPrefix(at, p) <=> Len(at) <= Len(p) /\ \A i \in 1 .. Len(at) : at[i] = p[i]
  BY PrefixIs
<1>3. IsPrefix(b, p) <=> Len(b) <= Len(p) /\ \A i \in 1 .. Len(b) : b[i] = p[i]
  BY <1>1, PrefixIs
<1>4. Len(at) \in Nat /\ Len(p) \in Nat
  OBVIOUS
<1>5. ASSUME IsPrefix(b, p)
      PROVE  IsPrefix(at, p) /\ at # p /\ Len(at) + 1 \in 1 .. Len(p) /\ e = p[Len(at) + 1]
  BY <1>1, <1>2, <1>3, <1>4, <1>5
<1>6. ASSUME IsPrefix(at, p), Len(at) + 1 \in 1 .. Len(p), e = p[Len(at) + 1]
      PROVE  IsPrefix(b, p)
  <2>1. \A i \in 1 .. Len(b) : i \in 1 .. Len(at) \/ i = Len(at) + 1
    BY <1>1, <1>4
  <2> QED
    BY <1>1, <1>2, <1>3, <1>4, <1>6, <2>1
<1> QED
  BY <1>5, <1>6 DEF b

LEMMA PrefixGrows ==
    ASSUME NEW at \in Seq(Segments), NEW p \in Seq(Segments), IsPrefix(at, p), at # p
    PROVE  Len(at) + 1 \in 1 .. Len(p) /\ p[Len(at) + 1] \in Segments
<1>1. Len(at) <= Len(p) /\ \A i \in 1 .. Len(at) : at[i] = p[i]
  BY PrefixIs
<1>2. Len(at) # Len(p)
  BY <1>1, SameParts
<1> QED
  BY <1>1, <1>2

LEMMA BeginningsArePrefixes ==
    ASSUME NEW p \in Seq(Segments)
    PROVE  {SubSeq(p, 1, h) : h \in 0 .. Len(p)} = {at \in Seq(Segments) : IsPrefix(at, p)}
<1>1. ASSUME NEW h \in 0 .. Len(p)
      PROVE  SubSeq(p, 1, h) \in Seq(Segments) /\ IsPrefix(SubSeq(p, 1, h), p)
  <2> DEFINE a == SubSeq(p, 1, h)
  <2>1. a \in Seq(Segments) /\ Len(a) = h /\ \A i \in 1 .. h : a[i] = p[i]
    BY Beginning
  <2> HIDE DEF a
  <2>2. IsPrefix(a, p)
    BY <2>1, PrefixIs
  <2> QED
    BY <2>1, <2>2 DEF a
<1>2. ASSUME NEW at \in Seq(Segments), IsPrefix(at, p)
      PROVE  Len(at) \in 0 .. Len(p) /\ at = SubSeq(p, 1, Len(at))
  <2>1. Len(at) \in 0 .. Len(p) /\ \A i \in 1 .. Len(at) : at[i] = p[i]
    BY <1>2, PrefixIs
  <2>2. /\ SubSeq(p, 1, Len(at)) \in Seq(Segments) /\ Len(SubSeq(p, 1, Len(at))) = Len(at)
        /\ \A i \in 1 .. Len(at) : SubSeq(p, 1, Len(at))[i] = p[i]
    BY <2>1, Beginning
  <2> QED
    BY <2>1, <2>2, SameParts
<1> QED
  BY <1>1, <1>2

Nodes(R, k) == {at \in Seq(Segments) : at = <<>> \/ \E i \in 1 .. k : IsPrefix(at, R[i])}

FirstBy(R, k, a, b) ==
    \E m \in 1 .. k : IsPrefix(a, R[m]) /\ \A l \in 1 .. m : ~IsPrefix(b, R[l])

Planted(t, R, k) ==
    /\ t.kids \in [Nodes(R, k) -> Seq(Segments)]
    /\ \A at \in Nodes(R, k), e \in Segments :
          Contains(t.kids[at], e) <=> Append(at, e) \in Nodes(R, k)
    /\ \A at \in Nodes(R, k) : \A i, j \in 1 .. Len(t.kids[at]) :
          i < j => /\ t.kids[at][i] # t.kids[at][j]
                   /\ FirstBy(R, k, Append(at, t.kids[at][i]), Append(at, t.kids[at][j]))
    /\ t.leaf = {R[i] : i \in 1 .. k}

LEMMA NodesAbove ==
    ASSUME NEW R \in Seq(Seq(Segments)), NEW k \in 0 .. Len(R),
           NEW at \in Seq(Segments), NEW e \in Segments, Append(at, e) \in Nodes(R, k)
    PROVE  at \in Nodes(R, k)
<1>1. Append(at, e) # <<>>
  BY OnePartMore
<1>2. PICK i \in 1 .. k : IsPrefix(Append(at, e), R[i])
  BY <1>1 DEF Nodes
<1>3. R[i] \in Seq(Segments)
  OBVIOUS
<1>4. IsPrefix(at, R[i])
  BY <1>2, <1>3, PrefixStep
<1> QED
  BY <1>4 DEF Nodes

LEMMA NodesMore ==
    ASSUME NEW R \in Seq(Seq(Segments)), NEW k \in 1 .. Len(R)
    PROVE  Nodes(R, k) = Nodes(R, k - 1) \cup {at \in Seq(Segments) : IsPrefix(at, R[k])}
<1>1. \A i : i \in 1 .. k <=> i \in 1 .. k - 1 \/ i = k
  OBVIOUS
<1>2. R[k] \in Seq(Segments)
  OBVIOUS
<1> QED
  BY <1>1 DEF Nodes

LEMMA InsertPlants ==
    ASSUME NEW R \in Seq(Seq(Segments)), NEW k \in 1 .. Len(R), NEW t, Planted(t, R, k - 1)
    PROVE  Planted(insert(t, R[k]), R, k)
<1> DEFINE parts == R[k]
           way == {SubSeq(parts, 1, h) : h \in 0 .. Len(parts)}
           old == Nodes(R, k - 1)
           new == Nodes(R, k)
           Kids(at) == IF at \in DOMAIN t.kids THEN t.kids[at] ELSE <<>>
           Grows(at) == at \in way /\ at # parts /\ ~Contains(Kids(at), parts[Len(at) + 1])
           u == insert(t, parts)
<1>1. /\ t.kids \in [old -> Seq(Segments)]
      /\ \A at \in old, e \in Segments : Contains(t.kids[at], e) <=> Append(at, e) \in old
      /\ \A at \in old : \A i, j \in 1 .. Len(t.kids[at]) :
            i < j => /\ t.kids[at][i] # t.kids[at][j]
                     /\ FirstBy(R, k - 1, Append(at, t.kids[at][i]), Append(at, t.kids[at][j]))
      /\ t.leaf = {R[i] : i \in 1 .. k - 1}
  BY DEF Planted
<1>2. /\ u.kids = [at \in DOMAIN t.kids \cup way |->
                      IF Grows(at) THEN Append(Kids(at), parts[Len(at) + 1]) ELSE Kids(at)]
      /\ u.leaf = t.leaf \cup {parts}
  BY DEF insert
<1>3. parts \in Seq(Segments) /\ way = {at \in Seq(Segments) : IsPrefix(at, parts)}
  BY BeginningsArePrefixes
<1>4. new = old \cup way /\ old \subseteq Seq(Segments) /\ DOMAIN t.kids = old
  <2>1. new = old \cup {at \in Seq(Segments) : IsPrefix(at, parts)}
    BY NodesMore
  <2>2. old \subseteq Seq(Segments)
    BY DEF Nodes
  <2> HIDE DEF way, old, new, parts
  <2> QED
    BY <1>1, <1>3, <2>1, <2>2
<1>5. /\ u.kids = [at \in new |->
                      IF Grows(at) THEN Append(Kids(at), parts[Len(at) + 1]) ELSE Kids(at)]
      /\ new \subseteq Seq(Segments)
  <2> HIDE DEF Grows, Kids, way, old, new
  <2> QED BY <1>2, <1>3, <1>4, Zenon
<1> HIDE DEF u
<1>6. \A at \in new : Kids(at) \in Seq(Segments)
  BY <1>1, <1>4
<1>7. ASSUME NEW at \in new, Grows(at)
      PROVE  Len(at) + 1 \in 1 .. Len(parts) /\ parts[Len(at) + 1] \in Segments
  BY <1>3, <1>5, <1>7, PrefixGrows
<1> HIDE DEF way, parts
<1>8. u.kids \in [new -> Seq(Segments)]
  <2>1. \A at \in new : u.kids[at] \in Seq(Segments)
    <3> HIDE DEF Kids, Grows, new
    <3> QED BY <1>5, <1>6, <1>7, OnePartMore
  <2> HIDE DEF Kids, Grows, new
  <2> QED
    BY <1>5, <2>1
<1>9. ASSUME NEW at \in new, NEW e \in Segments
      PROVE  Contains(Kids(at), e) <=> Append(at, e) \in old
  <2>1. CASE at \in old
    BY <1>1, <1>4, <2>1
  <2>2. CASE at \notin old
    <3>1. k - 1 \in 0 .. Len(R) /\ at \in Seq(Segments)
      BY <1>5
    <3> HIDE DEF Kids, new, Grows
    <3>2. Append(at, e) \notin old
      BY <2>2, <3>1, NodesAbove
    <3>3. Kids(at) = <<>>
      BY <1>4, <2>2 DEF Kids
    <3>4. ~Contains(<<>>, e)
      BY DEF Contains
    <3> HIDE DEF old
    <3> QED
      BY <3>2, <3>3, <3>4
  <2> QED
    BY <2>1, <2>2
<1>10. ASSUME NEW at \in new, NEW e \in Segments
       PROVE  Append(at, e) \in way <=> at \in way /\ at # parts /\ e = parts[Len(at) + 1]
  <2>1. at \in Seq(Segments) /\ Append(at, e) \in Seq(Segments)
    BY <1>5, OnePartMore
  <2>2. IsPrefix(Append(at, e), parts) <=>
          IsPrefix(at, parts) /\ at # parts /\ Len(at) + 1 \in 1 .. Len(parts) /\ e = parts[Len(at) + 1]
    BY <1>3, <2>1, PrefixStep
  <2>3. IsPrefix(at, parts) /\ at # parts => Len(at) + 1 \in 1 .. Len(parts)
    BY <1>3, <2>1, PrefixGrows
  <2>4. (at \in way <=> IsPrefix(at, parts)) /\ (Append(at, e) \in way <=> IsPrefix(Append(at, e), parts))
    BY <1>3, <2>1, Zenon
  <2> QED
    BY <2>2, <2>3, <2>4, Zenon
<1>11. ASSUME NEW at \in new, NEW e \in Segments
       PROVE  Contains(u.kids[at], e) <=> Append(at, e) \in new
  <2> DEFINE p == parts[Len(at) + 1]
  <2>1. Append(at, e) \in new <=> Append(at, e) \in old \/ Append(at, e) \in way
    BY <1>4
  <2>2. CASE Grows(at)
    <3>1. u.kids[at] = Append(Kids(at), p)
      BY <1>5, <2>2
    <3>2. p \in Segments /\ Kids(at) \in Seq(Segments)
      BY <1>6, <1>7, <2>2
    <3>3. Contains(Append(Kids(at), p), e) <=> Contains(Kids(at), e) \/ e = p
      <4> DEFINE s == Kids(at)
      <4>1. s \in Seq(Segments)
        BY <3>2
      <4> HIDE DEF s, p
      <4>2. /\ Len(Append(s, p)) = Len(s) + 1 /\ Len(s) \in Nat
            /\ \A i \in 1 .. Len(s) : Append(s, p)[i] = s[i]
            /\ Append(s, p)[Len(s) + 1] = p
        BY <3>2, <4>1, OnePartMore
      <4>3. \A i \in 1 .. Len(s) + 1 : i \in 1 .. Len(s) \/ i = Len(s) + 1
        BY <4>2
      <4>4. Contains(Append(s, p), e) <=> Contains(s, e) \/ e = p
        BY <4>2, <4>3 DEF Contains
      <4> QED
        BY <4>4 DEF s
    <3>4. Append(at, e) \in way <=> e = p
      BY <1>10, <2>2
    <3> HIDE DEF Kids, old, new, p
    <3> QED
      BY <1>9, <2>1, <3>1, <3>3, <3>4
  <2>3. CASE ~Grows(at)
    <3>1. u.kids[at] = Kids(at)
      BY <1>5, <2>3
    <3>2. Append(at, e) \in way => Contains(Kids(at), e)
      BY <1>10, <2>3
    <3> HIDE DEF Kids, old, new
    <3> QED
      BY <1>9, <2>1, <3>1, <3>2
  <2> QED
    BY <2>2, <2>3
<1>12. ASSUME NEW a, NEW b, FirstBy(R, k - 1, a, b)
       PROVE  FirstBy(R, k, a, b)
  BY <1>12 DEF FirstBy
<1>13. ASSUME NEW at \in new, NEW i \in 1 .. Len(Kids(at)), NEW j \in 1 .. Len(Kids(at)), i < j
       PROVE  /\ Kids(at)[i] # Kids(at)[j]
              /\ FirstBy(R, k, Append(at, Kids(at)[i]), Append(at, Kids(at)[j]))
  <2>1. at \in old /\ Kids(at) = t.kids[at]
    BY <1>4
  <2> HIDE DEF Kids, old, new
  <2> QED
    BY <1>1, <1>12, <1>13, <2>1
<1>14. ASSUME NEW at \in new, Grows(at), NEW i \in 1 .. Len(Kids(at))
       PROVE  /\ Kids(at)[i] # parts[Len(at) + 1]
              /\ FirstBy(R, k, Append(at, Kids(at)[i]), Append(at, parts[Len(at) + 1]))
  <2> DEFINE e == Kids(at)[i]
             p == parts[Len(at) + 1]
  <2>1. e \in Segments /\ p \in Segments /\ at \in Seq(Segments)
    BY <1>5, <1>6, <1>7, <1>14
  <2>2. Contains(Kids(at), e) /\ ~Contains(Kids(at), p)
    BY <1>14 DEF Contains
  <2>3. Append(at, e) \in old /\ Append(at, p) \notin old
    BY <1>9, <2>1, <2>2
  <2>4. Append(at, e) # <<>> /\ Append(at, p) \in Seq(Segments)
    BY <2>1, OnePartMore
  <2> HIDE DEF e, p
  <2>5. PICK m \in 1 .. k - 1 : IsPrefix(Append(at, e), R[m])
    BY <2>3, <2>4 DEF Nodes
  <2>6. \A l \in 1 .. m : ~IsPrefix(Append(at, p), R[l])
    BY <2>3, <2>4 DEF Nodes
  <2>7. FirstBy(R, k, Append(at, e), Append(at, p))
    BY <2>5, <2>6 DEF FirstBy
  <2>8. e # p
    BY <2>2
  <2> QED
    BY <2>7, <2>8 DEF e, p
<1>15. ASSUME NEW at \in new, NEW i \in 1 .. Len(u.kids[at]), NEW j \in 1 .. Len(u.kids[at]), i < j
       PROVE  /\ u.kids[at][i] # u.kids[at][j]
              /\ FirstBy(R, k, Append(at, u.kids[at][i]), Append(at, u.kids[at][j]))
  <2>1. CASE Grows(at)
    <3> DEFINE p == parts[Len(at) + 1]
               s == Kids(at)
    <3>1. u.kids[at] = Append(s, p) /\ s \in Seq(Segments) /\ p \in Segments
      BY <1>5, <1>6, <1>7, <2>1
    <3>2. /\ \A x \in 1 .. Len(s) : s[x] # p /\ FirstBy(R, k, Append(at, s[x]), Append(at, p))
      BY <1>14, <2>1
    <3>3. \A x, y \in 1 .. Len(s) :
             x < y => s[x] # s[y] /\ FirstBy(R, k, Append(at, s[x]), Append(at, s[y]))
      BY <1>13
    <3> HIDE DEF s, p
    <3>4. /\ Len(Append(s, p)) = Len(s) + 1 /\ Len(s) \in Nat
          /\ \A x \in 1 .. Len(s) : Append(s, p)[x] = s[x]
          /\ Append(s, p)[Len(s) + 1] = p
      BY <3>1, OnePartMore
    <3>5. i \in 1 .. Len(s) /\ (j \in 1 .. Len(s) \/ j = Len(s) + 1)
      BY <1>15, <3>1, <3>4
    <3>6. u.kids[at][i] = s[i] /\ u.kids[at][j] = IF j \in 1 .. Len(s) THEN s[j] ELSE p
      BY <3>1, <3>4, <3>5
    <3>7. CASE j \in 1 .. Len(s)
      BY <1>15, <3>3, <3>5, <3>6, <3>7
    <3>8. CASE j \notin 1 .. Len(s)
      BY <3>2, <3>5, <3>6, <3>8
    <3> QED
      BY <3>7, <3>8
  <2>2. CASE ~Grows(at)
    <3>1. u.kids[at] = Kids(at)
      BY <1>5, <2>2
    <3> QED
      BY <1>13, <1>15, <3>1
  <2> QED
    BY <2>1, <2>2
<1>16. u.leaf = {R[i] : i \in 1 .. k}
  <2>1. \A i : i \in 1 .. k <=> i \in 1 .. k - 1 \/ i = k
    OBVIOUS
  <2> QED
    BY <1>1, <1>2, <2>1 DEF parts
<1>17. Planted(u, R, k)
  <2> HIDE DEF Kids, Grows, old
  <2> QED BY <1>8, <1>11, <1>15, <1>16 DEF Planted
<1> QED
  BY <1>17 DEF u, parts

-----------------------------------------------------------------------------
(* The table: of the routes that are equal, the last has its handler there.*)

Parsing(patterns) == [i \in 1 .. Len(patterns) |-> parsePattern(patterns[i])]

Registered(h, R, k) ==
    /\ DOMAIN h = {R[i] : i \in 1 .. k}
    /\ \A p \in DOMAIN h : /\ h[p] \in 1 .. k /\ R[h[p]] = p
                           /\ \A i \in h[p] + 1 .. k : R[i] # p

FunctionsOn(S, T) == UNION {[D -> T] : D \in SUBSET S}

Tables == [trie : [kids : FunctionsOn(Seq(Segments), Seq(Segments)), leaf : SUBSET Seq(Segments)],
           handlers : FunctionsOn(Seq(Segments), Nat)]

LEMMA ParsingIs ==
    ASSUME NEW patterns \in Seq(Seq(Segments))
    PROVE  /\ Parsing(patterns) \in Seq(Seq(Segments)) /\ Len(Parsing(patterns)) = Len(patterns)
           /\ \A i \in 1 .. Len(patterns) : Parsing(patterns)[i] = parsePattern(patterns[i])
           /\ \A i \in 1 .. Len(patterns) : Parsing(patterns)[i] \in Canonical
<1>1. \A i \in 1 .. Len(patterns) : parsePattern(patterns[i]) \in Canonical
  BY Parsed
<1>2. Canonical \subseteq Seq(Segments)
  BY DEF Canonical
<1>3. \A i \in 1 .. Len(patterns) : parsePattern(patterns[i]) \in Seq(Segments)
  BY <1>1, <1>2
<1> QED
  BY <1>1, <1>3 DEF Parsing

LEMMA AddRouteRegisters ==
    ASSUME NEW patterns \in Seq(Seq(Segments)), NEW R, R = Parsing(patterns),
           NEW k \in 1 .. Len(patterns), NEW r,
           Planted(r.trie, R, k - 1), Registered(r.handlers, R, k - 1)
    PROVE  /\ addRoute(r, patterns[k], k) \in Tables
           /\ Planted(addRoute(r, patterns[k], k).trie, R, k)
           /\ Registered(addRoute(r, patterns[k], k).handlers, R, k)
<1> DEFINE parts == R[k]
           h == [key \in DOMAIN r.handlers \cup {parts} |->
                      IF key = parts THEN k ELSE r.handlers[key]]
           u == insert(r.trie, parts)
<1>1. R \in Seq(Seq(Segments)) /\ Len(R) = Len(patterns) /\ parts = parsePattern(patterns[k])
  BY ParsingIs
<1>2. addRoute(r, patterns[k], k) = [trie |-> u, handlers |-> h]
  BY <1>1 DEF addRoute
<1>3. Planted(u, R, k)
  BY <1>1, InsertPlants
<1>4. \A i : i \in 1 .. k <=> i \in 1 .. k - 1 \/ i = k
  OBVIOUS
<1>5. DOMAIN h = {R[i] : i \in 1 .. k}
  BY <1>4 DEF Registered
<1>6. ASSUME NEW p \in DOMAIN h
      PROVE  /\ h[p] \in 1 .. k /\ R[h[p]] = p
             /\ \A i \in h[p] + 1 .. k : R[i] # p
  <2>1. CASE p = parts
    <3>1. h[p] = k
      BY <2>1
    <3> QED
      BY <2>1, <3>1
  <2>2. CASE p # parts
    <3>1. p \in DOMAIN r.handlers /\ h[p] = r.handlers[p]
      BY <1>6, <2>2
    <3>2. /\ r.handlers[p] \in 1 .. k - 1 /\ R[r.handlers[p]] = p
          /\ \A i \in r.handlers[p] + 1 .. k - 1 : R[i] # p
      BY <3>1 DEF Registered
    <3> HIDE DEF h
    <3>3. h[p] \in 1 .. k /\ R[h[p]] = p
      BY <3>1, <3>2
    <3>4. \A i \in h[p] + 1 .. k : i \in h[p] + 1 .. k - 1 \/ i = k
      BY <3>3
    <3> QED
      BY <2>2, <3>1, <3>2, <3>3, <3>4 DEF parts
  <2> QED
    BY <2>1, <2>2
<1>7. Registered(h, R, k)
  <2> HIDE DEF h
  <2> QED BY <1>5, <1>6 DEF Registered
<1>8. \A i \in 1 .. k : R[i] \in Seq(Segments)
  BY <1>1
<1>9. h \in FunctionsOn(Seq(Segments), Nat)
  <2>1. DOMAIN h \subseteq Seq(Segments) /\ \A p \in DOMAIN h : h[p] \in Nat
    <3>1. \A p \in DOMAIN h : h[p] \in 1 .. k
      BY <1>6
    <3> HIDE DEF h
    <3>2. DOMAIN h \subseteq Seq(Segments)
      BY <1>5, <1>8
    <3> QED
      BY <3>1, <3>2
  <2>2. h \in [DOMAIN h -> Nat]
    BY <2>1
  <2> HIDE DEF h
  <2> QED
    BY <2>1, <2>2 DEF FunctionsOn
<1>10. u.kids \in FunctionsOn(Seq(Segments), Seq(Segments)) /\ u.leaf \in SUBSET Seq(Segments)
  <2>1. u.kids \in [Nodes(R, k) -> Seq(Segments)] /\ u.leaf = {R[i] : i \in 1 .. k}
    BY <1>3 DEF Planted
  <2>2. Nodes(R, k) \in SUBSET Seq(Segments)
    BY DEF Nodes
  <2> HIDE DEF u
  <2> QED
    BY <1>8, <2>1, <2>2 DEF FunctionsOn
<1>11. u = [kids |-> u.kids, leaf |-> u.leaf]
  BY DEF insert
<1> HIDE DEF h, u
<1>12. u \in [kids : FunctionsOn(Seq(Segments), Seq(Segments)), leaf : SUBSET Seq(Segments)]
  BY <1>10, <1>11
<1>13. [trie |-> u, handlers |-> h] \in Tables
  BY <1>9, <1>12 DEF Tables
<1> QED
  BY <1>2, <1>3, <1>7, <1>13

LEMMA NewRouterIs ==
    ASSUME NEW R
    PROVE  newRouter \in Tables /\ Planted(newRouter.trie, R, 0) /\ Registered(newRouter.handlers, R, 0)
<1> DEFINE t == [kids |-> [at \in {<<>>} |-> <<>>], leaf |-> {}]
           h == [parts \in {} |-> 0]
<1>1. newRouter = [trie |-> t, handlers |-> h]
  BY DEF newRouter, EmptyTrie
<1>2. Nodes(R, 0) = {<<>>} /\ <<>> \in Seq(Segments)
  <2>1. 1 .. 0 = {} /\ <<>> \in Seq(Segments)
    OBVIOUS
  <2> QED
    BY <2>1 DEF Nodes
<1>3. t.kids \in [{<<>>} -> Seq(Segments)] /\ t.leaf = {} /\ t.kids[<<>>] = <<>>
  OBVIOUS
<1>4. \A e \in Segments : ~Contains(<<>>, e) /\ Append(<<>>, e) \notin {<<>>}
  <2>1. ASSUME NEW e \in Segments PROVE Append(<<>>, e) # <<>>
    BY <1>2, OnePartMore
  <2> QED
    BY <2>1 DEF Contains
<1>5. Planted(t, R, 0)
  <2>1. 1 .. 0 = {} /\ Len(<<>>) = 0
    OBVIOUS
  <2>2. t.leaf = {R[i] : i \in 1 .. 0}
    BY <1>3, <2>1
  <2> HIDE DEF t
  <2> QED
    BY <1>2, <1>3, <1>4, <2>1, <2>2 DEF Planted
<1>6. Registered(h, R, 0)
  BY DEF Registered
<1>7. t.kids \in FunctionsOn(Seq(Segments), Seq(Segments)) /\ h \in FunctionsOn(Seq(Segments), Nat)
  <2>1. {<<>>} \in SUBSET Seq(Segments) /\ {} \in SUBSET Seq(Segments) /\ h \in [{} -> Nat]
    BY <1>2
  <2> HIDE DEF t, h
  <2> QED
    BY <1>3, <2>1 DEF FunctionsOn
<1>8. t = [kids |-> t.kids, leaf |-> t.leaf] /\ t.leaf \in SUBSET Seq(Segments)
  OBVIOUS
<1> HIDE DEF t, h
<1>9. t \in [kids : FunctionsOn(Seq(Segments), Seq(Segments)), leaf : SUBSET Seq(Segments)]
  BY <1>7, <1>8
<1>10. [trie |-> t, handlers |-> h] \in Tables
  BY <1>7, <1>9 DEF Tables
<1> QED
  BY <1>1, <1>5, <1>6, <1>10

Made(f, patterns) ==
    f = [k \in 0 .. Len(patterns) |->
            IF k = 0 THEN newRouter ELSE addRoute(f[k - 1], patterns[k], k)]

LEMMA TableIs ==
    ASSUME NEW patterns \in Seq(Seq(Segments)), NEW R, R = Parsing(patterns)
    PROVE  /\ Planted(Table(patterns).trie, R, Len(patterns))
           /\ Registered(Table(patterns).handlers, R, Len(patterns))
<1> DEFINE n == Len(patterns)
           X == [k \in 0 .. n |-> {r \in Tables : Planted(r.trie, R, k) /\ Registered(r.handlers, R, k)}]
           d == [k \in 1 .. n |-> [v \in Tables |-> addRoute(v, patterns[k], k)]]
<1>1. n \in Nat /\ newRouter \in X[0]
  <2>1. n \in Nat /\ 0 \in 0 .. n
    OBVIOUS
  <2> QED
    BY <2>1, NewRouterIs
<1>2. \A k \in 1 .. n : \A v \in X[k - 1] : v \in Tables /\ addRoute(v, patterns[k], k) \in X[k]
  <2> SUFFICES ASSUME NEW k \in 1 .. n, NEW v \in X[k - 1]
               PROVE  v \in Tables /\ addRoute(v, patterns[k], k) \in X[k]
    OBVIOUS
  <2>1. k - 1 \in 0 .. n /\ k \in 0 .. n
    OBVIOUS
  <2>2. v \in Tables /\ Planted(v.trie, R, k - 1) /\ Registered(v.handlers, R, k - 1)
    BY <2>1
  <2> QED
    BY <2>1, <2>2, AddRouteRegisters
<1>3. \A k \in 1 .. n : \A v \in X[k - 1] : d[k][v] = addRoute(v, patterns[k], k) /\ d[k][v] \in X[k]
  <2> HIDE DEF X
  <2> QED BY <1>2
<1>4. PICK g : Recursion(g, n, newRouter, d) /\ \A k \in 0 .. n : g[k] \in X[k]
  <2> HIDE DEF n, d, X
  <2> QED BY <1>1, <1>3, RecursionExists
<1>5. Made(g, patterns)
  <2>1. g = [k \in 0 .. n |-> IF k = 0 THEN newRouter ELSE d[k][g[k - 1]]]
    BY <1>4 DEF Recursion
  <2>2. \A k \in 0 .. n : k # 0 => d[k][g[k - 1]] = addRoute(g[k - 1], patterns[k], k)
    <3>1. \A k \in 0 .. n : k # 0 => k \in 1 .. n /\ k - 1 \in 0 .. n
      OBVIOUS
    <3> HIDE DEF d, X, n
    <3> QED BY <1>3, <1>4, <3>1
  <2> HIDE DEF d
  <2> QED
    BY <2>1, <2>2 DEF Made
<1> DEFINE f == CHOOSE f : Made(f, patterns)
<1>6. Made(f, patterns)
  BY <1>5
<1>7. Table(patterns) = f[n]
  BY DEF Table, Made
<1> HIDE DEF f
<1>8. \A k \in 0 .. n : f[k] = IF k = 0 THEN newRouter ELSE addRoute(f[k - 1], patterns[k], k)
  BY <1>6 DEF Made
<1>9. \A k \in 0 .. n : f[k] \in X[k]
  <2> HIDE DEF X
  <2>1. f[0] \in X[0]
    BY <1>1, <1>8
  <2>2. \A k \in 1 .. n : f[k - 1] \in X[k - 1] => f[k] \in X[k]
    <3>1. \A k \in 1 .. n : k \in 0 .. n /\ k # 0
      OBVIOUS
    <3> HIDE DEF n
    <3> QED BY <1>2, <1>8, <3>1
  <2> HIDE DEF n
  <2> QED BY <1>1, <2>1, <2>2, RecursionStays
<1>10. n \in 0 .. n /\ f[n] \in X[n]
  BY <1>1, <1>9
<1> QED
  BY <1>7, <1>10

-----------------------------------------------------------------------------
(* search: below a node it finds the leaf before all others that match.    *)

OnPath(at, s) == \A i \in 1 .. Len(at) : Wild(at[i]) \/ at[i] = s[i]

LeavesBelow(t, s, at) == {p \in t.leaf : IsPrefix(at, p) /\ Matches(p, s)}

Best(R, s, leaves, F) ==
    IF leaves = {}
    THEN F = {}
    ELSE \E p \in leaves : F = {p} /\ \A q \in leaves \ {p} : Before(R, s, p, q)

Grown(t, R) ==
    /\ R \in Seq(Seq(Segments)) /\ \A i \in 1 .. Len(R) : R[i] \in Canonical
    /\ Planted(t, R, Len(R))

LEMMA BeginningOf ==
    ASSUME NEW a \in Seq(Segments), NEW p \in Seq(Segments), IsPrefix(a, p)
    PROVE  SubSeq(p, 1, Len(a)) = a
<1>1. Len(a) \in 0 .. Len(p) /\ \A i \in 1 .. Len(a) : a[i] = p[i]
  BY PrefixIs
<1>2. /\ SubSeq(p, 1, Len(a)) \in Seq(Segments) /\ Len(SubSeq(p, 1, Len(a))) = Len(a)
      /\ \A i \in 1 .. Len(a) : SubSeq(p, 1, Len(a))[i] = p[i]
  BY <1>1, Beginning
<1> QED
  BY <1>1, <1>2, SameParts

LEMMA LeafIs ==
    ASSUME NEW t, NEW R, Grown(t, R), NEW p \in t.leaf
    PROVE  p \in Canonical /\ p \in Seq(Segments)
BY DEF Grown, Planted, Canonical

LEMMA NothingBehindEnd ==
    ASSUME NEW p \in Canonical, NEW at \in Seq(Segments), Ends(at), IsPrefix(at, p)
    PROVE  p = at
<1>1. p \in Seq(Segments) /\ \A i \in 1 .. Len(p) - 1 : p[i] \notin CatchAlls
  BY DEF Canonical
<1>2. Len(at) <= Len(p) /\ \A i \in 1 .. Len(at) : at[i] = p[i]
  BY <1>1, PrefixIs
<1>3. Len(at) \in 1 .. Len(at) /\ at[Len(at)] \in CatchAlls
  BY DEF Ends, Last
<1>4. Len(at) = Len(p)
  BY <1>1, <1>2, <1>3
<1> QED
  BY <1>1, <1>2, <1>4, SameParts

LEMMA MatchLength ==
    ASSUME NEW p \in Seq(Segments), NEW s \in Seq(Segments)
    PROVE  /\ Matches(p, s) => OnPath(p, s) /\ Len(p) <= Len(s)
           /\ Matches(p, s) /\ ~Ends(p) => Len(p) = Len(s)
           /\ OnPath(p, s) /\ Len(p) = Len(s) => Matches(p, s)
           /\ OnPath(p, s) /\ Len(p) <= Len(s) /\ Ends(p) => Matches(p, s)
BY DEF Matches, OnPath

(* Where the search ends, there is no choice.                              *)
LEMMA BestAtEnd ==
    ASSUME NEW t, NEW R, Grown(t, R), NEW s \in Seq(Segments),
           NEW at \in Seq(Segments), OnPath(at, s), Len(at) <= Len(s),
           Len(at) = Len(s) \/ Ends(at)
    PROVE  Best(R, s, LeavesBelow(t, s, at), {at} \cap t.leaf)
<1>1. ASSUME NEW p \in LeavesBelow(t, s, at) PROVE p = at
  <2>1. p \in t.leaf /\ p \in Canonical /\ p \in Seq(Segments) /\ IsPrefix(at, p) /\ Matches(p, s)
    BY LeafIs DEF LeavesBelow
  <2>2. CASE Ends(at)
    BY <2>1, <2>2, NothingBehindEnd
  <2>3. CASE Len(at) = Len(s)
    <3>1. Len(p) <= Len(s)
      BY <2>1, MatchLength
    <3>2. Len(at) <= Len(p) /\ \A i \in 1 .. Len(at) : at[i] = p[i]
      BY <2>1, PrefixIs
    <3>3. Len(at) = Len(p)
      BY <2>1, <2>3, <3>1, <3>2
    <3> QED
      BY <2>1, <3>2, <3>3, SameParts
  <2> QED
    BY <2>2, <2>3
<1>2. IsPrefix(at, at) /\ Matches(at, s)
  BY PrefixIs, MatchLength
<1>3. LeavesBelow(t, s, at) = {at} \cap t.leaf
  BY <1>1, <1>2 DEF LeavesBelow
<1> QED
  BY <1>3 DEF Best

(* The leaves below a node that is not an end are below its children.      *)
Tried(kids, x, j) == kids[j] = x \/ Wild(kids[j])

BelowChild(t, s, at, j) == LeavesBelow(t, s, Append(at, t.kids[at][j]))

LeavesSplit(t, R, s, at) ==
    /\ t.kids[at] \in Seq(Segments)
    /\ \A p \in LeavesBelow(t, s, at) : \E j \in 1 .. Len(t.kids[at]) :
          Tried(t.kids[at], s[Len(at) + 1], j) /\ p \in BelowChild(t, s, at, j)
    /\ \A j \in 1 .. Len(t.kids[at]) :
          /\ Append(at, t.kids[at][j]) \in Nodes(R, Len(R))
          /\ Len(Append(at, t.kids[at][j])) = Len(at) + 1
          /\ Tried(t.kids[at], s[Len(at) + 1], j) => OnPath(Append(at, t.kids[at][j]), s)
          /\ \A p \in BelowChild(t, s, at, j) :
                p \in LeavesBelow(t, s, at) /\ p[Len(at) + 1] = t.kids[at][j]

LEMMA BelowChildren ==
    ASSUME NEW t, NEW R, Grown(t, R), NEW s \in Seq(Segments),
           NEW at \in Nodes(R, Len(R)), OnPath(at, s), Len(at) < Len(s), ~Ends(at)
    PROVE  LeavesSplit(t, R, s, at)
<1> DEFINE h == Len(at) + 1
           x == s[h]
           kids == t.kids[at]
           N == Nodes(R, Len(R))
<1>1. /\ R \in Seq(Seq(Segments)) /\ t.kids \in [N -> Seq(Segments)]
      /\ \A e \in Segments : Contains(kids, e) <=> Append(at, e) \in N
      /\ t.leaf = {R[i] : i \in 1 .. Len(R)}
  BY DEF Grown, Planted
<1>2. at \in Seq(Segments) /\ kids \in Seq(Segments) /\ h \in 1 .. Len(s)
  BY <1>1 DEF Nodes
<1>3. ASSUME NEW p \in LeavesBelow(t, s, at)
      PROVE  \E j \in 1 .. Len(kids) : Tried(kids, x, j) /\ p \in BelowChild(t, s, at, j)
  <2>1. p \in t.leaf /\ p \in Canonical /\ p \in Seq(Segments) /\ IsPrefix(at, p) /\ Matches(p, s)
    BY LeafIs DEF LeavesBelow
  <2>2. at # p
    <3> SUFFICES ASSUME at = p PROVE FALSE
      OBVIOUS
    <3>1. Len(p) = Len(s)
      BY <2>1, MatchLength
    <3> QED
      BY <1>2, <3>1
  <2>3. h \in 1 .. Len(p) /\ p[h] \in Segments
    BY <1>2, <2>1, <2>2, PrefixGrows
  <2>4. IsPrefix(Append(at, p[h]), p)
    BY <1>2, <2>1, <2>2, <2>3, PrefixStep
  <2>5. Append(at, p[h]) \in N
    <3>1. PICK i \in 1 .. Len(R) : p = R[i]
      BY <1>1, <2>1
    <3>2. Append(at, p[h]) \in Seq(Segments)
      BY <1>2, <2>3, OnePartMore
    <3> QED
      BY <2>4, <3>1, <3>2 DEF Nodes
  <2>6. PICK j \in 1 .. Len(kids) : kids[j] = p[h]
    BY <1>1, <2>3, <2>5 DEF Contains
  <2>7. Tried(kids, x, j)
    BY <2>1, <2>3, <2>6 DEF Matches, Tried
  <2>8. p \in BelowChild(t, s, at, j)
    BY <2>1, <2>4, <2>6 DEF LeavesBelow, BelowChild
  <2> QED
    BY <2>6, <2>7, <2>8
<1>4. ASSUME NEW j \in 1 .. Len(kids)
      PROVE  /\ Append(at, kids[j]) \in N
             /\ Len(Append(at, kids[j])) = Len(at) + 1
             /\ Tried(kids, x, j) => OnPath(Append(at, kids[j]), s)
             /\ \A p \in BelowChild(t, s, at, j) : p \in LeavesBelow(t, s, at) /\ p[Len(at) + 1] = kids[j]
  <2> DEFINE e == kids[j]
             b == Append(at, e)
  <2>1. e \in Segments /\ Contains(kids, e)
    BY <1>2 DEF Contains
  <2>2. b \in N
    BY <1>1, <2>1
  <2>3. /\ b \in Seq(Segments) /\ Len(b) = Len(at) + 1 /\ b[h] = e
        /\ \A i \in 1 .. Len(at) : b[i] = at[i]
    BY <1>2, <2>1, OnePartMore
  <2>4. Tried(kids, x, j) => OnPath(b, s)
    <3>1. \A i \in 1 .. Len(at) + 1 : i \in 1 .. Len(at) \/ i = h
      BY <1>2
    <3> HIDE DEF b, e, x, h
    <3> QED
      BY <2>3, <3>1 DEF OnPath, Tried, e, x
  <2>5. ASSUME NEW p \in BelowChild(t, s, at, j) PROVE p \in LeavesBelow(t, s, at) /\ p[h] = e
    <3>1. p \in t.leaf /\ p \in Seq(Segments) /\ IsPrefix(b, p) /\ Matches(p, s)
      BY LeafIs DEF LeavesBelow, BelowChild
    <3>2. IsPrefix(at, p) /\ e = p[h]
      BY <1>2, <2>1, <3>1, PrefixStep
    <3> QED
      BY <3>1, <3>2 DEF LeavesBelow
  <2> QED
    BY <2>2, <2>3, <2>4, <2>5
<1> QED
  BY <1>2, <1>3, <1>4 DEF LeavesSplit

(* Which child gives the answer.                                           *)
Hits(at, kids, x, below, j) ==
    (kids[j] = x \/ Wild(kids[j])) /\ below[Append(at, kids[j])] # {}

FirstHit(at, kids, x, below, m) ==
    /\ m \in 1 .. Len(kids) /\ Hits(at, kids, x, below, m)
    /\ \A j \in 1 .. Len(kids) :
          Hits(at, kids, x, below, j) /\ j # m => kids[m] = x \/ (kids[j] # x /\ m < j)

FoundFirst(at, kids, x, below, F) ==
    \/ F = {} /\ \A j \in 1 .. Len(kids) : ~Hits(at, kids, x, below, j)
    \/ \E m : FirstHit(at, kids, x, below, m) /\ F = below[Append(at, kids[m])]

LEMMA FirstBelowIs ==
    ASSUME NEW at, NEW kids \in Seq(Segments), NEW x, NEW below
    PROVE  FoundFirst(at, kids, x, below, FirstBelow(at, kids, x, below))
<1> DEFINE Hit(j) == Hits(at, kids, x, below, j)
           F == FirstBelow(at, kids, x, below)
           A == {i \in DOMAIN kids : kids[i] = x}
           B == {i \in DOMAIN kids : kids[i] # x /\ Wild(kids[i])}
           HA == {i \in A : below[Append(at, kids[i])] # {}}
           HB == {i \in B : below[Append(at, kids[i])] # {}}
           hits == IF HA # {} THEN HA ELSE HB
<1>1. F = IF hits = {} THEN {} ELSE below[Append(at, kids[Min(hits)])]
  BY DEF FirstBelow, matchChildren
<1>2. DOMAIN kids = 1 .. Len(kids) /\ hits \subseteq Nat
  <2>1. DOMAIN kids = 1 .. Len(kids)
    OBVIOUS
  <2>2. HA \subseteq DOMAIN kids /\ HB \subseteq DOMAIN kids
    BY Zenon
  <2>3. \A i \in DOMAIN kids : i \in Nat
    BY <2>1
  <2> QED
    BY <2>1, <2>2, <2>3, Zenon
<1>3. \A j \in 1 .. Len(kids) : Hit(j) <=> j \in HA \/ j \in HB
  BY <1>2 DEF Hits
<1>4. CASE hits = {}
  <2>1. F = {}
    BY <1>1, <1>4
  <2> QED
    BY <1>3, <1>4, <2>1 DEF FoundFirst
<1>5. CASE hits # {}
  <2> DEFINE m == Min(hits)
  <2>1. m \in hits /\ \A j \in hits : m <= j
    <3> HIDE DEF hits
    <3> QED BY <1>2, <1>5, LeastOf
  <2>2. F = below[Append(at, kids[m])]
    BY <1>1, <1>5
  <2> HIDE DEF m, F
  <2>3. m \in 1 .. Len(kids) /\ Hit(m)
    BY <1>2, <2>1 DEF Hits
  <2>4. ASSUME NEW j \in 1 .. Len(kids), Hit(j), j # m
        PROVE  kids[m] = x \/ (kids[j] # x /\ m < j)
    <3>1. CASE HA # {}
      BY <2>1, <3>1
    <3>2. CASE HA = {}
      <4>1. hits = HB /\ j \in HB
        BY <1>3, <2>4, <3>2
      <4>2. m <= j /\ m \in Nat
        BY <1>2, <2>1, <4>1
      <4> QED
        BY <2>4, <4>1, <4>2
    <3> QED
      BY <3>1, <3>2
  <2>5. FirstHit(at, kids, x, below, m)
    BY <2>3, <2>4 DEF FirstHit
  <2> QED
    BY <2>2, <2>5 DEF F, FoundFirst
<1> QED
  BY <1>4, <1>5

LEMMA BestBelow ==
    ASSUME NEW t, NEW R, Grown(t, R), NEW s \in Seq(Segments),
           NEW at \in Nodes(R, Len(R)), OnPath(at, s), Len(at) < Len(s), ~Ends(at), NEW below,
           \A b \in Nodes(R, Len(R)) : OnPath(b, s) /\ Len(b) = Len(at) + 1
               => Best(R, s, LeavesBelow(t, s, b), below[b])
    PROVE  Best(R, s, LeavesBelow(t, s, at), FirstBelow(at, t.kids[at], s[Len(at) + 1], below))
<1> DEFINE h == Len(at) + 1
           x == s[h]
           kids == t.kids[at]
           Below(j) == BelowChild(t, s, at, j)
           Hit(j) == Hits(at, kids, x, below, j)
           F == FirstBelow(at, kids, x, below)
           All == LeavesBelow(t, s, at)
<1>1. /\ kids \in Seq(Segments)
      /\ \A p \in All : \E j \in 1 .. Len(kids) : Tried(kids, x, j) /\ p \in Below(j)
      /\ \A j \in 1 .. Len(kids) :
            /\ Append(at, kids[j]) \in Nodes(R, Len(R))
            /\ Len(Append(at, kids[j])) = Len(at) + 1
            /\ Tried(kids, x, j) => OnPath(Append(at, kids[j]), s)
            /\ \A p \in Below(j) : p \in All /\ p[h] = kids[j]
  <2>1. LeavesSplit(t, R, s, at)
    BY BelowChildren
  <2> QED
    BY <2>1 DEF LeavesSplit
<1>2. \/ F = {} /\ \A j \in 1 .. Len(kids) : ~Hit(j)
      \/ \E m : FirstHit(at, kids, x, below, m) /\ F = below[Append(at, kids[m])]
  <2>1. FoundFirst(at, kids, x, below, F)
    BY <1>1, FirstBelowIs
  <2> QED
    BY <2>1, Zenon DEF FoundFirst
<1>3. ASSUME NEW j \in 1 .. Len(kids), Tried(kids, x, j)
      PROVE  Best(R, s, Below(j), below[Append(at, kids[j])])
  BY <1>1, <1>3, Zenon DEF BelowChild
<1>4. ASSUME NEW j \in 1 .. Len(kids), NEW p \in Below(j), Tried(kids, x, j)
      PROVE  Hit(j)
  <2>1. Below(j) # {}
    BY <1>4
  <2>2. below[Append(at, kids[j])] # {}
    BY <1>3, <1>4, <2>1 DEF Best
  <2> QED
    BY <1>4, <2>2 DEF Hits, Tried
<1>5. CASE F = {} /\ \A j \in 1 .. Len(kids) : ~Hit(j)
  <2>1. All = {}
    BY <1>1, <1>4, <1>5
  <2> QED
    BY <1>5, <2>1 DEF Best
<1>6. ASSUME NEW m, FirstHit(at, kids, x, below, m), F = below[Append(at, kids[m])]
      PROVE  Best(R, s, All, F)
  <2>0. /\ m \in 1 .. Len(kids) /\ Tried(kids, x, m) /\ F # {}
        /\ \A j \in 1 .. Len(kids) : Hit(j) /\ j # m => kids[m] = x \/ (kids[j] # x /\ m < j)
    <3> HIDE DEF kids, x, F
    <3>1. Tried(kids, x, m) /\ F # {}
      BY <1>6, Zenon DEF FirstHit, Hits, Tried
    <3> QED
      BY <1>6, <3>1, Zenon DEF FirstHit
  <2>1. PICK p \in Below(m) : F = {p} /\ \A q \in Below(m) \ {p} : Before(R, s, p, q)
    BY <1>3, <1>6, <2>0 DEF Best
  <2>2. p \in All /\ p[h] = kids[m]
    BY <1>1, <2>0
  <2>3. at \in Seq(Segments) /\ R \in Seq(Seq(Segments)) /\ h \in Nat
    BY DEF Nodes, Grown
  <2>4. ASSUME NEW q \in All, q # p PROVE Before(R, s, p, q)
    <3>1. PICK j \in 1 .. Len(kids) : Tried(kids, x, j) /\ q \in Below(j)
      BY <1>1
    <3>2. q[h] = kids[j] /\ Hit(j)
      BY <1>1, <1>4, <3>1
    <3>3. CASE j = m
      BY <2>1, <2>4, <3>1, <3>3
    <3>4. CASE j # m
      <4>1. kids[m] = x \/ (kids[j] # x /\ m < j)
        BY <2>0, <3>2, <3>4
      <4>2. /\ kids[m] # kids[j]
            /\ m < j => FirstBy(R, Len(R), Append(at, kids[m]), Append(at, kids[j]))
        <5>1. \A i, l \in 1 .. Len(kids) :
                 i < l => /\ kids[i] # kids[l]
                          /\ FirstBy(R, Len(R), Append(at, kids[i]), Append(at, kids[l]))
          BY DEF Grown, Planted
        <5>2. m < j \/ j < m
          BY <2>0, <3>4
        <5> HIDE DEF kids
        <5> QED
          BY <2>0, <5>1, <5>2
      <4>3. /\ p \in Seq(Segments) /\ IsPrefix(Append(at, kids[m]), p)
            /\ q \in Seq(Segments) /\ IsPrefix(Append(at, kids[j]), q)
        BY <2>1, <3>1, LeafIs DEF LeavesBelow, BelowChild
      <4>4. kids[m] \in Segments /\ kids[j] \in Segments
        BY <1>1, <2>0
      <4>5. /\ IsPrefix(at, p) /\ h \in 1 .. Len(p)
            /\ IsPrefix(at, q) /\ h \in 1 .. Len(q)
        BY <2>3, <4>3, <4>4, PrefixStep
      <4>6. SubSeq(p, 1, h - 1) = at /\ SubSeq(q, 1, h - 1) = at
        <5>1. h - 1 = Len(at)
          BY <2>3
        <5> QED
          BY <2>3, <4>3, <4>5, <5>1, BeginningOf
      <4>7. SubSeq(p, 1, h) = Append(at, kids[m]) /\ SubSeq(q, 1, h) = Append(at, kids[j])
        <5>1. /\ Append(at, kids[m]) \in Seq(Segments) /\ Len(Append(at, kids[m])) = h
              /\ Append(at, kids[j]) \in Seq(Segments) /\ Len(Append(at, kids[j])) = h
          BY <2>3, <4>4, OnePartMore
        <5> HIDE DEF h
        <5> QED
          BY <4>3, <5>1, BeginningOf
      <4>8. FirstBy(R, Len(R), Append(at, kids[m]), Append(at, kids[j]))
              => Earlier(R, SubSeq(p, 1, h), SubSeq(q, 1, h))
        <5>1. DOMAIN R = 1 .. Len(R)
          BY <2>3
        <5> HIDE DEF h, kids
        <5> QED
          BY <4>7, <5>1, Zenon DEF FirstBy, Earlier
      <4>9. p[h] = x \/ (q[h] # x /\ Earlier(R, SubSeq(p, 1, h), SubSeq(q, 1, h)))
        BY <2>2, <3>2, <4>1, <4>2, <4>8, Zenon
      <4>10. h <= Len(q) /\ p[h] # q[h]
        BY <2>2, <3>2, <4>2, <4>5
      <4> HIDE DEF h
      <4> QED
        BY <4>5, <4>6, <4>9, <4>10 DEF Before, x
    <3> QED
      BY <3>3, <3>4
  <2>5. All # {}
    BY <2>2
  <2> HIDE DEF All, F
  <2> QED
    BY <2>1, <2>2, <2>4, <2>5 DEF Best
<1> QED
  BY <1>2, <1>5, <1>6

Finds(f, t, s) ==
    f = [left \in 0 .. Len(s) |->
          [at \in DOMAIN t.kids |->
              IF left = 0 \/ Ends(at)
              THEN {at} \cap t.leaf
              ELSE FirstBelow(at, t.kids[at], s[Len(s) - left + 1], f[left - 1])]]

(* The search finds nothing when no route matches, or the one that is      *)
(* before all others.                                                      *)
LEMMA SearchFinds ==
    ASSUME NEW t, NEW R, Grown(t, R), NEW s \in Seq(Segments)
    PROVE  Best(R, s, {p \in t.leaf : Matches(p, s)}, search(t, s))
<1> DEFINE n == Len(s)
           N == Nodes(R, Len(R))
           Good(left, v) == \A at \in N : OnPath(at, s) /\ Len(at) = n - left
                               => Best(R, s, LeavesBelow(t, s, at), v[at])
           V == [N -> SUBSET Seq(Segments)]
           X == [left \in 0 .. n |-> {v \in V : Good(left, v)}]
           One(left, v) ==
             [at \in N |->
              IF left = 0 \/ Ends(at)
              THEN {at} \cap t.leaf
              ELSE FirstBelow(at, t.kids[at], s[n - left + 1], v)]
           zero == [at \in N |-> {at} \cap t.leaf]
           d == [left \in 1 .. n |-> [v \in V |-> One(left, v)]]
<1>1. /\ R \in Seq(Seq(Segments)) /\ t.kids \in [N -> Seq(Segments)]
      /\ \A at \in N, e \in Segments : Contains(t.kids[at], e) <=> Append(at, e) \in N
      /\ t.leaf \subseteq Seq(Segments)
      /\ N \subseteq Seq(Segments) /\ <<>> \in N /\ n \in Nat
  <2>1. <<>> \in Seq(Segments) /\ n \in Nat
    OBVIOUS
  <2> QED
    BY <2>1, LeafIs DEF Grown, Planted, Nodes
<1>2. zero \in X[0]
  <2>1. zero \in V
    BY <1>1
  <2>2. Good(0, zero)
    <3> SUFFICES ASSUME NEW at \in N, OnPath(at, s), Len(at) = n - 0
                 PROVE  Best(R, s, LeavesBelow(t, s, at), zero[at])
      OBVIOUS
    <3>1. Len(at) = n /\ at \in Seq(Segments) /\ zero[at] = {at} \cap t.leaf
      BY <1>1
    <3> QED
      BY <1>1, <3>1, BestAtEnd
  <2>3. 0 \in 0 .. n
    BY <1>1
  <2> HIDE DEF zero
  <2> QED
    BY <2>1, <2>2, <2>3
<1>3. ASSUME NEW left \in 1 .. n, NEW v \in X[left - 1]
      PROVE  v \in V /\ One(left, v) \in X[left]
  <2>1. left \in 0 .. n /\ left - 1 \in 0 .. n /\ left # 0
    BY <1>1
  <2>2. v \in V /\ Good(left - 1, v)
    BY <2>1
  <2>3. ASSUME NEW at \in N
        PROVE  FirstBelow(at, t.kids[at], s[n - left + 1], v) \in SUBSET Seq(Segments)
    <3> DEFINE kids == t.kids[at]
               F == FirstBelow(at, kids, s[n - left + 1], v)
    <3>1. kids \in Seq(Segments)
      BY <1>1
    <3>2. F = {} \/ \E m \in 1 .. Len(kids) : F = v[Append(at, kids[m])]
      <4> DEFINE x == s[n - left + 1]
      <4> HIDE DEF kids, x
      <4>1. FoundFirst(at, kids, x, v, FirstBelow(at, kids, x, v))
        BY <3>1, FirstBelowIs
      <4> QED
        BY <4>1, Zenon DEF FoundFirst, FirstHit, x
    <3>3. \A m \in 1 .. Len(kids) : Append(at, kids[m]) \in N
      <4>1. \A m \in 1 .. Len(kids) : kids[m] \in Segments /\ Contains(kids, kids[m])
        BY <3>1 DEF Contains
      <4> QED
        BY <1>1, <4>1
    <3> HIDE DEF F, kids
    <3>4. F \in SUBSET Seq(Segments)
      BY <2>2, <3>2, <3>3
    <3> QED
      BY <3>4 DEF F, kids
  <2>4. One(left, v) \in V
    <3> HIDE DEF N
    <3> QED BY <1>1, <2>3
  <2>5. ASSUME NEW at \in N, OnPath(at, s), Len(at) = n - left
        PROVE  Best(R, s, LeavesBelow(t, s, at), One(left, v)[at])
    <3>1. at \in Seq(Segments) /\ Len(at) < n /\ Len(at) + 1 = n - left + 1 /\ Len(at) + 1 = n - (left - 1)
      BY <1>1, <2>1, <2>5
    <3>2. CASE Ends(at)
      <4>1. One(left, v)[at] = {at} \cap t.leaf
        BY <3>2
      <4> QED
        BY <2>5, <3>1, <3>2, <4>1, BestAtEnd
    <3>3. CASE ~Ends(at)
      <4>1. One(left, v)[at] = FirstBelow(at, t.kids[at], s[Len(at) + 1], v)
        BY <2>1, <3>1, <3>3
      <4>2. \A b \in N : OnPath(b, s) /\ Len(b) = Len(at) + 1 => Best(R, s, LeavesBelow(t, s, b), v[b])
        BY <2>2, <3>1
      <4> HIDE DEF One
      <4>3. Best(R, s, LeavesBelow(t, s, at), FirstBelow(at, t.kids[at], s[Len(at) + 1], v))
        BY <2>5, <3>1, <3>3, <4>2, BestBelow
      <4> QED
        BY <4>1, <4>3, Zenon
    <3> QED
      BY <3>2, <3>3
  <2> HIDE DEF One, V
  <2> QED
    BY <2>1, <2>2, <2>4, <2>5
<1>4. \A left \in 1 .. n : \A v \in X[left - 1] : d[left][v] = One(left, v) /\ d[left][v] \in X[left]
  <2> HIDE DEF X, V, One
  <2> QED BY <1>3
<1>5. PICK g : Recursion(g, n, zero, d) /\ \A left \in 0 .. n : g[left] \in X[left]
  <2> HIDE DEF n, d, X, zero
  <2> QED BY <1>1, <1>2, <1>4, RecursionExists
<1>6. Finds(g, t, s)
  <2>1. g = [left \in 0 .. n |-> IF left = 0 THEN zero ELSE d[left][g[left - 1]]]
    BY <1>5 DEF Recursion
  <2>2. \A left \in 0 .. n : left # 0 => d[left][g[left - 1]] = One(left, g[left - 1])
    <3>1. \A left \in 0 .. n : left # 0 => left \in 1 .. n /\ left - 1 \in 0 .. n
      OBVIOUS
    <3> HIDE DEF d, X, n, One
    <3> QED BY <1>4, <1>5, <3>1
  <2>3. \A left \in 0 .. n : g[left] = One(left, g[left - 1])
    <3>1. One(0, g[0 - 1]) = zero
      OBVIOUS
    <3> HIDE DEF d, One, zero
    <3> QED BY <2>1, <2>2, <3>1
  <2>4. g = [left \in 0 .. n |-> One(left, g[left - 1])]
    <3> HIDE DEF d, One, zero
    <3> QED BY <2>1, <2>3
  <2> HIDE DEF d
  <2> QED
    BY <1>1, <2>4 DEF Finds
<1> DEFINE f == CHOOSE f : Finds(f, t, s)
<1>7. Finds(f, t, s)
  BY <1>6
<1>8. search(t, s) = f[n][<<>>]
  BY DEF search, Finds
<1> HIDE DEF f
<1>9. \A left \in 0 .. n : f[left] = One(left, f[left - 1])
  BY <1>1, <1>7 DEF Finds
<1>10. \A left \in 0 .. n : f[left] \in X[left]
  <2>1. f[0] \in X[0]
    <3>1. One(0, f[0 - 1]) = zero
      OBVIOUS
    <3>2. 0 \in 0 .. n
      BY <1>1
    <3> HIDE DEF One, zero, X
    <3> QED BY <1>2, <1>9, <3>1, <3>2
  <2>2. \A left \in 1 .. n : f[left - 1] \in X[left - 1] => f[left] \in X[left]
    <3>1. \A left \in 1 .. n : left \in 0 .. n
      OBVIOUS
    <3> HIDE DEF One, X, n
    <3> QED BY <1>3, <1>9, <3>1
  <2> HIDE DEF n, X
  <2> QED BY <1>1, <2>1, <2>2, RecursionStays
<1>11. Best(R, s, LeavesBelow(t, s, <<>>), f[n][<<>>])
  <2>1. n \in 0 .. n /\ Len(<<>>) = n - n
    BY <1>1
  <2>2. OnPath(<<>>, s)
    BY DEF OnPath
  <2>3. Good(n, f[n])
    BY <1>10, <2>1
  <2> QED
    BY <1>1, <2>1, <2>2, <2>3
<1>12. LeavesBelow(t, s, <<>>) = {p \in t.leaf : Matches(p, s)}
  BY <1>1, NonePrefix DEF LeavesBelow
<1> QED
  BY <1>8, <1>11, <1>12

-----------------------------------------------------------------------------
(* The parameters, put into the pattern, give the path back.               *)

Joining(ss, g, n) ==
    /\ n \in Nat /\ Len(ss) = n /\ n > 0
    /\ g[1] = ss[1] /\ \A k \in 2 .. n : g[k] = g[k - 1] \o ss[k]

LEMMA FlattenIs ==
    ASSUME NEW ss, NEW g, NEW n, Joining(ss, g, n)
    PROVE  FlattenSeq(ss) = g[n]
<1>0. /\ n \in Nat /\ Len(ss) = n /\ n > 0
      /\ g[1] = ss[1] /\ \A k \in 2 .. n : g[k] = g[k - 1] \o ss[k]
  BY DEF Joining
<1> DEFINE Flat(f) == f = [i \in 1 .. Len(ss) |-> IF i = 1 THEN ss[i] ELSE f[i - 1] \o ss[i]]
           h == [i \in 1 .. n |-> g[i]]
           f == CHOOSE f : Flat(f)
<1>1. Flat(h)
  <2>1. ASSUME NEW i \in 1 .. n PROVE h[i] = IF i = 1 THEN ss[i] ELSE h[i - 1] \o ss[i]
    <3>1. CASE i = 1
      BY <1>0, <3>1
    <3>2. CASE i # 1
      <4>1. i \in 2 .. n /\ i - 1 \in 1 .. n
        BY <1>0, <3>2
      <4>2. h[i] = g[i] /\ h[i - 1] = g[i - 1]
        BY <1>0, <4>1
      <4>3. h[i] = h[i - 1] \o ss[i]
        BY <1>0, <4>1, <4>2, Zenon
      <4> QED
        BY <1>0, <3>2, <4>3, Zenon
    <3> QED
      BY <1>0, <3>1, <3>2
  <2> QED
    BY <1>0, <2>1
<1>2. Flat(f)
  <2> HIDE DEF Flat, h
  <2> QED BY <1>1
<1>3. FlattenSeq(ss) = f[n]
  <2>1. Len(ss) # 0
    BY <1>0
  <2> QED
    BY <1>0, <2>1 DEF FlattenSeq
<1>4. \A i \in 1 .. n : f[i] = IF i = 1 THEN ss[i] ELSE f[i - 1] \o ss[i]
  <2> HIDE DEF f
  <2> QED BY <1>0, <1>2
<1> HIDE DEF f
<1> DEFINE S == {k \in Nat : k + 1 <= n => f[k + 1] = g[k + 1]}
<1>5. 0 \in S
  <2>1. f[1] = g[1]
    BY <1>0, <1>4
  <2> QED
    BY <1>0, <2>1
<1>6. ASSUME NEW k \in Nat, k \in S PROVE k + 1 \in S
  <2> SUFFICES ASSUME (k + 1) + 1 <= n PROVE f[(k + 1) + 1] = g[(k + 1) + 1]
    BY <1>0
  <2>1. k + 1 \in 1 .. n /\ f[k + 1] = g[k + 1]
    BY <1>0, <1>6
  <2> DEFINE j == (k + 1) + 1
  <2>2. j \in 2 .. n /\ j \in 1 .. n /\ j - 1 = k + 1 /\ j # 1
    BY <1>0, <2>1
  <2> HIDE DEF j
  <2>3. f[j] = f[j - 1] \o ss[j] /\ g[j] = g[j - 1] \o ss[j]
    BY <1>0, <1>4, <2>2, Zenon
  <2>4. f[j] = g[j]
    BY <1>0, <2>1, <2>2, <2>3, Zenon
  <2> QED
    BY <1>0, <2>4 DEF j
<1>7. n - 1 \in S
  <2>1. n - 1 \in Nat
    BY <1>0
  <2> HIDE DEF S
  <2> QED BY <1>0, <1>5, <1>6, <2>1, SetInduction
<1>8. (n - 1) + 1 = n
  BY <1>0
<1> QED
  BY <1>0, <1>3, <1>7, <1>8

WildAt(p) == {i \in 1 .. Len(p) : Wild(p[i])}

Named(p) == {i \in 1 .. Len(p) : Names(p[i], Name[p[i]])}

NamesIn(p) == {Name[e] : e \in {v \in Range(p) : Names(v, Name[v])}}

(* As many names as wild parts: each has one, and no two the same.         *)
LEMMA NamesOnce ==
    ASSUME NEW p \in Seq(Segments), Cardinality(WildAt(p)) = Cardinality(NamesIn(p))
    PROVE  /\ WildAt(p) = Named(p)
           /\ \A i, j \in WildAt(p) : Name[p[i]] = Name[p[j]] => i = j
<1> DEFINE S == WildAt(p)
           A == Named(p)
           T == NamesIn(p)
           f == [x \in A |-> Name[p[x]]]
<1>1. IsFiniteSet(S)
  <2>1. IsFiniteSet(1 .. Len(p)) /\ S \subseteq 1 .. Len(p)
    BY FS_Interval DEF WildAt
  <2> QED
    BY <2>1, FS_Subset
<1>2. A \subseteq S
  BY DEF Named, WildAt, Names, Wild
<1>3. IsFiniteSet(A) /\ Cardinality(A) <= Cardinality(S) /\ (Cardinality(S) = Cardinality(A) => S = A)
  <2> HIDE DEF S, A
  <2> QED BY <1>1, <1>2, FS_Subset
<1>4. f \in Surjection(A, T)
  <2>1. DOMAIN p = 1 .. Len(p)
    OBVIOUS
  <2>2. ASSUME NEW e \in T PROVE \E x \in A : f[x] = e
    <3>1. PICK v \in Range(p) : Names(v, Name[v]) /\ e = Name[v]
      BY DEF NamesIn
    <3>2. PICK x \in DOMAIN p : p[x] = v
      BY Zenon DEF Range
    <3>3. x \in A
      BY <2>1, <3>1, <3>2 DEF Named
    <3> QED
      BY <3>1, <3>2, <3>3
  <2>3. ASSUME NEW x \in A PROVE f[x] \in T
    <3>1. p[x] \in Range(p) /\ Names(p[x], Name[p[x]])
      BY <2>1 DEF Named, Range
    <3> QED
      BY <3>1 DEF NamesIn
  <2>4. f \in [A -> T]
    <3> HIDE DEF A, T
    <3> QED BY <2>3
  <2> HIDE DEF f, A, T
  <2> QED
    BY <2>2, <2>4 DEF Surjection
<1>5. Cardinality(T) <= Cardinality(A) /\ (Cardinality(T) = Cardinality(A) => f \in Injection(A, T))
  <2> HIDE DEF f, A, T
  <2> QED BY <1>3, <1>4, FS_Surjection
<1>6. Cardinality(S) \in Nat /\ Cardinality(A) \in Nat
  <2> HIDE DEF S, A
  <2> QED BY <1>1, <1>3, FS_CardinalityType
<1>7. Cardinality(A) = Cardinality(S) /\ Cardinality(T) = Cardinality(A)
  <2>1. Cardinality(S) = Cardinality(T)
    OBVIOUS
  <2> HIDE DEF S, A, T
  <2> QED BY <1>3, <1>5, <1>6, <2>1
<1>8. S = A /\ f \in Injection(A, T)
  <2> HIDE DEF S, A, T, f
  <2> QED BY <1>3, <1>5, <1>7
<1>9. ASSUME NEW x \in S, NEW y \in S, Name[p[x]] = Name[p[y]] PROVE x = y
  <2>1. x \in A /\ y \in A
    BY <1>8
  <2>2. f[x] = f[y]
    BY <1>9, <2>1
  <2> HIDE DEF f, A, T, S
  <2> QED
    BY <1>8, <2>1, <2>2 DEF Injection, IsInjective
<1> QED
  BY <1>8, <1>9

LastAt(p, e) ==
    CHOOSE i \in DOMAIN p : Names(p[i], e) /\ \A j \in i + 1 .. Len(p) : ~Names(p[j], e)

StandsFor(p, s, i) == IF p[i] \in CatchAlls THEN SubSeq(s, i, Len(s)) ELSE <<s[i]>>

Stands(p, s) == [e \in NamesIn(p) |-> StandsFor(p, s, LastAt(p, e))]

PutIn(p, params) == [i \in 1 .. Len(p) |-> IF Wild(p[i]) THEN params[Name[p[i]]] ELSE <<p[i]>>]

LEMMA Joined ==
    ASSUME NEW s \in Seq(Segments), NEW k \in 1 .. Len(s)
    PROVE  /\ SubSeq(s, 1, k - 1) \o <<s[k]>> = SubSeq(s, 1, k)
           /\ SubSeq(s, 1, k - 1) \o SubSeq(s, k, Len(s)) = s
           /\ SubSeq(s, 1, Len(s)) = s
<1>1. SubSeq(s, 1, k - 1) \o <<s[k]>> = SubSeq(s, 1, k)
  OBVIOUS
<1>2. SubSeq(s, 1, k - 1) \o SubSeq(s, k, Len(s)) = s
  OBVIOUS
<1>3. SubSeq(s, 1, Len(s)) = s
  OBVIOUS
<1> QED
  BY <1>1, <1>2, <1>3

LEMMA Refilled ==
    ASSUME NEW p \in Canonical, NEW s \in Seq(Segments), Matches(p, s),
           Cardinality(WildAt(p)) = Cardinality(NamesIn(p))
    PROVE  FlattenSeq(PutIn(p, Stands(p, s))) = s
<1> DEFINE n == Len(p)
           ss == PutIn(p, Stands(p, s))
           g == [k \in 1 .. n |-> IF k = n THEN s ELSE SubSeq(s, 1, k)]
<1>1. p \in Seq(Segments) /\ n \in Nat /\ \A i \in 1 .. n - 1 : p[i] \notin CatchAlls
  BY DEF Canonical
<1>2. n <= Len(s) /\ ((n # 0 /\ p[n] \in CatchAlls) \/ Len(s) = n)
  BY <1>1 DEF Matches, Ends, Last
<1>3. ASSUME NEW i \in 1 .. n
      PROVE  ss[i] = IF p[i] \in CatchAlls THEN SubSeq(s, i, Len(s)) ELSE <<s[i]>>
  <2>1. CASE Wild(p[i])
    <3> DEFINE e == Name[p[i]]
    <3>1. i \in WildAt(p) /\ i \in Named(p)
      BY <1>1, <2>1, NamesOnce DEF WildAt
    <3>2. ASSUME NEW j \in 1 .. n, Names(p[j], e) PROVE j = i
      <4>1. j \in WildAt(p) /\ Name[p[j]] = e
        BY <3>2 DEF WildAt, Names, Wild
      <4> QED
        BY <1>1, <3>1, <4>1, NamesOnce
    <3>3. DOMAIN p = 1 .. n
      BY <1>1
    <3>4. i \in DOMAIN p /\ Names(p[i], e) /\ \A j \in i + 1 .. Len(p) : ~Names(p[j], e)
      <4>1. ASSUME NEW j \in i + 1 .. n PROVE ~Names(p[j], e)
        <5>1. j \in 1 .. n /\ j # i
          BY <1>1
        <5> QED
          BY <3>2, <5>1
      <4> QED
        BY <3>1, <3>3, <4>1 DEF Named
    <3>5. LastAt(p, e) = i
      <4> HIDE DEF e
      <4> QED BY <3>2, <3>3, <3>4 DEF LastAt
    <3>6. e \in NamesIn(p)
      <4>1. p[i] \in Range(p) /\ Names(p[i], Name[p[i]])
        BY <3>1, <3>3 DEF Named, Range
      <4> QED
        BY <4>1 DEF NamesIn
    <3>7. ss[i] = Stands(p, s)[e]
      BY <2>1 DEF PutIn
    <3>8. ss[i] = StandsFor(p, s, LastAt(p, e))
      <4> HIDE DEF e, ss
      <4> QED BY <3>6, <3>7 DEF Stands
    <3> QED
      BY <3>5, <3>8 DEF StandsFor
  <2>2. CASE ~Wild(p[i])
    <3>1. p[i] = s[i] /\ p[i] \notin CatchAlls
      BY <2>2 DEF Matches, Wild
    <3>2. ss[i] = <<p[i]>>
      BY <2>2 DEF PutIn
    <3> QED
      BY <3>1, <3>2
  <2> QED
    BY <2>1, <2>2
<1>4. Len(ss) = n /\ (n = 0 => ss = <<>>)
  <2>1. ss = [i \in 1 .. n |-> IF Wild(p[i]) THEN Stands(p, s)[Name[p[i]]] ELSE <<p[i]>>]
    BY DEF PutIn
  <2> QED
    BY <1>1, <2>1
<1> HIDE DEF ss
<1>5. CASE n = 0
  <2>1. FlattenSeq(ss) = <<>>
    BY <1>4, <1>5 DEF FlattenSeq
  <2>2. s = <<>>
    BY <1>2, <1>5
  <2> QED
    BY <2>1, <2>2 DEF ss
<1>6. CASE n > 0
  <2>1. ASSUME NEW k \in 1 .. n
        PROVE  g[k] = SubSeq(s, 1, k - 1) \o ss[k]
    <3>1. k \in 1 .. Len(s) /\ k \in Nat
      BY <1>1, <1>2
    <3>2. CASE p[k] \in CatchAlls
      <4>1. k = n
        BY <1>1, <3>2
      <4>2. g[k] = s /\ ss[k] = SubSeq(s, k, Len(s))
        BY <1>3, <3>2, <4>1
      <4> QED
        BY <3>1, <4>2, Joined
    <3>3. CASE p[k] \notin CatchAlls
      <4>1. ss[k] = <<s[k]>>
        BY <1>3, <3>3
      <4>2. g[k] = SubSeq(s, 1, k)
        <5>1. CASE k = n
          <6>1. Len(s) = k
            BY <1>2, <3>3, <5>1
          <6> QED
            BY <3>1, <5>1, <6>1, Joined
        <5>2. CASE k # n
          BY <5>2
        <5> QED
          BY <5>1, <5>2
      <4>3. SubSeq(s, 1, k - 1) \o <<s[k]>> = SubSeq(s, 1, k)
        BY <3>1, Joined
      <4> QED
        BY <4>1, <4>2, <4>3, Zenon
    <3> QED
      BY <3>2, <3>3
  <2>2. g[1] = ss[1]
    <3>1. ASSUME NEW k \in 1 .. n, k = 1 PROVE g[k] = ss[k]
      <4>1. ss[k] \in Seq(Segments)
        <5>1. k \in 1 .. Len(s)
          BY <1>1, <1>2
        <5>2. SubSeq(s, k, Len(s)) \in Seq(Segments) /\ <<s[k]>> \in Seq(Segments)
          BY <5>1
        <5> QED
          BY <1>3, <5>2
      <4>2. SubSeq(s, 1, k - 1) = <<>>
        BY <3>1
      <4>3. g[k] = SubSeq(s, 1, k - 1) \o ss[k]
        BY <2>1
      <4> HIDE DEF g
      <4>4. <<>> \o ss[k] = ss[k]
        BY <4>1
      <4> QED
        BY <4>2, <4>3, <4>4, Zenon
    <3>2. 1 \in 1 .. n
      BY <1>1, <1>6
    <3> HIDE DEF g
    <3> QED
      BY <3>1, <3>2
  <2>3. \A k \in 2 .. n : g[k] = g[k - 1] \o ss[k]
    <3>1. ASSUME NEW k \in 2 .. n PROVE g[k - 1] = SubSeq(s, 1, k - 1) /\ k \in 1 .. n
      BY <1>1
    <3> HIDE DEF g
    <3> QED
      BY <2>1, <3>1
  <2>4. g[n] = s
    BY <1>6
  <2> HIDE DEF g, n
  <2>5. Joining(ss, g, n)
    BY <1>1, <1>4, <1>6, <2>2, <2>3 DEF Joining
  <2>6. FlattenSeq(ss) = g[n]
    BY <2>5, FlattenIs
  <2> QED
    BY <2>4, <2>6 DEF ss
<1> QED
  BY <1>1, <1>5, <1>6

-----------------------------------------------------------------------------
(* What a table answers                                                    *)

LEMMA AnswerIs ==
    ASSUME NEW r, NEW path, NEW p, search(r.trie, parsePattern(path)) = {p}
    PROVE  getRoute(r, path) = [handler |-> r.handlers[p],
                                params  |-> Stands(p, parsePattern(path))]
<1> DEFINE s == parsePattern(path)
           F == search(r.trie, s)
           n == CHOOSE leaf \in F : TRUE
<1>1. getRoute(r, path) = IF F = {} THEN NotFound
                          ELSE [handler |-> r.handlers[n], params |-> Stands(n, s)]
  BY Zenon DEF getRoute, Stands, StandsFor, LastAt, NamesIn
<1>2. F = {p}
  OBVIOUS
<1> HIDE DEF F
<1>3. n = p /\ F # {}
  BY <1>2
<1> HIDE DEF n, s
<1>4. getRoute(r, path) = [handler |-> r.handlers[n], params |-> Stands(n, s)]
  BY <1>1, <1>3, Zenon
<1> QED
  BY <1>3, <1>4, Zenon DEF s

WellBy(R, s, answer) ==
    LET matching == {p \in Range(R) : Matches(p, s)}
        p == R[answer.handler]
    IN  IF answer.handler = 0
        THEN matching = {}
        ELSE /\ p \in matching
             /\ \A q \in matching \ {p} : Before(R, s, p, q)
             /\ \A i \in answer.handler + 1 .. Len(R) : R[i] # p
             /\ (Cardinality(WildAt(p)) = Cardinality(DOMAIN answer.params)
                    => FlattenSeq(PutIn(p, answer.params)) = s)

LEMMA RoutesAnswered ==
    ASSUME NEW patterns \in Seq(Seq(Segments)), NEW path \in Seq(Segments)
    PROVE  RoutedWell(patterns, path)
<1> DEFINE R == Parsing(patterns)
           n == Len(patterns)
           s == parsePattern(path)
           r == Table(patterns)
           M == {p \in Range(R) : Matches(p, s)}
           answer == getRoute(r, path)
<1>0. RoutedWell(patterns, path) <=> WellBy(R, s, answer)
  BY Zenon DEF RoutedWell, WellBy, Parsing, WildAt, PutIn
<1>1. /\ R \in Seq(Seq(Segments)) /\ Len(R) = n /\ n \in Nat
      /\ \A i \in 1 .. n : R[i] \in Canonical
      /\ R = [i \in 1 .. n |-> parsePattern(patterns[i])]
  BY ParsingIs DEF Parsing
<1>2. s \in Canonical /\ s \in Seq(Segments)
  BY Parsed DEF Canonical
<1>3. Planted(r.trie, R, n) /\ Registered(r.handlers, R, n)
  BY TableIs
<1>4. Grown(r.trie, R)
  BY <1>1, <1>3 DEF Grown
<1>5. M = {p \in r.trie.leaf : Matches(p, s)}
  <2>1. r.trie.leaf = {R[i] : i \in 1 .. n}
    BY <1>3 DEF Planted
  <2>2. Range(R) = {R[i] : i \in 1 .. n}
    BY <1>1 DEF Range
  <2> HIDE DEF R, r, s
  <2> QED
    BY <2>1, <2>2
<1>6. Best(R, s, M, search(r.trie, s))
  <2> HIDE DEF R, r, s, M
  <2> QED BY <1>2, <1>4, <1>5, SearchFinds
<1>7. CASE M = {}
  <2>1. search(r.trie, s) = {}
    BY <1>6, <1>7 DEF Best
  <2>2. answer = NotFound
    BY <2>1 DEF getRoute
  <2>3. answer.handler = 0
    BY <2>2 DEF NotFound
  <2> HIDE DEF M, answer
  <2> QED
    BY <1>0, <1>7, <2>3, Zenon DEF WellBy, M, answer
<1>8. CASE M # {}
  <2>1. PICK p \in M : search(r.trie, s) = {p} /\ \A q \in M \ {p} : Before(R, s, p, q)
    BY <1>6, <1>8 DEF Best
  <2>2. answer.handler = r.handlers[p] /\ answer.params = Stands(p, s)
    <3>1. answer = [handler |-> r.handlers[p], params |-> Stands(p, s)]
      <4> HIDE DEF r
      <4> QED BY <2>1, AnswerIs, Zenon
    <3> HIDE DEF answer, s, r
    <3> QED
      BY <3>1
  <2>3. /\ r.handlers[p] \in 1 .. n /\ R[r.handlers[p]] = p
        /\ \A i \in r.handlers[p] + 1 .. n : R[i] # p
    <3>1. p \in DOMAIN r.handlers
      BY <1>3, <1>5 DEF Planted, Registered
    <3> QED
      BY <1>3, <3>1 DEF Registered
  <2>4. p \in Canonical /\ Matches(p, s) /\ answer.handler # 0
    BY <1>1, <2>1, <2>2, <2>3
  <2>5. Cardinality(WildAt(p)) = Cardinality(DOMAIN answer.params)
          => FlattenSeq(PutIn(p, answer.params)) = s
    <3>1. DOMAIN Stands(p, s) = NamesIn(p)
      BY DEF Stands
    <3> HIDE DEF answer, s
    <3> QED
      BY <1>2, <2>2, <2>4, <3>1, Refilled
  <2>6. R[answer.handler] = p /\ \A i \in answer.handler + 1 .. Len(R) : R[i] # p
    BY <1>1, <2>2, <2>3
  <2>7. p \in M /\ \A q \in M \ {p} : Before(R, s, p, q)
    BY <2>1
  <2>8. WellBy(R, s, answer)
    <3> DEFINE a == answer.handler
    <3> HIDE DEF M, answer, R, s
    <3> QED
      BY <2>4, <2>5, <2>6, <2>7, Zenon DEF WellBy, M
  <2> HIDE DEF M, answer, R, s, r
  <2> QED
    BY <1>0, <2>8, Zenon DEF answer, R, s, r
<1> QED
  BY <1>7, <1>8

-----------------------------------------------------------------------------
(* Groups: a prefix is parsed to what normalizePrefix makes of it.         *)

Shape(b, norm, lead) ==
    /\ lead \in Nat /\ lead + Len(norm) <= Len(b)
    /\ \A i \in 1 .. Len(b) : i <= lead \/ i > lead + Len(norm) => b[i] = Empty
    /\ \A i \in 1 .. Len(norm) : b[lead + i] = norm[i]

LEMMA NormalIs ==
    ASSUME NEW segs \in Seq(Segments), segs # <<>>
    PROVE  /\ normalizePrefix(segs) \in Seq(Segments)
           /\ \E lead : Shape(segs, normalizePrefix(segs), lead)
<1> DEFINE lead == IF segs[1] = Empty THEN 1 ELSE 0
           front == IF segs[1] = Empty THEN Tail(segs) ELSE segs
           Rest(k) == \A i \in k + 1 .. Len(front) : front[i] = Empty
           Fits(k) == Rest(k) /\ (k > 0 => ~Rest(k - 1))
           m == CHOOSE k \in 0 .. Len(front) : Fits(k)
<1>1. Len(segs) \in Nat /\ Len(segs) > 0
  OBVIOUS
<1>2. /\ front \in Seq(Segments) /\ Len(front) = Len(segs) - lead /\ lead \in 0 .. 1
      /\ \A i \in 1 .. Len(front) : front[i] = segs[i + lead]
      /\ lead = 1 => segs[1] = Empty
  BY <1>1
<1> HIDE DEF front, lead
<1>3. m \in 0 .. Len(front) /\ Rest(m)
  <2> DEFINE S == {k \in 0 .. Len(front) : Rest(k)}
  <2>1. Len(front) \in S
    BY <1>2
  <2>2. S \subseteq Nat /\ S # {}
    BY <2>1
  <2>3. Min(S) \in S /\ \A j \in S : Min(S) <= j
    <3> HIDE DEF S
    <3> QED BY <2>2, LeastOf
  <2>4. Min(S) \in 0 .. Len(front) /\ Fits(Min(S))
    <3>1. Min(S) - 1 \notin S
      BY <2>3
    <3>2. Min(S) \in 0 .. Len(front) /\ Rest(Min(S))
      BY <2>3
    <3>3. Min(S) > 0 => ~Rest(Min(S) - 1)
      BY <1>2, <3>1, <3>2
    <3> QED
      BY <3>2, <3>3
  <2>5. \E k \in 0 .. Len(front) : Fits(k)
    <3> HIDE DEF Fits, S
    <3> QED BY <2>4
  <2>6. m \in 0 .. Len(front) /\ Fits(m)
    <3> HIDE DEF Fits, S
    <3> QED BY <2>5
  <2> HIDE DEF m
  <2> QED
    BY <2>6
<1> DEFINE norm == SubSeq(front, 1, m)
<1>4. normalizePrefix(segs) = norm
  BY Zenon DEF normalizePrefix, front
<1> HIDE DEF m
<1>5. norm \in Seq(Segments) /\ Len(norm) = m /\ \A i \in 1 .. m : norm[i] = front[i]
  BY <1>2, <1>3, Beginning
<1> HIDE DEF norm
<1>6. \A i \in 1 .. Len(segs) : i <= lead \/ i > lead + Len(norm) => segs[i] = Empty
  <2> SUFFICES ASSUME NEW i \in 1 .. Len(segs), i <= lead \/ i > lead + Len(norm)
               PROVE  segs[i] = Empty
    OBVIOUS
  <2>1. CASE i <= lead
    BY <1>2, <2>1
  <2>2. CASE i > lead + Len(norm)
    <3>1. i - lead \in m + 1 .. Len(front) /\ i - lead \in 1 .. Len(front) /\ (i - lead) + lead = i
      BY <1>2, <1>3, <1>5, <2>2
    <3>2. front[i - lead] = Empty /\ front[i - lead] = segs[(i - lead) + lead]
      BY <1>2, <1>3, <3>1
    <3> QED
      BY <3>1, <3>2
  <2> QED
    BY <2>1, <2>2
<1>7. \A i \in 1 .. Len(norm) : segs[lead + i] = norm[i]
  <2> SUFFICES ASSUME NEW i \in 1 .. Len(norm) PROVE segs[lead + i] = norm[i]
    OBVIOUS
  <2>1. i \in 1 .. Len(front) /\ i + lead = lead + i
    BY <1>2, <1>3, <1>5
  <2> QED
    BY <1>2, <1>5, <2>1
<1>8. Shape(segs, norm, lead)
  BY <1>1, <1>2, <1>3, <1>5, <1>6, <1>7 DEF Shape
<1> QED
  BY <1>4, <1>5, <1>8

(* What has been parsed of a list stays when more follows.                 *)
Keep(e, v) == IF e = Empty \/ Ends(v) THEN v ELSE Append(v, e)

LEMMA KeptAt ==
    ASSUME NEW segs \in Seq(Segments)
    PROVE  \E f : /\ f[0] = <<>> /\ parsePattern(segs) = f[Len(segs)]
                  /\ \A k \in 1 .. Len(segs) : f[k] = Keep(segs[k], f[k - 1])
                  /\ \A k \in 0 .. Len(segs) : f[k] \in Canonical
<1>1. PICK f : /\ Kept(f, segs) /\ parsePattern(segs) = f[Len(segs)]
               /\ \A k \in 0 .. Len(segs) : f[k] \in Canonical
  BY KeptIs
<1>2. \A k \in 0 .. Len(segs) : f[k] = IF k = 0 THEN <<>> ELSE Keep(segs[k], f[k - 1])
  BY <1>1 DEF Kept, Keep
<1>3. 0 \in 0 .. Len(segs) /\ \A k \in 1 .. Len(segs) : k \in 0 .. Len(segs) /\ k # 0
  OBVIOUS
<1>4. f[0] = <<>> /\ \A k \in 1 .. Len(segs) : f[k] = Keep(segs[k], f[k - 1])
  BY <1>2, <1>3, Zenon
<1> QED
  BY <1>1, <1>4

LEMMA ParsedSoFar ==
    ASSUME NEW a \in Seq(Segments), NEW b \in Seq(Segments)
    PROVE  \E f : /\ f[0] = parsePattern(a) /\ parsePattern(a \o b) = f[Len(b)]
                  /\ \A k \in 1 .. Len(b) : f[k] = Keep(b[k], f[k - 1])
                  /\ \A k \in 0 .. Len(b) : f[k] \in Canonical
<1> DEFINE c == a \o b
           n == Len(a)
<1>1. /\ c \in Seq(Segments) /\ Len(c) = n + Len(b) /\ n \in Nat /\ Len(b) \in Nat
      /\ \A i \in 1 .. n : c[i] = a[i]
      /\ \A i \in 1 .. Len(b) : c[n + i] = b[i]
  OBVIOUS
<1> HIDE DEF c
<1>2. PICK f : /\ f[0] = <<>> /\ parsePattern(c) = f[Len(c)]
               /\ \A k \in 1 .. Len(c) : f[k] = Keep(c[k], f[k - 1])
               /\ \A k \in 0 .. Len(c) : f[k] \in Canonical
  BY <1>1, KeptAt
<1>3. PICK g : /\ g[0] = <<>> /\ parsePattern(a) = g[n]
               /\ \A k \in 1 .. n : g[k] = Keep(a[k], g[k - 1])
  BY KeptAt
<1> DEFINE S == {k \in Nat : k <= n => f[k] = g[k]}
<1>4. 0 \in S
  BY <1>2, <1>3
<1>5. ASSUME NEW k \in Nat, k \in S PROVE k + 1 \in S
  <2> SUFFICES ASSUME k + 1 <= n PROVE f[k + 1] = g[k + 1]
    OBVIOUS
  <2>1. k + 1 \in 1 .. n /\ k + 1 \in 1 .. Len(c) /\ (k + 1) - 1 = k /\ f[k] = g[k]
    BY <1>1, <1>5
  <2>2. f[k + 1] = Keep(c[k + 1], f[k]) /\ g[k + 1] = Keep(a[k + 1], g[k])
    BY <1>2, <1>3, <2>1
  <2> QED
    BY <1>1, <2>1, <2>2
<1>6. f[n] = g[n]
  <2>1. n \in S
    <3> HIDE DEF S, n
    <3> QED BY <1>1, <1>4, <1>5, SetInduction
  <2> QED
    BY <1>1, <2>1
<1> DEFINE h == [k \in 0 .. Len(b) |-> f[n + k]]
<1>7. h[0] = parsePattern(a) /\ parsePattern(c) = h[Len(b)]
  BY <1>1, <1>2, <1>3, <1>6
<1>8. ASSUME NEW k \in 1 .. Len(b) PROVE h[k] = Keep(b[k], h[k - 1])
  <2>1. h[k] = f[n + k] /\ h[k - 1] = f[n + (k - 1)] /\ n + (k - 1) = (n + k) - 1
    BY <1>1
  <2>2. n + k \in 1 .. Len(c) /\ c[n + k] = b[k]
    BY <1>1
  <2> HIDE DEF h
  <2> QED
    BY <1>2, <2>1, <2>2
<1>9. \A k \in 0 .. Len(b) : h[k] \in Canonical
  <2>1. \A k \in 0 .. Len(b) : n + k \in 0 .. Len(c)
    BY <1>1
  <2> QED
    BY <1>2, <2>1
<1> HIDE DEF h
<1> QED
  BY <1>7, <1>8, <1>9 DEF c

Plain(p) == \A i \in 1 .. Len(p) : p[i] # Empty

LEMMA LongerPrefix ==
    ASSUME NEW a \in Seq(Segments), NEW p \in Seq(Segments), NEW e \in Segments, IsPrefix(a, p)
    PROVE  IsPrefix(a, Append(p, e))
<1>1. Len(a) <= Len(p) /\ \A i \in 1 .. Len(a) : a[i] = p[i]
  BY PrefixIs
<1>2. /\ Append(p, e) \in Seq(Segments) /\ Len(Append(p, e)) = Len(p) + 1
      /\ \A i \in 1 .. Len(p) : Append(p, e)[i] = p[i]
  BY OnePartMore
<1> DEFINE q == Append(p, e)
<1> HIDE DEF q
<1>3. Len(a) <= Len(q) /\ \A i \in 1 .. Len(a) : a[i] = q[i]
  BY <1>1, <1>2 DEF q
<1>4. IsPrefix(a, q)
  BY <1>2, <1>3, PrefixIs DEF q
<1> QED
  BY <1>4 DEF q

LEMMA ParsedStays ==
    ASSUME NEW a \in Seq(Segments), NEW b \in Seq(Segments)
    PROVE  IsPrefix(parsePattern(a), parsePattern(a \o b))
<1>1. PICK f : /\ f[0] = parsePattern(a) /\ parsePattern(a \o b) = f[Len(b)]
               /\ \A k \in 1 .. Len(b) : f[k] = Keep(b[k], f[k - 1])
               /\ \A k \in 0 .. Len(b) : f[k] \in Canonical
  BY ParsedSoFar
<1> DEFINE p == parsePattern(a)
           n == Len(b)
           S == {k \in Nat : k <= n => IsPrefix(p, f[k])}
<1>2. p \in Seq(Segments) /\ n \in Nat
  BY Parsed DEF Canonical
<1>3. 0 \in S
  BY <1>1, <1>2, PrefixIs
<1>4. ASSUME NEW k \in Nat, k \in S PROVE k + 1 \in S
  <2> SUFFICES ASSUME k + 1 <= n PROVE IsPrefix(p, f[k + 1])
    OBVIOUS
  <2>1. k + 1 \in 1 .. n /\ k \in 0 .. n /\ (k + 1) - 1 = k /\ IsPrefix(p, f[k])
    BY <1>2, <1>4
  <2>2. f[k] \in Seq(Segments) /\ b[k + 1] \in Segments
    BY <1>1, <2>1 DEF Canonical
  <2>3. f[k + 1] = f[k] \/ f[k + 1] = Append(f[k], b[k + 1])
    BY <1>1, <2>1 DEF Keep
  <2> HIDE DEF p
  <2> QED
    BY <1>2, <2>1, <2>2, <2>3, LongerPrefix
<1>5. n \in S
  <2> HIDE DEF S, n
  <2> QED BY <1>2, <1>3, <1>4, SetInduction
<1> QED
  BY <1>1, <1>2, <1>5

LEMMA ConcatIs ==
    ASSUME NEW p \in Seq(Segments), NEW q \in Seq(Segments)
    PROVE  /\ p \o q \in Seq(Segments) /\ Len(p \o q) = Len(p) + Len(q)
           /\ \A i \in 1 .. Len(p) : (p \o q)[i] = p[i]
           /\ \A i \in 1 .. Len(q) : (p \o q)[Len(p) + i] = q[i]
OBVIOUS

LEMMA ParsedMore ==
    ASSUME NEW a \in Seq(Segments), NEW b \in Seq(Segments), NEW norm \in Seq(Segments),
           NEW lead, Shape(b, norm, lead), Plain(norm),
           ~Ends(parsePattern(a)), \A i \in 1 .. Len(norm) : norm[i] \notin CatchAlls
    PROVE  parsePattern(a \o b) = parsePattern(a) \o norm
<1>1. PICK f : /\ f[0] = parsePattern(a) /\ parsePattern(a \o b) = f[Len(b)]
               /\ \A k \in 1 .. Len(b) : f[k] = Keep(b[k], f[k - 1])
  BY ParsedSoFar
<1> DEFINE p == parsePattern(a)
           n == Len(b)
           m == Len(norm)
           So(c) == p \o SubSeq(norm, 1, c)
           Count(k) == IF k <= lead THEN 0 ELSE IF k <= lead + m THEN k - lead ELSE m
           S == {k \in Nat : k <= n => f[k] = So(Count(k))}
<1>2. /\ p \in Seq(Segments) /\ n \in Nat /\ m \in Nat /\ lead \in Nat /\ lead + m <= n
      /\ \A i \in 1 .. n : i <= lead \/ i > lead + m => b[i] = Empty
      /\ \A i \in 1 .. m : b[lead + i] = norm[i]
  BY Parsed DEF Canonical, Shape
<1> HIDE DEF p
<1>3. \A k \in Nat : Count(k) \in 0 .. m
  BY <1>2
<1>4. So(0) = p
  <2>1. SubSeq(norm, 1, 0) = <<>> /\ p \o <<>> = p
    BY <1>2
  <2> QED
    BY <2>1
<1>5. ASSUME NEW c \in 0 .. m PROVE ~Ends(So(c)) /\ So(c) \in Seq(Segments)
  <2> DEFINE q == SubSeq(norm, 1, c)
  <2>1. q \in Seq(Segments) /\ Len(q) = c /\ \A i \in 1 .. c : q[i] = norm[i]
    BY Beginning
  <2> HIDE DEF q
  <2>2. /\ p \o q \in Seq(Segments) /\ Len(p \o q) = Len(p) + c
        /\ \A i \in 1 .. c : (p \o q)[Len(p) + i] = q[i]
    BY <1>2, <2>1, ConcatIs
  <2>3. CASE c = 0
    BY <1>4, <1>2, <2>3 DEF p
  <2>4. CASE c > 0
    <3>1. Last(p \o q) = q[c]
      BY <1>2, <2>2, <2>4 DEF Last
    <3>2. q[c] \notin CatchAlls
      BY <2>1, <2>4
    <3> QED
      BY <2>2, <3>1, <3>2 DEF Ends, q
  <2> QED
    BY <2>3, <2>4
<1>6. ASSUME NEW c \in 1 .. m PROVE So(c) = Append(So(c - 1), norm[c])
  <2> DEFINE q == SubSeq(norm, 1, c - 1)
             e == norm[c]
  <2>1. SubSeq(norm, 1, c) = Append(q, e) /\ q \in Seq(Segments) /\ e \in Segments
    OBVIOUS
  <2> HIDE DEF q, e
  <2>2. p \o Append(q, e) = Append(p \o q, e)
    BY <1>2, <2>1, SMTT(20)
  <2> QED
    BY <2>1, <2>2, Zenon DEF q, e
<1> HIDE DEF So
<1>7. 0 \in S
  <2>1. f[0] = p
    BY <1>1 DEF p
  <2>2. Count(0) = 0
    BY <1>2
  <2> HIDE DEF Count
  <2>3. f[0] = So(Count(0))
    BY <1>4, <2>1, <2>2, Zenon
  <2> QED
    BY <2>3
<1>8. ASSUME NEW k \in Nat, k \in S PROVE k + 1 \in S
  <2> SUFFICES ASSUME k + 1 <= n PROVE f[k + 1] = So(Count(k + 1))
    OBVIOUS
  <2>1. k + 1 \in 1 .. n /\ (k + 1) - 1 = k /\ f[k] = So(Count(k)) /\ Count(k) \in 0 .. m
    BY <1>2, <1>3, <1>8
  <2>2. f[k + 1] = Keep(b[k + 1], So(Count(k))) /\ ~Ends(So(Count(k)))
    BY <1>1, <1>5, <2>1
  <2>3. CASE k + 1 <= lead \/ k + 1 > lead + m
    <3>1. b[k + 1] = Empty
      <4> DEFINE i == k + 1
      <4>1. i \in 1 .. n /\ (i <= lead \/ i > lead + m)
        BY <2>1, <2>3
      <4> HIDE DEF i, n, m, Count
      <4> QED
        BY <1>2, <4>1, Zenon DEF i
    <3>2. Count(k + 1) = Count(k)
      <4>1. lead \in Nat /\ m \in Nat
        BY <1>2
      <4> HIDE DEF m
      <4> QED
        BY <2>3, <4>1
    <3> HIDE DEF Count
    <3> QED
      BY <2>2, <3>1, <3>2 DEF Keep
  <2>4. CASE ~(k + 1 <= lead \/ k + 1 > lead + m)
    <3> DEFINE c == (k + 1) - lead
    <3>1. c \in 1 .. m /\ lead + c = k + 1 /\ Count(k + 1) = c /\ Count(k) = c - 1
      BY <1>2, <2>1, <2>4
    <3> HIDE DEF c, Count
    <3>2. b[k + 1] = norm[c] /\ norm[c] # Empty
      BY <1>2, <3>1 DEF Plain
    <3> QED
      BY <1>6, <2>2, <3>1, <3>2 DEF Keep
  <2> QED
    BY <2>3, <2>4
<1>9. n \in S
  <2> HIDE DEF S, n
  <2> QED BY <1>2, <1>7, <1>8, SetInduction
<1>10. Count(n) = m
  BY <1>2
<1>11. SubSeq(norm, 1, m) = norm
  OBVIOUS
<1>12. f[n] = So(Count(n))
  BY <1>2, <1>9
<1>13. So(m) = p \o norm
  BY <1>11 DEF So
<1> HIDE DEF Count, n, m
<1> QED
  BY <1>1, <1>10, <1>12, <1>13, Zenon DEF p, n

(* A list without empty parts and stars is parsed to itself.               *)
LEMMA PlainParsed ==
    ASSUME NEW p \in Seq(Segments), Plain(p), \A i \in 1 .. Len(p) : p[i] \notin CatchAlls
    PROVE  parsePattern(p) = p
<1> DEFINE a == <<>>
<1>1. a \in Seq(Segments) /\ Len(a) = 0 /\ a \o p = p
  OBVIOUS
<1> HIDE DEF a
<1>2. parsePattern(a) = <<>>
  BY <1>1, KeptAt
<1>3. Shape(p, p, 0)
  BY DEF Shape
<1>4. ~Ends(parsePattern(a))
  BY <1>2 DEF Ends
<1>5. parsePattern(a \o p) = parsePattern(a) \o p
  BY <1>1, <1>3, <1>4, ParsedMore
<1>6. <<>> \o p = p
  OBVIOUS
<1> QED
  BY <1>1, <1>2, <1>5, <1>6

(* Up to its first empty part a path is parsed to itself, or to less.      *)
LEMMA PathBegins ==
    ASSUME NEW path \in Seq(Segments), NEW n \in 0 .. Len(path), \A i \in 1 .. n : path[i] # Empty
    PROVE  /\ Len(parsePattern(path)) <= Len(path)
           /\ \A i \in 1 .. n : i <= Len(parsePattern(path)) => parsePattern(path)[i] = path[i]
<1>1. PICK f : /\ f[0] = <<>> /\ parsePattern(path) = f[Len(path)]
               /\ \A k \in 1 .. Len(path) : f[k] = Keep(path[k], f[k - 1])
               /\ \A k \in 0 .. Len(path) : f[k] \in Canonical
  BY KeptAt
<1> DEFINE m == Len(path)
           Good(k, v) == /\ Len(v) <= k
                         /\ Ends(v) \/ Len(v) >= k \/ Len(v) >= n
                         /\ \A i \in 1 .. n : i <= Len(v) => v[i] = path[i]
           S == {k \in Nat : k <= m => Good(k, f[k])}
<1>2. m \in Nat /\ n \in Nat /\ n <= m
  OBVIOUS
<1>3. 0 \in S
  <2>1. Len(<<>>) = 0
    OBVIOUS
  <2> QED
    BY <1>1, <1>2, <2>1
<1>4. ASSUME NEW k \in Nat, k \in S PROVE k + 1 \in S
  <2> SUFFICES ASSUME k + 1 <= m PROVE Good(k + 1, f[k + 1])
    OBVIOUS
  <2> DEFINE v == f[k]
             e == path[k + 1]
  <2>1. k + 1 \in 1 .. m /\ k \in 0 .. m /\ (k + 1) - 1 = k /\ Good(k, v)
    BY <1>2, <1>4
  <2>2. f[k + 1] = Keep(e, v) /\ v \in Seq(Segments) /\ e \in Segments
    BY <1>1, <2>1 DEF Canonical
  <2>3. k + 1 <= n => e # Empty
    BY <1>2, <2>1
  <2>4. Len(v) \in Nat
    BY <2>2
  <2> HIDE DEF v, e
  <2>5. CASE Ends(v)
    BY <1>2, <2>1, <2>2, <2>4, <2>5 DEF Keep
  <2>6. CASE ~Ends(v) /\ e = Empty
    BY <1>2, <2>1, <2>2, <2>3, <2>4, <2>6 DEF Keep
  <2>7. CASE ~Ends(v) /\ e # Empty
    <3> DEFINE w == Append(v, e)
    <3>1. f[k + 1] = w
      BY <2>2, <2>7 DEF Keep
    <3>2. /\ Len(w) = Len(v) + 1 /\ w[Len(v) + 1] = e
          /\ \A i \in 1 .. Len(v) : w[i] = v[i]
      BY <2>2, OnePartMore
    <3> HIDE DEF w
    <3>3. Len(w) <= k + 1 /\ (Len(w) >= k + 1 \/ Len(w) >= n)
      BY <1>2, <2>1, <2>4, <2>7, <3>2
    <3>4. ASSUME NEW i \in 1 .. n, i <= Len(w) PROVE w[i] = path[i]
      <4>1. CASE i <= Len(v)
        BY <1>2, <2>1, <2>4, <3>2, <4>1
      <4>2. CASE ~(i <= Len(v))
        <5>1. i = Len(v) + 1 /\ Len(v) < n
          BY <1>2, <2>4, <3>2, <3>4, <4>2
        <5>2. Len(v) = k
          BY <1>2, <2>1, <2>4, <2>7, <5>1
        <5> QED
          BY <3>2, <5>1, <5>2 DEF e
      <4> QED
        BY <4>1, <4>2
    <3> QED
      BY <3>1, <3>3, <3>4
  <2> QED
    BY <2>5, <2>6, <2>7
<1>5. m \in S
  <2> HIDE DEF S, m
  <2> QED BY <1>2, <1>3, <1>4, SetInduction
<1>6. Good(m, f[m])
  BY <1>2, <1>5
<1> QED
  BY <1>1, <1>6

-----------------------------------------------------------------------------
(* The groups that are made of a list, and their prefixes as written.      *)
Group == [prefix : Seq(Segments), uses : Seq(Nat)]

NextGroup(specs, k, gs) == Router(gs[specs[k].parent], specs[k].segs, <<k + 1>>)

Grouped(specs, k, gs) ==
    /\ gs \in Seq(Group) /\ Len(gs) = k + 1 /\ gs[1] = [prefix |-> <<>>, uses |-> <<1>>]
    /\ \A j \in 1 .. k : gs[j + 1] = NextGroup(specs, j, gs)

NextWords(specs, k, ws) == ws[specs[k].parent] \o specs[k].segs

Worded(specs, k, ws) ==
    /\ ws \in Seq(Seq(Segments)) /\ Len(ws) = k + 1 /\ ws[1] = <<>>
    /\ \A j \in 1 .. k : ws[j + 1] = NextWords(specs, j, ws)

LEMMA SpecIs ==
    ASSUME NEW specs, WellMade(specs), NEW k \in 1 .. Len(specs)
    PROVE  /\ specs[k].parent \in 1 .. k
           /\ specs[k].segs \in Seq(Segments) /\ specs[k].segs # <<>>
           /\ normalizePrefix(specs[k].segs) \in Seq(Segments)
           /\ \E lead : Shape(specs[k].segs, normalizePrefix(specs[k].segs), lead)
<1>1. specs[k] \in [parent : Nat, segs : Seq(Segments)]
  <2> DEFINE T == [parent : Nat, segs : Seq(Segments)]
  <2>1. specs \in Seq(T)
    BY DEF WellMade
  <2>2. k \in 1 .. Len(specs) => specs[k] \in T
    <3> HIDE DEF T
    <3> QED BY <2>1
  <2> QED
    BY <2>2
<1>2. /\ specs[k].parent \in 1 .. k
      /\ specs[k].segs \in Seq(Segments) /\ specs[k].segs # <<>>
  BY <1>1 DEF WellMade
<1> QED
  BY <1>2, NormalIs

LEMMA GroupsMore ==
    ASSUME NEW specs, WellMade(specs), NEW k \in 1 .. Len(specs), NEW gs, Grouped(specs, k - 1, gs)
    PROVE  Grouped(specs, k, Append(gs, NextGroup(specs, k, gs)))
<1> DEFINE x == NextGroup(specs, k, gs)
           hs == Append(gs, x)
<1>1. gs \in Seq(Group) /\ Len(gs) = k /\ k \in Nat
  BY DEF Grouped
<1>2. specs[k].parent \in 1 .. k /\ normalizePrefix(specs[k].segs) \in Seq(Segments)
  BY SpecIs
<1>3. x \in Group
  <2>1. gs[specs[k].parent] \in Group
    BY <1>1, <1>2
  <2>2. gs[specs[k].parent].prefix \o normalizePrefix(specs[k].segs) \in Seq(Segments)
    BY <1>2, <2>1, ConcatIs DEF Group
  <2>3. <<k + 1>> \in Seq(Nat)
    BY <1>1
  <2> QED
    BY <2>2, <2>3 DEF NextGroup, Router, Group
<1> HIDE DEF x
<1>4. /\ hs \in Seq(Group) /\ Len(hs) = k + 1 /\ hs[k + 1] = x
      /\ \A j \in 1 .. k : hs[j] = gs[j]
  BY <1>1, <1>3
<1> HIDE DEF hs
<1>5. hs[1] = [prefix |-> <<>>, uses |-> <<1>>]
  BY <1>1, <1>4 DEF Grouped
<1>6. ASSUME NEW j \in 1 .. k PROVE hs[j + 1] = NextGroup(specs, j, hs)
  <2>1. j \in 1 .. Len(specs) /\ specs[j].parent \in 1 .. j
    <3>1. j \in 1 .. Len(specs)
      BY DEF WellMade
    <3> QED BY <3>1, SpecIs
  <2>2. hs[specs[j].parent] = gs[specs[j].parent]
    BY <1>1, <1>4, <2>1
  <2>3. NextGroup(specs, j, hs) = NextGroup(specs, j, gs)
    BY <2>2, Zenon DEF NextGroup
  <2>4. CASE j = k
    BY <1>4, <2>3, <2>4 DEF x
  <2>5. CASE j # k
    <3>1. j \in 1 .. k - 1 /\ j + 1 \in 1 .. k
      BY <1>1, <2>5
    <3>2. gs[j + 1] = NextGroup(specs, j, gs)
      BY <3>1 DEF Grouped
    <3> QED
      BY <1>4, <2>3, <3>1, <3>2
  <2> QED
    BY <2>4, <2>5
<1>7. Grouped(specs, k, hs)
  BY <1>4, <1>5, <1>6 DEF Grouped
<1> QED
  BY <1>7 DEF hs, x

LEMMA GroupsAre ==
    ASSUME NEW specs, WellMade(specs)
    PROVE  Grouped(specs, Len(specs), Groups(specs))
<1> DEFINE n == Len(specs)
           root == <<[prefix |-> <<>>, uses |-> <<1>>]>>
           X == [k \in 0 .. n |-> {gs \in Seq(Group) : Grouped(specs, k, gs)}]
           d == [k \in 1 .. n |-> [gs \in Seq(Group) |-> Append(gs, NextGroup(specs, k, gs))]]
           Making(f) == f = [k \in 0 .. n |->
                             IF k = 0 THEN root ELSE Append(f[k - 1], NextGroup(specs, k, f[k - 1]))]
<1>1. n \in Nat /\ root \in X[0]
  <2>1. n \in Nat /\ 0 \in 0 .. n
    BY DEF WellMade
  <2>2. root[1] \in Group /\ root[1] = [prefix |-> <<>>, uses |-> <<1>>]
    BY DEF Group
  <2>3. root \in Seq(Group) /\ Len(root) = 0 + 1
    BY <2>2
  <2>4. Grouped(specs, 0, root)
    BY <2>2, <2>3 DEF Grouped
  <2> QED
    BY <2>1, <2>3, <2>4
<1>2. ASSUME NEW k \in 1 .. n, NEW gs \in X[k - 1]
      PROVE  gs \in Seq(Group) /\ Append(gs, NextGroup(specs, k, gs)) \in X[k]
  <2>1. k - 1 \in 0 .. n /\ k \in 0 .. n
    BY <1>1
  <2>2. gs \in Seq(Group) /\ Grouped(specs, k - 1, gs)
    BY <2>1
  <2>3. Grouped(specs, k, Append(gs, NextGroup(specs, k, gs)))
    BY <2>2, GroupsMore
  <2> QED
    BY <2>1, <2>2, <2>3 DEF Grouped
<1>3. \A k \in 1 .. n : \A gs \in X[k - 1] :
          d[k][gs] = Append(gs, NextGroup(specs, k, gs)) /\ d[k][gs] \in X[k]
  <2> HIDE DEF X
  <2> QED BY <1>2
<1>4. PICK g : Recursion(g, n, root, d) /\ \A k \in 0 .. n : g[k] \in X[k]
  <2> HIDE DEF n, d, X, root
  <2> QED BY <1>1, <1>3, RecursionExists
<1>5. Making(g)
  <2>1. g = [k \in 0 .. n |-> IF k = 0 THEN root ELSE d[k][g[k - 1]]]
    BY <1>4 DEF Recursion
  <2>2. \A k \in 0 .. n : k # 0 => d[k][g[k - 1]] = Append(g[k - 1], NextGroup(specs, k, g[k - 1]))
    <3>1. \A k \in 0 .. n : k # 0 => k \in 1 .. n /\ k - 1 \in 0 .. n
      BY <1>1
    <3> HIDE DEF d, X, n
    <3> QED BY <1>3, <1>4, <3>1
  <2> HIDE DEF d, root
  <2> QED
    BY <2>1, <2>2
<1> DEFINE f == CHOOSE f : Making(f)
<1>6. Making(f)
  <2> HIDE DEF Making
  <2> QED BY <1>5
<1>7. Groups(specs) = f[n]
  BY Zenon DEF Groups, NextGroup
<1> HIDE DEF f
<1>8. \A k \in 0 .. n : f[k] = IF k = 0 THEN root ELSE Append(f[k - 1], NextGroup(specs, k, f[k - 1]))
  BY <1>6
<1>9. \A k \in 0 .. n : f[k] \in X[k]
  <2> HIDE DEF X, root
  <2>1. f[0] \in X[0]
    BY <1>1, <1>8
  <2>2. \A k \in 1 .. n : f[k - 1] \in X[k - 1] => f[k] \in X[k]
    <3>1. \A k \in 1 .. n : k \in 0 .. n /\ k # 0
      BY <1>1
    <3> HIDE DEF n
    <3> QED BY <1>2, <1>8, <3>1
  <2> HIDE DEF n
  <2> QED BY <1>1, <2>1, <2>2, RecursionStays
<1>10. n \in 0 .. n /\ f[n] \in X[n]
  BY <1>1, <1>9
<1> QED
  BY <1>7, <1>10

LEMMA WordsMore ==
    ASSUME NEW specs, WellMade(specs), NEW k \in 1 .. Len(specs), NEW ws, Worded(specs, k - 1, ws)
    PROVE  Worded(specs, k, Append(ws, NextWords(specs, k, ws)))
<1> DEFINE x == NextWords(specs, k, ws)
           vs == Append(ws, x)
<1>1. ws \in Seq(Seq(Segments)) /\ Len(ws) = k /\ k \in Nat
  BY DEF Worded
<1>2. specs[k].parent \in 1 .. k /\ normalizePrefix(specs[k].segs) \in Seq(Segments)
  BY SpecIs
<1>3. x \in Seq(Segments)
  <2>1. ws[specs[k].parent] \in Seq(Segments)
    BY <1>1, <1>2
  <2>2. specs[k].segs \in Seq(Segments)
    BY SpecIs
  <2> QED
    BY <2>1, <2>2, ConcatIs DEF NextWords
<1> HIDE DEF x
<1>4. /\ vs \in Seq(Seq(Segments)) /\ Len(vs) = k + 1 /\ vs[k + 1] = x
      /\ \A j \in 1 .. k : vs[j] = ws[j]
  BY <1>1, <1>3
<1> HIDE DEF vs
<1>5. vs[1] = <<>>
  BY <1>1, <1>4 DEF Worded
<1>6. ASSUME NEW j \in 1 .. k PROVE vs[j + 1] = NextWords(specs, j, vs)
  <2>1. j \in 1 .. Len(specs) /\ specs[j].parent \in 1 .. j
    <3>1. j \in 1 .. Len(specs)
      BY DEF WellMade
    <3> QED BY <3>1, SpecIs
  <2>2. vs[specs[j].parent] = ws[specs[j].parent]
    BY <1>1, <1>4, <2>1
  <2>3. NextWords(specs, j, vs) = NextWords(specs, j, ws)
    BY <2>2, Zenon DEF NextWords
  <2>4. CASE j = k
    BY <1>4, <2>3, <2>4 DEF x
  <2>5. CASE j # k
    <3>1. j \in 1 .. k - 1 /\ j + 1 \in 1 .. k
      BY <1>1, <2>5
    <3>2. ws[j + 1] = NextWords(specs, j, ws)
      BY <3>1 DEF Worded
    <3> QED
      BY <1>4, <2>3, <3>1, <3>2
  <2> QED
    BY <2>4, <2>5
<1>7. Worded(specs, k, vs)
  BY <1>4, <1>5, <1>6 DEF Worded
<1> QED
  BY <1>7 DEF vs, x

LEMMA WordsAre ==
    ASSUME NEW specs, WellMade(specs)
    PROVE  Worded(specs, Len(specs), AsWritten(specs))
<1> DEFINE n == Len(specs)
           root == <<<<>>>>
           X == [k \in 0 .. n |-> {ws \in Seq(Seq(Segments)) : Worded(specs, k, ws)}]
           d == [k \in 1 .. n |-> [ws \in Seq(Seq(Segments)) |-> Append(ws, NextWords(specs, k, ws))]]
           Making(f) == f = [k \in 0 .. n |->
                             IF k = 0 THEN root ELSE Append(f[k - 1], NextWords(specs, k, f[k - 1]))]
<1>1. n \in Nat /\ root \in X[0]
  <2>1. n \in Nat /\ 0 \in 0 .. n
    BY DEF WellMade
  <2>2. root[1] \in Seq(Segments) /\ root[1] = <<>>
    OBVIOUS
  <2>3. root \in Seq(Seq(Segments)) /\ Len(root) = 0 + 1
    BY <2>2
  <2>4. Worded(specs, 0, root)
    BY <2>2, <2>3 DEF Worded
  <2> QED
    BY <2>1, <2>3, <2>4
<1>2. ASSUME NEW k \in 1 .. n, NEW ws \in X[k - 1]
      PROVE  ws \in Seq(Seq(Segments)) /\ Append(ws, NextWords(specs, k, ws)) \in X[k]
  <2>1. k - 1 \in 0 .. n /\ k \in 0 .. n
    BY <1>1
  <2>2. ws \in Seq(Seq(Segments)) /\ Worded(specs, k - 1, ws)
    BY <2>1
  <2>3. Worded(specs, k, Append(ws, NextWords(specs, k, ws)))
    BY <2>2, WordsMore
  <2> QED
    BY <2>1, <2>2, <2>3 DEF Worded
<1>3. \A k \in 1 .. n : \A ws \in X[k - 1] :
          d[k][ws] = Append(ws, NextWords(specs, k, ws)) /\ d[k][ws] \in X[k]
  <2> HIDE DEF X
  <2> QED BY <1>2
<1>4. PICK g : Recursion(g, n, root, d) /\ \A k \in 0 .. n : g[k] \in X[k]
  <2> HIDE DEF n, d, X, root
  <2> QED BY <1>1, <1>3, RecursionExists
<1>5. Making(g)
  <2>1. g = [k \in 0 .. n |-> IF k = 0 THEN root ELSE d[k][g[k - 1]]]
    BY <1>4 DEF Recursion
  <2>2. \A k \in 0 .. n : k # 0 => d[k][g[k - 1]] = Append(g[k - 1], NextWords(specs, k, g[k - 1]))
    <3>1. \A k \in 0 .. n : k # 0 => k \in 1 .. n /\ k - 1 \in 0 .. n
      BY <1>1
    <3> HIDE DEF d, X, n
    <3> QED BY <1>3, <1>4, <3>1
  <2> HIDE DEF d, root
  <2> QED
    BY <2>1, <2>2
<1> DEFINE f == CHOOSE f : Making(f)
<1>6. Making(f)
  <2> HIDE DEF Making
  <2> QED BY <1>5
<1>7. AsWritten(specs) = f[n]
  BY Zenon DEF AsWritten, NextWords
<1> HIDE DEF f
<1>8. \A k \in 0 .. n : f[k] = IF k = 0 THEN root ELSE Append(f[k - 1], NextWords(specs, k, f[k - 1]))
  BY <1>6
<1>9. \A k \in 0 .. n : f[k] \in X[k]
  <2> HIDE DEF X, root
  <2>1. f[0] \in X[0]
    BY <1>1, <1>8
  <2>2. \A k \in 1 .. n : f[k - 1] \in X[k - 1] => f[k] \in X[k]
    <3>1. \A k \in 1 .. n : k \in 0 .. n /\ k # 0
      BY <1>1
    <3> HIDE DEF n
    <3> QED BY <1>2, <1>8, <3>1
  <2> HIDE DEF n
  <2> QED BY <1>1, <2>1, <2>2, RecursionStays
<1>10. n \in 0 .. n /\ f[n] \in X[n]
  BY <1>1, <1>9
<1> QED
  BY <1>7, <1>10

(* A flattened sequence of sequences holds what its parts hold.            *)
Holds(v, ss, k) == v \in Seq(Nat) /\ \A e : e \in Range(v) <=> \E i \in 1 .. k : e \in Range(ss[i])

LEMMA InRange ==
    ASSUME NEW f, NEW e
    PROVE  e \in Range(f) <=> \E i \in DOMAIN f : f[i] = e
BY DEF Range

LEMMA HoldsMore ==
    ASSUME NEW ss \in Seq(Seq(Nat)), NEW k \in 1 .. Len(ss), NEW v, Holds(v, ss, k - 1)
    PROVE  Holds(v \o ss[k], ss, k)
<1> DEFINE w == ss[k]
           u == v \o w
<1>1. v \in Seq(Nat) /\ w \in Seq(Nat) /\ k \in Nat
  BY DEF Holds
<1> HIDE DEF w
<1>2. /\ u \in Seq(Nat) /\ Len(u) = Len(v) + Len(w)
      /\ \A i \in 1 .. Len(v) : u[i] = v[i]
      /\ \A i \in 1 .. Len(w) : u[Len(v) + i] = w[i]
  BY <1>1
<1> HIDE DEF u
<1>0. DOMAIN u = 1 .. Len(u) /\ DOMAIN v = 1 .. Len(v) /\ DOMAIN w = 1 .. Len(w)
  BY <1>1, <1>2
<1>3. ASSUME NEW e PROVE e \in Range(u) <=> e \in Range(v) \/ e \in Range(w)
  <2>1. ASSUME e \in Range(u) PROVE e \in Range(v) \/ e \in Range(w)
    <3>1. PICK i \in 1 .. Len(u) : u[i] = e
      BY <1>0, <2>1, InRange, Zenon
    <3>2. CASE i <= Len(v)
      <4>0. i \in 1 .. Len(v)
        BY <1>1, <3>1, <3>2
      <4>1. i \in DOMAIN v /\ v[i] = e
        BY <1>0, <1>2, <3>1, <4>0, Zenon
      <4> QED
        BY <4>1, InRange, Zenon
    <3>3. CASE ~(i <= Len(v))
      <4> DEFINE j == i - Len(v)
      <4>1. j \in 1 .. Len(w) /\ Len(v) + j = i
        BY <1>1, <1>2, <3>1, <3>3
      <4> HIDE DEF j
      <4>2. w[j] = e /\ j \in DOMAIN w
        BY <1>0, <1>2, <3>1, <4>1, Zenon
      <4> QED
        BY <4>2, InRange, Zenon
    <3> QED
      BY <3>2, <3>3
  <2>2. ASSUME e \in Range(v) PROVE e \in Range(u)
    <3>1. PICK i \in 1 .. Len(v) : v[i] = e
      BY <1>0, <2>2, InRange, Zenon
    <3>0. i \in 1 .. Len(u)
      BY <1>1, <1>2
    <3>2. i \in DOMAIN u /\ u[i] = e
      BY <1>0, <1>2, <3>0, <3>1, Zenon
    <3> QED
      BY <3>2, InRange, Zenon
  <2>3. ASSUME e \in Range(w) PROVE e \in Range(u)
    <3>1. PICK i \in 1 .. Len(w) : w[i] = e
      BY <1>0, <2>3, InRange, Zenon
    <3>2. Len(v) + i \in 1 .. Len(u) /\ DOMAIN u = 1 .. Len(u)
      <4>0. Len(v) \in Nat /\ Len(w) \in Nat
        BY <1>1
      <4>1. Len(v) \in Nat /\ Len(w) \in Nat /\ Len(u) = Len(v) + Len(w)
        BY <1>2, <4>0, Zenon
      <4>2. Len(v) + i \in 1 .. Len(u)
        BY <4>1
      <4> QED
        BY <1>2, <4>2
    <3>3. u[Len(v) + i] = e
      BY <1>2, <3>1, Zenon
    <3> QED
      BY <3>2, <3>3, InRange, Zenon
  <2> QED
    BY <2>1, <2>2, <2>3
<1>4. ASSUME NEW e
      PROVE  (\E i \in 1 .. k : e \in Range(ss[i]))
                <=> (\E i \in 1 .. k - 1 : e \in Range(ss[i])) \/ e \in Range(w)
  <2>1. \A i \in 1 .. k : i \in 1 .. k - 1 \/ i = k
    BY <1>1
  <2>2. k \in 1 .. k /\ \A i \in 1 .. k - 1 : i \in 1 .. k
    BY <1>1
  <2> QED
    BY <2>1, <2>2, Zenon DEF w
<1>5. \A e : e \in Range(u) <=> \E i \in 1 .. k : e \in Range(ss[i])
  BY <1>3, <1>4, Zenon DEF Holds
<1>6. Holds(u, ss, k)
  BY <1>2, <1>5, Zenon DEF Holds
<1> QED
  BY <1>6 DEF u, w

LEMMA FlattenHolds ==
    ASSUME NEW ss \in Seq(Seq(Nat)), Len(ss) > 0
    PROVE  Holds(FlattenSeq(ss), ss, Len(ss))
<1> DEFINE n == Len(ss)
           x == <<>>
           X == [k \in 0 .. n |-> {v \in Seq(Nat) : Holds(v, ss, k)}]
           d == [k \in 1 .. n |-> [v \in Seq(Nat) |-> v \o ss[k]]]
<1>1. n \in Nat /\ n > 0 /\ x \in X[0]
  <2>1. Range(x) = {} /\ x \in Seq(Nat)
    BY DEF Range
  <2>2. Holds(x, ss, 0)
    BY <2>1 DEF Holds
  <2>3. 0 \in 0 .. n
    OBVIOUS
  <2> QED
    BY <2>1, <2>2, <2>3
<1>2. ASSUME NEW k \in 1 .. n, NEW v \in X[k - 1]
      PROVE  v \in Seq(Nat) /\ d[k][v] = v \o ss[k] /\ d[k][v] \in X[k]
  <2>1. k - 1 \in 0 .. n /\ k \in 0 .. n
    OBVIOUS
  <2>2. v \in Seq(Nat) /\ Holds(v, ss, k - 1)
    BY <2>1
  <2>3. Holds(v \o ss[k], ss, k)
    BY <2>2, HoldsMore
  <2>4. v \o ss[k] \in Seq(Nat)
    BY <2>3 DEF Holds
  <2> QED
    BY <2>1, <2>2, <2>3, <2>4
<1>3. PICK g : Recursion(g, n, x, d) /\ \A k \in 0 .. n : g[k] \in X[k]
  <2>1. \A k \in 1 .. n : \A v \in X[k - 1] : d[k][v] \in X[k]
    <3> HIDE DEF n, d, X, x
    <3> QED BY <1>2
  <2> HIDE DEF n, d, X, x
  <2> QED BY <1>1, <2>1, RecursionExists
<1>4. ASSUME NEW k \in 1 .. n PROVE g[k] = g[k - 1] \o ss[k]
  <2>1. g = [i \in 0 .. n |-> IF i = 0 THEN x ELSE d[i][g[i - 1]]]
    BY <1>3 DEF Recursion
  <2>2. k \in 0 .. n /\ k # 0 /\ k - 1 \in 0 .. n
    OBVIOUS
  <2> HIDE DEF d, X, x, n
  <2>3. g[k] = d[k][g[k - 1]] /\ g[k - 1] \in X[k - 1]
    BY <1>3, <2>1, <2>2
  <2> QED
    BY <1>2, <2>3
<1>5. g[0] = <<>>
  <2>1. g = [i \in 0 .. n |-> IF i = 0 THEN x ELSE d[i][g[i - 1]]]
    BY <1>3 DEF Recursion
  <2>2. 0 \in 0 .. n
    BY <1>1
  <2> HIDE DEF d, n
  <2> QED
    BY <2>1, <2>2
<1>6. Joining(ss, g, n)
  <2>1. 1 \in 1 .. n /\ 1 - 1 = 0 /\ ss[1] \in Seq(Nat) /\ \A k \in 2 .. n : k \in 1 .. n
    BY <1>1
  <2>2. g[1] = <<>> \o ss[1]
    <3> HIDE DEF n
    <3> QED BY <1>4, <1>5, <2>1
  <2>3. g[1] = ss[1]
    BY <2>1, <2>2
  <2>4. \A k \in 2 .. n : g[k] = g[k - 1] \o ss[k]
    <3> HIDE DEF n
    <3> QED BY <1>4, <2>1
  <2> QED
    BY <1>1, <2>3, <2>4, Zenon DEF Joining
<1>7. FlattenSeq(ss) = g[n]
  <2> HIDE DEF n
  <2> QED BY <1>6, FlattenIs
<1>8. n \in 0 .. n
  BY <1>1
<1>9. g[n] \in X[n]
  <2> HIDE DEF n, X
  <2> QED BY <1>3, <1>8
<1>10. Holds(g[n], ss, n)
  BY <1>8, <1>9
<1> QED
  BY <1>7, <1>10

(* A group's own middleware runs for the paths that begin with its prefix. *)
LEMMA MiddlewaresAre ==
    ASSUME NEW specs, WellMade(specs), NEW path \in Seq(Segments), NEW groups,
           Grouped(specs, Len(specs), groups), NEW h \in 1 .. Len(specs) + 1
    PROVE  h \in Range(Middlewares(groups, path)) <=> IsPrefix(groups[h].prefix, path)
<1> DEFINE n == Len(specs) + 1
           Of(g) == IF IsPrefix(groups[g].prefix, path) THEN groups[g].uses ELSE <<>>
           ss == [g \in DOMAIN groups |-> Of(g)]
<1>1. Len(specs) \in Nat /\ groups \in Seq(Group) /\ Len(groups) = n /\ DOMAIN groups = 1 .. n
  <2>1. Len(specs) \in Nat
    BY DEF WellMade
  <2> QED
    BY <2>1 DEF Grouped
<1>2. ASSUME NEW g \in 1 .. n PROVE groups[g].uses = <<g>>
  <2>1. CASE g = 1
    BY <2>1 DEF Grouped
  <2>2. CASE g # 1
    <3> DEFINE j == g - 1
    <3>1. j \in 1 .. Len(specs) /\ j + 1 = g
      BY <1>1, <2>2
    <3> HIDE DEF j
    <3>2. groups[j + 1] = NextGroup(specs, j, groups)
      BY <3>1 DEF Grouped
    <3>3. groups[j + 1].uses = <<j + 1>>
      BY <3>2 DEF NextGroup, Router
    <3> QED
      BY <3>1, <3>3
  <2> QED
    BY <2>1, <2>2
<1>3. ss \in Seq(Seq(Nat)) /\ Len(ss) = n /\ Len(ss) > 0
  <2>1. ASSUME NEW g \in 1 .. n PROVE Of(g) \in Seq(Nat)
    <3>1. <<g>> \in Seq(Nat) /\ <<>> \in Seq(Nat)
      BY <1>1
    <3> QED
      BY <1>2, <3>1
  <2> HIDE DEF Of
  <2> QED
    BY <1>1, <2>1
<1>4. ASSUME NEW g \in 1 .. n PROVE h \in Range(ss[g]) <=> g = h /\ IsPrefix(groups[h].prefix, path)
  <2>1. ss[g] = IF IsPrefix(groups[g].prefix, path) THEN <<g>> ELSE <<>>
    BY <1>1, <1>2
  <2>2. Range(<<g>>) = {g} /\ Range(<<>>) = {}
    BY DEF Range
  <2> HIDE DEF ss
  <2> QED
    BY <2>1, <2>2
<1>5. Middlewares(groups, path) = FlattenSeq(ss)
  BY Zenon DEF Middlewares, matchRouterPath
<1> HIDE DEF ss
<1>6. h \in Range(FlattenSeq(ss)) <=> \E g \in 1 .. Len(ss) : h \in Range(ss[g])
  BY <1>3, FlattenHolds, Zenon DEF Holds
<1> QED
  BY <1>3, <1>4, <1>5, <1>6

NoWild(p) == \A i \in 1 .. Len(p) : ~Wild(p[i])

LEMMA NoWildIs ==
    ASSUME NEW p \in Seq(Segments)
    PROVE  (\A part \in Range(p) : ~Wild(part)) <=> NoWild(p)
<1>1. DOMAIN p = 1 .. Len(p)
  OBVIOUS
<1> QED
  BY <1>1 DEF NoWild, Range

LEMMA NoWildEnds ==
    ASSUME NEW p \in Seq(Segments), NoWild(p)
    PROVE  ~Ends(p) /\ \A i \in 1 .. Len(p) : p[i] \notin CatchAlls
<1>1. \A i \in 1 .. Len(p) : p[i] \notin CatchAlls
  BY DEF NoWild, Wild
<1>2. p # <<>> => Len(p) \in 1 .. Len(p)
  OBVIOUS
<1> QED
  BY <1>1, <1>2 DEF Ends, Last

LEMMA NoWildParts ==
    ASSUME NEW p \in Seq(Segments), NEW q \in Seq(Segments), NoWild(p \o q)
    PROVE  NoWild(p) /\ NoWild(q)
<1> DEFINE c == p \o q
<1>1. /\ Len(c) = Len(p) + Len(q) /\ Len(p) \in Nat /\ Len(q) \in Nat
      /\ \A i \in 1 .. Len(p) : c[i] = p[i]
      /\ \A i \in 1 .. Len(q) : c[Len(p) + i] = q[i]
  BY ConcatIs
<1>2. NoWild(c)
  OBVIOUS
<1> HIDE DEF c
<1>3. ASSUME NEW i \in 1 .. Len(p) PROVE ~Wild(p[i])
  <2>1. i \in 1 .. Len(c)
    BY <1>1
  <2> QED
    BY <1>1, <1>2, <2>1 DEF NoWild
<1>4. ASSUME NEW i \in 1 .. Len(q) PROVE ~Wild(q[i])
  <2>1. Len(p) + i \in 1 .. Len(c)
    BY <1>1
  <2>2. ~Wild(c[Len(p) + i])
    BY <1>2, <2>1 DEF NoWild
  <2> QED
    BY <1>1, <2>2
<1> QED
  BY <1>3, <1>4 DEF NoWild

(* normalizePrefix leaves no empty part inside a prefix of the list.       *)
PlainSpecs(specs) == \A k \in 1 .. Len(specs) : Plain(normalizePrefix(specs[k].segs))

ParsedTo(gs, ws, h) == NoWild(gs[h].prefix) => parsePattern(ws[h]) = gs[h].prefix

LEMMA PrefixParsed ==
    ASSUME NEW specs, WellMade(specs), PlainSpecs(specs), NEW gs, Grouped(specs, Len(specs), gs),
           NEW ws, Worded(specs, Len(specs), ws), NEW j \in 1 .. Len(specs),
           ParsedTo(gs, ws, specs[j].parent)
    PROVE  ParsedTo(gs, ws, j + 1)
<1> DEFINE up == specs[j].parent
           segs == specs[j].segs
           norm == normalizePrefix(segs)
           a == gs[up].prefix
<1>1. /\ up \in 1 .. j /\ segs \in Seq(Segments) /\ norm \in Seq(Segments)
      /\ \E lead : Shape(segs, norm, lead)
  BY SpecIs
<1>2. PICK lead : Shape(segs, norm, lead)
  BY <1>1
<1>3. Plain(norm)
  BY DEF PlainSpecs
<1>4. a \in Seq(Segments) /\ ws[up] \in Seq(Segments)
  <2>1. Len(specs) \in Nat
    BY DEF WellMade
  <2>2. up \in 1 .. Len(specs) + 1
    BY <1>1, <2>1
  <2>3. gs[up] \in Group /\ ws[up] \in Seq(Segments)
    BY <2>1, <2>2 DEF Grouped, Worded
  <2> QED
    BY <2>3 DEF Group
<1>5. gs[j + 1].prefix = a \o norm /\ ws[j + 1] = ws[up] \o segs
  <2>1. gs[j + 1] = NextGroup(specs, j, gs) /\ ws[j + 1] = NextWords(specs, j, ws)
    BY DEF Grouped, Worded
  <2>2. gs[j + 1] = [prefix |-> a \o norm, uses |-> <<j + 1>>]
    BY <2>1, Zenon DEF NextGroup, Router
  <2>3. ws[j + 1] = ws[up] \o segs
    BY <2>1, Zenon DEF NextWords
  <2> HIDE DEF a, norm, up, segs
  <2> QED
    BY <2>2, <2>3
<1>6. NoWild(a) => parsePattern(ws[up]) = a
  BY DEF ParsedTo
<1> HIDE DEF up, segs, norm, a
<1>7. ASSUME NoWild(a \o norm) PROVE parsePattern(ws[up] \o segs) = a \o norm
  <2>1. NoWild(a) /\ NoWild(norm)
    BY <1>1, <1>4, <1>7, NoWildParts
  <2>2. parsePattern(ws[up]) = a
    BY <1>6, <2>1
  <2>3. ~Ends(parsePattern(ws[up])) /\ \A i \in 1 .. Len(norm) : norm[i] \notin CatchAlls
    BY <1>1, <1>4, <2>1, <2>2, NoWildEnds
  <2>4. parsePattern(ws[up] \o segs) = parsePattern(ws[up]) \o norm
    BY <1>1, <1>2, <1>3, <1>4, <2>3, ParsedMore
  <2> QED
    BY <2>2, <2>4
<1> QED
  BY <1>5, <1>7, Zenon DEF ParsedTo

LEMMA PrefixesParsed ==
    ASSUME NEW specs, WellMade(specs), PlainSpecs(specs), NEW gs, Grouped(specs, Len(specs), gs),
           NEW ws, Worded(specs, Len(specs), ws), NEW h \in 1 .. Len(specs) + 1
    PROVE  ParsedTo(gs, ws, h)
<1> DEFINE n == Len(specs)
           S == {m \in Nat : \A i \in 1 .. n + 1 : i <= m => ParsedTo(gs, ws, i)}
<1>1. n \in Nat
  BY DEF WellMade
<1>2. 0 \in S
  BY <1>1
<1>3. ParsedTo(gs, ws, 1)
  <2> DEFINE none == <<>>
  <2>1. none \in Seq(Segments) /\ Len(none) = 0
    OBVIOUS
  <2>2. gs[1].prefix = none /\ ws[1] = none
    BY DEF Grouped, Worded
  <2> HIDE DEF none
  <2>3. parsePattern(none) = <<>>
    BY <2>1, KeptAt
  <2> QED
    BY <2>2, <2>3, Zenon DEF ParsedTo, none
<1>4. ASSUME NEW m \in Nat, m \in S PROVE m + 1 \in S
  <2> SUFFICES ASSUME NEW i \in 1 .. n + 1, i <= m + 1 PROVE ParsedTo(gs, ws, i)
    OBVIOUS
  <2>1. CASE i = 1
    BY <1>3, <2>1
  <2>2. CASE i # 1
    <3> DEFINE j == i - 1
    <3>1. j \in 1 .. n /\ j + 1 = i /\ j <= m
      BY <1>1, <2>2
    <3> HIDE DEF j
    <3>2. specs[j].parent \in 1 .. j
      BY <3>1, SpecIs DEF n
    <3>3. specs[j].parent \in 1 .. n + 1 /\ specs[j].parent <= m
      BY <1>1, <3>1, <3>2
    <3>4. ParsedTo(gs, ws, specs[j].parent)
      BY <1>4, <3>3
    <3>5. ParsedTo(gs, ws, j + 1)
      BY <3>1, <3>4, PrefixParsed
    <3> QED
      BY <3>1, <3>5
  <2> QED
    BY <2>1, <2>2
<1>5. n + 1 \in S
  <2>1. n + 1 \in Nat
    BY <1>1
  <2> HIDE DEF S, n
  <2> QED BY <1>2, <1>4, <2>1, SetInduction
<1> QED
  BY <1>1, <1>5

(* A path that a route of a group answers begins with the group's prefix.  *)
(* A route with q in front, which has nothing wild, is answered only to a  *)
(* path that is parsed to q and what follows it.                           *)
LEMMA RouteBehind ==
    ASSUME NEW q \in Seq(Segments), NoWild(q), Plain(q), NEW rest \in Seq(Segments),
           NEW path \in Seq(Segments), NEW c, c = q \o rest,
           getRoute(Table(<<c>>), path).handler # 0
    PROVE  IsPrefix(q, parsePattern(path))
<1> DEFINE patterns == <<c>>
           s == parsePattern(path)
           p == parsePattern(c)
<1>1. c \in Seq(Segments)
  BY ConcatIs
<1>2. patterns \in Seq(Seq(Segments)) /\ Len(patterns) = 1 /\ patterns[1] = c
  BY <1>1
<1>3. Matches(p, s)
  <2> HIDE DEF patterns
  <2> DEFINE R == [i \in 1 .. Len(patterns) |-> parsePattern(patterns[i])]
             answer == getRoute(Table(patterns), path)
  <2>1. RoutedWell(patterns, path)
    BY <1>2, RoutesAnswered
  <2>2. answer.handler # 0
    BY DEF patterns
  <2>3. R[answer.handler] \in {r \in Range(R) : Matches(r, s)}
    BY <2>1, <2>2, Zenon DEF RoutedWell
  <2>4. Range(R) = {p}
    <3>1. DOMAIN R = 1 .. 1 /\ R[1] = p
      <4>1. Len(patterns) = 1 /\ patterns[1] = c /\ 1 \in 1 .. 1
        BY <1>2
      <4>2. R = [i \in 1 .. 1 |-> parsePattern(patterns[i])]
        BY <4>1, Zenon
      <4>3. DOMAIN R = 1 .. 1 /\ R[1] = parsePattern(patterns[1])
        BY <4>1, <4>2, Zenon
      <4> QED
        BY <4>1, <4>3, Zenon
    <3>2. Range(R) = {R[i] : i \in DOMAIN R}
      BY DEF Range
    <3> HIDE DEF R, p
    <3> QED
      BY <3>1, <3>2
  <2> HIDE DEF R
  <2> QED
    BY <2>3, <2>4
<1>4. p \in Seq(Segments) /\ s \in Seq(Segments)
  BY <1>1, Parsed DEF Canonical
<1>5. IsPrefix(q, p)
  <2>1. parsePattern(q) = q
    BY NoWildEnds, PlainParsed
  <2>2. IsPrefix(parsePattern(q), parsePattern(q \o rest))
    BY ParsedStays
  <2> QED
    BY <2>1, <2>2
<1> HIDE DEF p
<1>6. Len(q) <= Len(p) /\ \A i \in 1 .. Len(q) : q[i] = p[i]
  BY <1>4, <1>5, PrefixIs
<1> HIDE DEF s
<1>7. Len(q) \in Nat /\ Len(p) \in Nat /\ Len(s) \in Nat
  BY <1>4
<1>8. Len(p) <= Len(s) /\ \A i \in 1 .. Len(p) : Wild(p[i]) \/ p[i] = s[i]
  BY <1>3, <1>7 DEF Matches
<1>9. ASSUME NEW i \in 1 .. Len(q) PROVE q[i] = s[i]
  <2>1. i \in 1 .. Len(p)
    BY <1>6, <1>7
  <2>2. ~Wild(q[i])
    BY DEF NoWild
  <2> QED
    BY <1>6, <1>8, <2>1, <2>2
<1>10. Len(q) <= Len(s)
  BY <1>6, <1>7, <1>8
<1> QED
  BY <1>4, <1>9, <1>10, PrefixIs DEF s

(* The patterns a group gives its routes, with a slash and without.        *)
LEMMA PatternIs ==
    ASSUME NEW a \in Seq(Segments), NoWild(a), Plain(a), NEW comp \in Seq(Segments), comp # <<>>,
           GluesApart(a, comp)
    PROVE  \E q \in Seq(Segments), rest \in Seq(Segments) :
             /\ PatternOf(a, comp) = q \o rest /\ NoWild(q) /\ Plain(q)
             /\ a = <<>> \/ comp[1] = Empty => q = a
             /\ a # <<>> /\ comp[1] # Empty => Len(q) = Len(a) /\ q[Len(a)] # a[Len(a)]
<1>1. CASE a = <<>>
  <2>1. a \o comp = comp
    BY <1>1
  <2>2. PatternOf(a, comp) = a \o comp
    BY <1>1, <2>1 DEF PatternOf
  <2> QED
    BY <1>1, <2>2
<1>2. CASE a # <<>>
  <2> DEFINE n == Len(a)
             part == IF comp[1] = Empty THEN Last(a) ELSE Glue(Last(a), comp[1])
             front == Front(a)
             one == <<part>>
             q == front \o one
             rest == Tail(comp)
  <2>1. n \in Nat \ {0} /\ Last(a) = a[n] /\ n \in 1 .. n
    BY <1>2 DEF Last
  <2>2. a[n] \in Segments /\ ~Wild(a[n]) /\ a[n] # Empty
    BY <2>1 DEF NoWild, Plain
  <2>3. /\ part \in Segments /\ ~Wild(part) /\ part # Empty
        /\ comp[1] = Empty => part = a[n]
        /\ comp[1] # Empty => part # a[n]
    <3>1. CASE comp[1] = Empty
      <4>1. part = a[n]
        BY <2>1, <3>1
      <4> QED
        BY <2>2, <3>1, <4>1
    <3>2. CASE comp[1] # Empty
      <4>1. part = Glue(Last(a), comp[1])
        BY <3>2
      <4> HIDE DEF part
      <4>2. part \in Segments /\ part \notin {Last(a), Empty} /\ ~Wild(part)
        BY <1>2, <2>1, <2>2, <3>2, <4>1 DEF GluesApart
      <4> QED
        BY <2>1, <3>2, <4>2
    <3> QED
      BY <3>1, <3>2
  <2> HIDE DEF part
  <2>4. /\ front \in Seq(Segments) /\ Len(front) = n - 1
        /\ \A i \in 1 .. n - 1 : front[i] = a[i]
    <3>1. front = [i \in 1 .. n - 1 |-> a[i]]
      BY DEF Front
    <3>2. \A i \in 1 .. n - 1 : a[i] \in Segments
      BY <2>1
    <3>3. n - 1 \in Nat
      BY <2>1
    <3> HIDE DEF n, front
    <3> QED
      BY <3>1, <3>2, <3>3
  <2>5. one \in Seq(Segments) /\ Len(one) = 1 /\ one[1] = part
    BY <2>3
  <2> HIDE DEF front, one
  <2>6. /\ q \in Seq(Segments) /\ Len(q) = n /\ q[n] = part
        /\ \A i \in 1 .. n - 1 : q[i] = a[i]
    <3>1. /\ q \in Seq(Segments) /\ Len(q) = Len(front) + Len(one)
          /\ \A i \in 1 .. Len(front) : q[i] = front[i]
          /\ \A i \in 1 .. Len(one) : q[Len(front) + i] = one[i]
      BY <2>4, <2>5, ConcatIs
    <3> HIDE DEF q, n
    <3> QED
      BY <2>1, <2>4, <2>5, <3>1
  <2>7. rest \in Seq(Segments)
    OBVIOUS
  <2>8. PatternOf(a, comp) = q \o rest
    BY <1>2, Zenon DEF PatternOf, q, front, one, part, rest
  <2> HIDE DEF q, rest
  <2>9. ASSUME NEW i \in 1 .. Len(q) PROVE ~Wild(q[i]) /\ q[i] # Empty
    <3>1. CASE i = n
      BY <2>3, <2>6, <3>1
    <3>2. CASE i # n
      <4>1. i \in 1 .. n - 1 /\ i \in 1 .. Len(a)
        BY <2>1, <2>6, <3>2
      <4> QED
        BY <2>6, <4>1 DEF NoWild, Plain
    <3> QED
      BY <3>1, <3>2
  <2>10. NoWild(q) /\ Plain(q)
    BY <2>9 DEF NoWild, Plain
  <2>11. comp[1] = Empty => q = a
    <3> SUFFICES ASSUME comp[1] = Empty PROVE q = a
      OBVIOUS
    <3>1. \A i \in 1 .. n : q[i] = a[i]
      BY <2>1, <2>3, <2>6
    <3> QED
      BY <2>6, <3>1
  <2>12. comp[1] # Empty => q[n] # a[n]
    BY <2>3, <2>6
  <2> QED
    BY <1>2, <2>6, <2>7, <2>8, <2>10, <2>11, <2>12
<1> QED
  BY <1>1, <1>2

(* Of what the route answers, the paths that begin with the prefix.        *)
LEMMA RouteInGroup ==
    ASSUME NEW a \in Seq(Segments), NoWild(a), Plain(a), NEW comp \in Seq(Segments), comp # <<>>,
           GluesApart(a, comp), NEW path \in Seq(Segments),
           getRoute(Table(<<PatternOf(a, comp)>>), path).handler # 0
    PROVE  IsPrefix(a, path) <=> /\ a = <<>> \/ comp[1] = Empty
                                 /\ \A i \in 1 .. Len(a) : path[i] # Empty
<1>1. PICK q \in Seq(Segments), rest \in Seq(Segments) :
        /\ PatternOf(a, comp) = q \o rest /\ NoWild(q) /\ Plain(q)
        /\ a = <<>> \/ comp[1] = Empty => q = a
        /\ a # <<>> /\ comp[1] # Empty => Len(q) = Len(a) /\ q[Len(a)] # a[Len(a)]
  BY PatternIs
<1> DEFINE s == parsePattern(path)
<1>2. IsPrefix(q, s)
  <2> DEFINE c == PatternOf(a, comp)
  <2>1. c = q \o rest /\ NoWild(q) /\ Plain(q) /\ getRoute(Table(<<c>>), path).handler # 0
    BY <1>1
  <2> HIDE DEF c, s
  <2>2. IsPrefix(q, parsePattern(path))
    BY <2>1, RouteBehind, Zenon
  <2> QED
    BY <2>2 DEF s
<1>3. s \in Seq(Segments) /\ Len(s) \in Nat /\ Len(a) \in Nat /\ Len(path) \in Nat
  BY Parsed DEF Canonical
<1>4. Len(s) <= Len(path)
  <2>1. 0 \in 0 .. Len(path) /\ \A i \in 1 .. 0 : path[i] # Empty
    BY <1>3
  <2> QED
    BY <2>1, PathBegins, Zenon
<1>5. ASSUME Len(a) <= Len(path), \A i \in 1 .. Len(a) : path[i] # Empty
      PROVE  \A i \in 1 .. Len(a) : i <= Len(s) => s[i] = path[i]
  <2>1. Len(a) \in 0 .. Len(path)
    BY <1>3, <1>5
  <2> QED
    BY <1>5, <2>1, PathBegins
<1> HIDE DEF s
<1>6. Len(q) <= Len(s) /\ \A i \in 1 .. Len(q) : q[i] = s[i]
  BY <1>2, <1>3, PrefixIs
<1>7. ASSUME IsPrefix(a, path)
      PROVE  /\ a = <<>> \/ comp[1] = Empty
             /\ \A i \in 1 .. Len(a) : path[i] # Empty
  <2>1. Len(a) <= Len(path) /\ \A i \in 1 .. Len(a) : a[i] = path[i]
    BY <1>7, PrefixIs
  <2>2. \A i \in 1 .. Len(a) : path[i] # Empty
    BY <2>1 DEF Plain
  <2>3. ASSUME a # <<>>, comp[1] # Empty PROVE FALSE
    <3>1. Len(a) \in 1 .. Len(a) /\ Len(q) = Len(a)
      BY <1>1, <2>3
    <3>2. s[Len(a)] = path[Len(a)] /\ q[Len(a)] = s[Len(a)]
      BY <1>5, <1>6, <2>1, <2>2, <3>1
    <3> QED
      BY <1>1, <2>1, <2>3, <3>1, <3>2
  <2> QED
    BY <2>2, <2>3
<1>8. ASSUME a = <<>> \/ comp[1] = Empty, \A i \in 1 .. Len(a) : path[i] # Empty
      PROVE  IsPrefix(a, path)
  <2>1. q = a
    BY <1>1, <1>8
  <2>2. Len(a) <= Len(s) /\ Len(a) <= Len(path) /\ \A i \in 1 .. Len(a) : a[i] = s[i]
    <3>1. Len(a) <= Len(s) /\ \A i \in 1 .. Len(a) : a[i] = s[i]
      BY <1>6, <2>1
    <3>2. Len(s) <= Len(path)
      BY <1>4 DEF s
    <3>. HIDE DEF s
    <3>3. Len(a) <= Len(path)
      BY <1>3, <3>1, <3>2
    <3> QED
      BY <3>1, <3>3
  <2>3. \A i \in 1 .. Len(a) : s[i] = path[i]
    BY <1>3, <1>5, <1>8, <2>2
  <2> QED
    BY <2>2, <2>3, PrefixIs
<1> QED
  BY <1>7, <1>8

(* Every middleware runs behind the prefix of its group, and so for the    *)
(* requests that a route of that group answers.                            *)
LEMMA GroupsGuarded ==
    ASSUME NEW specs, WellMade(specs), PlainSpecs(specs), NEW g \in 1 .. Len(specs) + 1,
           NEW comp \in Seq(Segments), comp # <<>>, GluesApart(Groups(specs)[g].prefix, comp),
           NEW path \in Seq(Segments)
    PROVE  GroupGuarded(specs, g, comp, path)
<1> DEFINE n == Len(specs)
           gs == Groups(specs)
           ws == AsWritten(specs)
           prefix == gs[g].prefix
           runs == Range(Middlewares(gs, path))
           route == getRoute(Table(<<PatternOf(prefix, comp)>>), path)
           Static(h) == \A part \in Range(gs[h].prefix) : ~Wild(part)
           inside == /\ prefix = <<>> \/ comp[1] = Empty
                     /\ \A i \in 1 .. Len(prefix) : path[i] # Empty
<1>1. n \in Nat /\ Grouped(specs, n, gs) /\ Worded(specs, n, ws)
  <2>1. n \in Nat
    BY DEF WellMade
  <2>2. Grouped(specs, n, gs) /\ Worded(specs, n, ws)
    BY GroupsAre, WordsAre, Zenon
  <2> QED
    BY <2>1, <2>2
<1>2. ASSUME NEW h \in 1 .. n + 1
      PROVE  /\ gs[h].prefix \in Seq(Segments) /\ ws[h] \in Seq(Segments)
             /\ Static(h) <=> NoWild(gs[h].prefix)
             /\ h \in runs <=> IsPrefix(gs[h].prefix, path)
             /\ ParsedTo(gs, ws, h)
  <2> HIDE DEF gs, ws
  <2>1. gs[h] \in Group /\ ws[h] \in Seq(Segments)
    BY <1>1 DEF Grouped, Worded
  <2>2. gs[h].prefix \in Seq(Segments)
    BY <2>1 DEF Group
  <2> QED
    BY <1>1, <2>1, <2>2, NoWildIs, MiddlewaresAre, PrefixesParsed
<1>3. DOMAIN gs = 1 .. n + 1
  BY <1>1 DEF Grouped
<1>4. ASSUME NEW h \in 1 .. n + 1, Static(h) PROVE h \in runs <=> IsPrefix(parsePattern(ws[h]), path)
  <2> HIDE DEF gs, ws, runs, Static
  <2> QED BY <1>2, <1>4 DEF ParsedTo
<1>5. ASSUME route.handler # 0, Static(g) PROVE g \in runs <=> inside
  <2>1. /\ prefix \in Seq(Segments) /\ NoWild(prefix) /\ parsePattern(ws[g]) = prefix
        /\ ws[g] \in Seq(Segments)
    <3> HIDE DEF gs, ws, runs, Static
    <3> QED BY <1>2, <1>5 DEF ParsedTo
  <2>2. Plain(prefix)
    BY <2>1, Parsed DEF Canonical, Plain
  <2>3. getRoute(Table(<<PatternOf(prefix, comp)>>), path).handler # 0 /\ GluesApart(prefix, comp)
    BY <1>5
  <2>4. IsPrefix(prefix, path) <=> inside
    <3> HIDE DEF prefix
    <3> QED BY <2>1, <2>2, <2>3, RouteInGroup
  <2>5. g \in runs <=> IsPrefix(prefix, path)
    BY <1>2
  <2> HIDE DEF gs, prefix, runs, Static, inside
  <2> QED
    BY <2>4, <2>5
<1> QED
  BY <1>3, <1>4, <1>5, Zenon DEF GroupGuarded

(* Whatever is registered, in whatever order: a path is answered by the    *)
(* last handler of the best matching pattern, with parameters that give    *)
(* the path back, or by none if none matches (addRoute, insert, search,    *)
(* matchChildren, getRoute).                                               *)
THEOREM EveryTableAnswers ==
    \A patterns \in Seq(Seq(Segments)), path \in Seq(Segments) : RoutedWell(patterns, path)
BY RoutesAnswered

(* Whatever groups are made, however deep: where no prefix has an empty    *)
(* part inside, the middleware of a group without parameters in its prefix *)
(* runs for the paths below it as it was written and for no others; of     *)
(* what a route of the group answers it runs for all if the route was      *)
(* given a slash in front, but for the paths with an empty part within the *)
(* prefix, and for nothing at all if it was not (normalizePrefix,          *)
(* matchRouterPath, Router, Router.addRoute, ServeHTTP).                   *)
THEOREM EveryGroupGuards ==
    ASSUME NEW specs, WellMade(specs), PlainSpecs(specs)
    PROVE  \A g \in 1 .. Len(specs) + 1, comp \in Seq(Segments) \ {<<>>}, path \in Seq(Segments) :
               GluesApart(Groups(specs)[g].prefix, comp) => GroupGuarded(specs, g, comp, path)
<1>. TAKE g \in 1 .. Len(specs) + 1, comp \in Seq(Segments) \ {<<>>}, path \in Seq(Segments)
<1>. HAVE GluesApart(Groups(specs)[g].prefix, comp)
<1>. QED BY GroupsGuarded

(* The same for what the application registers before its first request.   *)
THEOREM RoutesAlwaysRight ==
    ASSUME PlainPrefixes
    PROVE  Spec => []RoutesRight
<1>1. ASSUME NEW p \in Seq(Segments) PROVE Empty \notin Range(p) <=> Plain(p)
  <2>1. DOMAIN p = 1 .. Len(p)
    OBVIOUS
  <2>. QED BY <2>1 DEF Plain, Range
<1>2. ASSUME NEW rs \in RouteLists, NEW path \in RoutedPaths PROVE RoutedWell(rs, path)
  <2>1. rs \in Seq(Seq(Segments)) /\ path \in Seq(Segments)
    BY HttpAssumption
  <2>. QED BY <2>1, EveryTableAnswers
<1>3. ASSUME NEW specs \in GroupSpecs, NEW comp \in Comps, NEW path \in RoutedPaths,
             NEW g \in 1 .. Len(specs) + 1
      PROVE  GroupGuarded(specs, g, comp, path)
  <2>1. /\ WellMade(specs) /\ comp \in Seq(Segments) \ {<<>>} /\ path \in Seq(Segments)
        /\ GluesApart(Groups(specs)[g].prefix, comp)
    BY HttpAssumption
  <2>2. ASSUME NEW k \in 1 .. Len(specs) PROVE Plain(normalizePrefix(specs[k].segs))
    <3>1. normalizePrefix(specs[k].segs) \in Seq(Segments)
      BY <2>1, SpecIs
    <3>2. Empty \notin Range(normalizePrefix(specs[k].segs))
      BY DEF PlainPrefixes
    <3>. QED BY <1>1, <3>1, <3>2
  <2>3. PlainSpecs(specs)
    BY <2>2 DEF PlainSpecs
  <2>. QED BY <2>1, <2>3, EveryGroupGuards
<1>4. RoutesRight
  BY <1>2, <1>3, Zenon DEF RoutesRight
<1>. QED BY <1>4, PTL

=============================================================================
