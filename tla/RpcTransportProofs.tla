------------------------- MODULE RpcTransportProofs -------------------------
(***************************************************************************)
(* Safety of the client's end of a connection, for any calls and streams,  *)
(* buffer size and number of frames.                                       *)
(***************************************************************************)
EXTENDS RpcTransport, TLAPS

(* Sequences and messages.                                                 *)

LEMMA FirstAndRest ==
    ASSUME NEW S, NEW s \in Seq(S), s # <<>>
    PROVE  Head(s) \in S /\ Tail(s) \in Seq(S) /\ Len(Tail(s)) <= Len(s)
OBVIOUS

LEMMA OneMore ==
    ASSUME NEW S, NEW s \in Seq(S), NEW e \in S
    PROVE  Append(s, e) \in Seq(S) /\ Len(Append(s, e)) = Len(s) + 1
OBVIOUS

LEMMA Prefix ==
    ASSUME NEW S, NEW s \in Seq(S), NEW k \in 0 .. Len(s)
    PROVE  SubSeq(s, 1, k) \in Seq(S)
OBVIOUS

LEMMA MessageParts ==
    ASSUME NEW m \in Messages
    PROVE  m.id \in Calls /\ m.flag \in Flags /\ m.n \in 0 .. MaxFrames
BY DEF Messages

LEMMA MessageType ==
    ASSUME NEW c \in Calls, NEW f \in Flags, NEW n \in 0 .. MaxFrames
    PROVE  Message(c, f, n) \in Messages
BY DEF Message, Messages

-----------------------------------------------------------------------------
(* The inductive invariant.                                                *)

(* The call has an entry or had one, and no result yet.                    *)
Live(c) ==
    /\ pc[c] \in {"stored", "ready", "waiting", "recv", "blocked"}
    /\ c \in Unary => out[c] = "open"
    /\ c \in Streams => term[c] = "none"

InHand(c) == hand.id = c /\ rpc \in {"deliver", "terminate"}

OfKind ==
    /\ \A c \in Calls : pc[c] = "waiting" => c \in Unary
    /\ \A c \in Calls : pc[c] \in {"recv", "blocked"} => c \in Streams
    /\ rpc = "deliver" => hand.id \in Unary
    /\ rpc = "terminate" => hand.id \in Streams

(* Only a call that has been stored is seen by reader and shutdown.        *)
Begun ==
    \A c \in Calls : c \in entries \/ c = cur => pc[c] \notin {"idle", "begun"}

InOrder == ~closed => sd = "no"

CurResolved == cur # NoCall => ~Live(cur)

Held == \A c \in Calls : Live(c) => c \in entries \/ InHand(c)

(* A call past its second look at closed is still ahead of the sweep.      *)
AheadOfSweep ==
    \A c \in entries : Live(c) /\ pc[c] # "stored" =>
        /\ sd # "over"
        /\ c \in Unary => sd # "streams" /\ (sd = "pending" => c \in due)
        /\ c \in Streams => (sd = "streams" => c \in due)

Tracking == OfKind /\ Begun /\ InOrder /\ CurResolved /\ Held /\ AheadOfSweep

IInv == TypeOK /\ Tracking

LEMMA InitIInv == Init => IInv
<1> SUFFICES ASSUME Init PROVE IInv
  OBVIOUS
<1> USE TransportAssumption
<1>1. TypeOK
  <2>1. Len(<<>>) = 0 /\ \A S : <<>> \in Seq(S)
    OBVIOUS
  <2>2. /\ pc \in [Calls -> PCs] /\ out \in [Calls -> Outcomes]
        /\ term \in [Streams -> {"none", "eof", "error"}]
        /\ ctxDone \in [Streams -> BOOLEAN]
        /\ entries \subseteq Calls /\ due \subseteq Calls /\ handlers \subseteq Streams
        /\ rpc \in Readers /\ sd \in Stages
    BY DEF Init, PCs, Outcomes, Readers, Stages
  <2>3. /\ buf \in [Streams -> Seq(0 .. MaxFrames)]
        /\ got \in [Streams -> Seq(0 .. MaxFrames)]
        /\ \A c \in Streams : Len(buf[c]) <= BufferSize
        /\ up \in Seq(Calls) /\ down \in Seq(Messages)
    BY <2>1 DEF Init
  <2>4. sent \in [Streams -> 0 .. MaxFrames]
    BY DEF Init
  <2> QED
    BY <2>2, <2>3, <2>4 DEF Init, TypeOK
<1>2. Tracking
  BY DEF Init, Tracking, OfKind, Begun, InOrder, CurResolved, Held, AheadOfSweep, Live
<1> QED
  BY <1>1, <1>2 DEF IInv

-----------------------------------------------------------------------------
(* Every step keeps the types.                                             *)

LEMMA StepTypeOK == TypeOK /\ Tracking /\ [Next]_vars => TypeOK'
<1> SUFFICES ASSUME TypeOK, OfKind, [Next]_vars PROVE TypeOK'
  BY DEF Tracking
<1> USE TransportAssumption
        DEF Calls, callVars, streamVars, readVars, downVars, netVars, serverVars
<1>1. ASSUME NEW c \in Calls, Begin(c) PROVE TypeOK'
  BY <1>1 DEF TypeOK, Begin, Goto, PCs
<1>2. ASSUME NEW c \in Calls, StoreEntry(c) PROVE TypeOK'
  BY <1>2 DEF TypeOK, StoreEntry, Goto, PCs, Outcomes
<1>3. ASSUME NEW c \in Calls, Recheck(c) PROVE TypeOK'
  BY <1>3 DEF TypeOK, Recheck, Goto, PCs
<1>4. ASSUME NEW c \in Calls, Write(c) PROVE TypeOK'
  <2>1. up' \in Seq(Calls)
    BY <1>4, OneMore DEF TypeOK, Write
  <2> QED
    BY <1>4, <2>1 DEF TypeOK, Write, Sent, Goto, PCs
<1>5. ASSUME NEW c \in Calls, WriteFails(c) PROVE TypeOK'
  BY <1>5 DEF TypeOK, WriteFails, Shutdown, Goto, PCs, Stages
<1>6. ASSUME NEW c \in Unary, Expire(c) PROVE TypeOK'
  BY <1>6 DEF TypeOK, Expire, Done, Outcomes
<1>7. ASSUME NEW c \in Streams, CancelStream(c) PROVE TypeOK'
  BY <1>7 DEF TypeOK, CancelStream
<1>8. ASSUME NEW c \in Streams, TakeFrame(c),
             UNCHANGED <<entries, ctxDone, readVars, downVars, netVars, serverVars>>
      PROVE  TypeOK'
  <2>1. Head(buf[c]) \in 0 .. MaxFrames /\ Tail(buf[c]) \in Seq(0 .. MaxFrames)
        /\ Len(Tail(buf[c])) <= Len(buf[c])
    BY <1>8, FirstAndRest DEF TypeOK, TakeFrame
  <2>2. Append(got[c], Head(buf[c])) \in Seq(0 .. MaxFrames)
    BY <2>1, OneMore DEF TypeOK
  <2>3. buf' \in [Streams -> Seq(0 .. MaxFrames)] /\ got' \in [Streams -> Seq(0 .. MaxFrames)]
    BY <1>8, <2>1, <2>2 DEF TypeOK, TakeFrame
  <2>4. \A d \in Streams : Len(buf'[d]) <= BufferSize
    BY <1>8, <2>1 DEF TypeOK, TakeFrame
  <2> QED
    BY <1>8, <2>3, <2>4 DEF TypeOK, TakeFrame, Goto, PCs
<1>9. ASSUME NEW c \in Streams, Recv(c) PROVE TypeOK'
  <2>1. CASE TakeFrame(c)
    BY <1>8, <1>9, <2>1 DEF Recv
  <2>2. CASE ~TakeFrame(c)
    BY <1>9, <2>2 DEF TypeOK, Recv, Goto, PCs
  <2> QED
    BY <2>1, <2>2
<1>10. ASSUME NEW c \in Streams, RecvBlocked(c) PROVE TypeOK'
  <2>1. CASE TakeFrame(c)
    BY <1>8, <1>10, <2>1 DEF RecvBlocked
  <2>2. CASE ~TakeFrame(c)
    <3>0. PICK how \in {"eof", "error"} : EndRecv(c, how)
      <4>1. term[c] \in {"none", "eof", "error"}
        BY DEF TypeOK
      <4> QED
        BY <1>10, <2>2, <4>1 DEF RecvBlocked
    <3>1. out' \in [Calls -> Outcomes] /\ pc' \in [Calls -> PCs]
      BY <3>0 DEF TypeOK, EndRecv, Goto, PCs, Outcomes
    <3>2. UNCHANGED <<entries, buf, term, ctxDone, got, readVars, downVars, netVars, serverVars>>
      BY <1>10, <2>2 DEF RecvBlocked, EndRecv
    <3> QED
      BY <3>1, <3>2 DEF TypeOK
  <2> QED
    BY <2>1, <2>2
<1>11. CASE Dispatch
  <2>1. Head(down) \in Messages /\ down' \in Seq(Messages)
    BY <1>11, FirstAndRest DEF TypeOK, Dispatch
  <2>2. rpc' \in Readers /\ hand' \in Messages \cup {NoMessage} /\ entries' \subseteq Calls
    BY <1>11, <2>1 DEF TypeOK, Dispatch, HandFor, Readers
  <2> QED
    BY <1>11, <2>1, <2>2 DEF TypeOK, Dispatch
<1>12. CASE Deliver
  BY <1>12 DEF TypeOK, Deliver, Done, ReadOn, Outcomes, Readers
<1>13. CASE Push
  <2>1. hand = NoMessage \/ hand.n \in 0 .. MaxFrames
    BY MessageParts DEF TypeOK
  <2>2. hand.n \in 0 .. MaxFrames
    BY <2>1 DEF NoMessage
  <2>3. \A d \in Streams : /\ Append(buf[d], hand.n) \in Seq(0 .. MaxFrames)
                           /\ Len(Append(buf[d], hand.n)) = Len(buf[d]) + 1
                           /\ Len(buf[d]) \in Nat
    BY <2>2, OneMore DEF TypeOK
  <2>4. /\ buf' \in [Streams -> Seq(0 .. MaxFrames)]
        /\ \A d \in Streams : Len(buf'[d]) <= BufferSize
    <3>1. CASE UNCHANGED buf
      BY <3>1 DEF TypeOK
    <3>2. CASE /\ Len(buf[hand.id]) < BufferSize
               /\ buf' = [buf EXCEPT ![hand.id] = Append(@, hand.n)]
      <4>1. \A d \in Streams :
                buf'[d] = IF d = hand.id THEN Append(buf[d], hand.n) ELSE buf[d]
        BY <3>2 DEF TypeOK
      <4>2. buf' = [d \in Streams |-> buf'[d]]
        BY <3>2 DEF TypeOK
      <4>3. \A d \in Streams : buf[d] \in Seq(0 .. MaxFrames) /\ Len(buf[d]) <= BufferSize
        BY DEF TypeOK
      <4>4. \A d \in Streams : Len(buf'[d]) <= BufferSize
        BY <2>3, <3>2, <4>1, <4>3
      <4>5. \A d \in Streams : buf'[d] \in Seq(0 .. MaxFrames)
        BY <2>3, <4>1, <4>3
      <4> QED
        BY <4>2, <4>4, <4>5
    <3> QED
      BY <1>13, <3>1, <3>2 DEF Push
  <2> QED
    BY <1>13, <2>4 DEF TypeOK, Push, ReadOn, Readers
<1>14. CASE EndStream
  BY <1>14 DEF TypeOK, EndStream, Terminate, ReadOn, Readers
<1>15. CASE ReadFails
  BY <1>15 DEF TypeOK, ReadFails, Shutdown, Readers, Stages
<1>16. CASE Close
  BY <1>16 DEF TypeOK, Close, Shutdown, Stages
<1>17. CASE CloseConn
  BY <1>17 DEF TypeOK, CloseConn, Stages
<1>18. ASSUME NEW c \in Calls, Resolve(c) PROVE TypeOK'
  BY <1>18 DEF TypeOK, Resolve, Done, Terminate, Outcomes
<1>19. CASE DeleteEntry
  BY <1>19 DEF TypeOK, DeleteEntry
<1>20. CASE RangeEnds
  BY <1>20 DEF TypeOK, RangeEnds, Stages
<1>21. ASSUME NEW c \in Calls, NEW f \in Flags, NEW n \in 0 .. MaxFrames,
              Reply(Message(c, f, n))
       PROVE  down' \in Seq(Messages)
  BY <1>21, MessageType, OneMore DEF TypeOK, Reply
<1>22. CASE Reject
  <2>1. Head(up) \in Calls /\ up' \in Seq(Calls)
    BY <1>22, FirstAndRest DEF TypeOK, Reject
  <2>2. down' \in Seq(Messages)
    BY <1>21, <1>22, <2>1 DEF Reject, Flags
  <2> QED
    BY <1>22, <2>1, <2>2 DEF TypeOK, Reject
<1>23. CASE Serve
  <2>1. Head(up) \in Calls /\ up' \in Seq(Calls)
    BY <1>23, FirstAndRest DEF TypeOK, Serve
  <2> QED
    BY <1>23, <2>1 DEF TypeOK, Serve
<1>24. CASE AnswerCall
  <2>1. down' \in Seq(Messages)
    BY <1>21, <1>24 DEF TypeOK, AnswerCall, Flags
  <2> QED
    BY <1>24, <2>1 DEF TypeOK, AnswerCall
<1>25. ASSUME NEW c \in Streams, SendFrame(c) PROVE TypeOK'
  <2>1. sent[c] + 1 \in 0 .. MaxFrames
    BY <1>25 DEF TypeOK, SendFrame
  <2>2. down' \in Seq(Messages)
    BY <1>21, <1>25, <2>1 DEF SendFrame, Flags
  <2> QED
    BY <1>25, <2>1, <2>2 DEF TypeOK, SendFrame
<1>26. ASSUME NEW c \in Streams, HandlerReturns(c) PROVE TypeOK'
  <2>1. down' \in Seq(Messages)
    BY <1>21, <1>26 DEF HandlerReturns, Flags
  <2> QED
    BY <1>26, <2>1 DEF TypeOK, HandlerReturns
<1>27. CASE Break
  <2>1. down' \in Seq(Messages) /\ up' \in Seq(Calls)
    BY <1>27, Prefix DEF TypeOK, Break
  <2> QED
    BY <1>27, <2>1 DEF TypeOK, Break
<1>28. CASE UNCHANGED vars
  BY <1>28 DEF TypeOK, vars
<1> QED
  BY <1>1, <1>2, <1>3, <1>4, <1>5, <1>6, <1>7, <1>9, <1>10, <1>11, <1>12, <1>13,
     <1>14, <1>15, <1>16, <1>17, <1>18, <1>19, <1>20, <1>22, <1>23, <1>24, <1>25,
     <1>26, <1>27, <1>28
  DEF Next, Send, ReadLoop, Sweep, Other

-----------------------------------------------------------------------------
(* Every step keeps track of the calls.                                    *)

LEMMA StepTracking == TypeOK /\ Tracking /\ [Next]_vars => Tracking'
<1> SUFFICES ASSUME TypeOK, Tracking, [Next]_vars PROVE Tracking'
  OBVIOUS
<1> USE TransportAssumption
        DEF Calls, callVars, streamVars, readVars, downVars, netVars, serverVars
<1>0. /\ pc \in [Calls -> PCs] /\ out \in [Calls -> Outcomes]
      /\ term \in [Streams -> {"none", "eof", "error"}]
      /\ entries \subseteq Calls /\ cur \in Calls \cup {NoCall}
      /\ closed \in BOOLEAN /\ sd \in Stages
  BY DEF TypeOK
<1> USE DEF Tracking, OfKind, Begun, InOrder, CurResolved, Held, AheadOfSweep, Live, InHand
<1>1. ASSUME NEW c \in Calls, Begin(c) PROVE Tracking'
  BY <1>0, <1>1 DEF Begin, Goto
<1>2. ASSUME NEW c \in Calls, StoreEntry(c) PROVE Tracking'
  BY <1>0, <1>2 DEF StoreEntry, Goto
<1>3. ASSUME NEW c \in Calls, Recheck(c) PROVE Tracking'
  BY <1>0, <1>3 DEF Recheck, Goto
<1>4. ASSUME NEW c \in Calls, Write(c) PROVE Tracking'
  BY <1>0, <1>4 DEF Write, Sent, Goto
<1>5. ASSUME NEW c \in Calls, WriteFails(c) PROVE Tracking'
  BY <1>0, <1>5 DEF WriteFails, Shutdown, Goto
<1>6. ASSUME NEW c \in Unary, Expire(c) PROVE Tracking'
  BY <1>0, <1>6 DEF Expire, Done
<1>6a. ASSUME NEW c \in Streams, pc[c] \in {"recv", "blocked"},
              NEW l \in {"recv", "blocked", "ended"}, Goto(c, l),
              \A d \in Unary : out'[d] = out[d],
              UNCHANGED <<entries, term, readVars, downVars>>
       PROVE  Tracking'
  <2>1. c \notin Unary /\ \A d \in Calls : pc'[d] = IF d = c THEN l ELSE pc[d]
    BY <1>0, <1>6a DEF Goto
  <2>2. \A d \in Calls : Live(d)' => Live(d)
    BY <1>6a, <2>1
  <2>3. OfKind' /\ Begun' /\ InOrder' /\ CurResolved'
    BY <1>0, <1>6a, <2>1, <2>2
  <2>4. Held' /\ AheadOfSweep'
    BY <1>0, <1>6a, <2>1, <2>2
  <2> QED
    BY <2>3, <2>4
<1>7. ASSUME NEW c \in Streams, Recv(c) PROVE Tracking'
  <2>1. UNCHANGED <<out, entries, term, readVars, downVars>> /\ pc[c] = "recv"
    BY <1>7 DEF Recv, TakeFrame
  <2>2. Goto(c, "recv") \/ Goto(c, "blocked")
    BY <1>7 DEF Recv, TakeFrame
  <2> QED
    BY <1>6a, <2>1, <2>2
<1>8. ASSUME NEW c \in Streams, RecvBlocked(c) PROVE Tracking'
  <2>1. UNCHANGED <<entries, term, readVars, downVars>> /\ pc[c] = "blocked"
    BY <1>8 DEF RecvBlocked, TakeFrame, EndRecv
  <2>2. Goto(c, "recv") \/ Goto(c, "ended")
    BY <1>8 DEF RecvBlocked, TakeFrame, EndRecv
  <2>3. \A d \in Unary : out'[d] = out[d]
    BY <1>0, <1>8 DEF RecvBlocked, TakeFrame, EndRecv
  <2> QED
    BY <1>6a, <2>1, <2>2, <2>3
<1>9. CASE Dispatch
  <2>1. Head(down).flag \in Flags
    BY <1>9, FirstAndRest, MessageParts DEF TypeOK, Dispatch
  <2> QED
    BY <1>0, <1>9, <2>1 DEF Dispatch, HandFor, Answers, Flags
<1>10. CASE Deliver
  BY <1>0, <1>10 DEF Deliver, Done, ReadOn, NoMessage
<1>11. CASE Push
  BY <1>0, <1>11 DEF Push, ReadOn, NoMessage
<1>12. CASE EndStream
  BY <1>0, <1>12 DEF EndStream, Terminate, ReadOn, NoMessage
<1>13. CASE ReadFails
  BY <1>0, <1>13 DEF ReadFails, Shutdown
<1>14. CASE Close
  BY <1>0, <1>14 DEF Close, Shutdown
<1>15. CASE CloseConn
  BY <1>0, <1>15 DEF CloseConn
<1>16. ASSUME NEW c \in Calls, Resolve(c) PROVE Tracking'
  BY <1>0, <1>16 DEF Resolve, Done, Terminate
<1>17. CASE DeleteEntry
  BY <1>0, <1>17 DEF DeleteEntry
<1>18. CASE RangeEnds
  BY <1>0, <1>18 DEF RangeEnds
<1>19. CASE UNCHANGED <<callVars, entries, term, readVars, downVars>>
  BY <1>19
<1> QED
  BY <1>1, <1>2, <1>3, <1>4, <1>5, <1>6, <1>7, <1>8, <1>9, <1>10, <1>11, <1>12,
     <1>13, <1>14, <1>15, <1>16, <1>17, <1>18, <1>19
  DEF Next, Send, ReadLoop, Sweep, Other, CancelStream, Reject, Serve, AnswerCall,
      SendFrame, HandlerReturns, Break, vars

-----------------------------------------------------------------------------
(* What is under way of a stream: operators on the sequences of requests   *)
(* and messages, and what appending, taking and losing do to them.         *)

Asked(q, c) == \E i \in 1 .. Len(q) : q[i] = c
Once(q, c) == \A i, j \in 1 .. Len(q) : q[i] = c /\ q[j] = c => i = j

IsFrame(m, c) == m.id = c /\ m.flag = "data"
IsEnd(m, c) == m.id = c /\ m.flag \in {"end", "error"}

Ended(s, c) == \E i \in 1 .. Len(s) : IsEnd(s[i], c)
Quiet(s, c) == ~Ended(s, c) /\ \A i \in 1 .. Len(s) : ~IsFrame(s[i], c)

(* Of n frames sent, those in s are in the order they were sent.           *)
Rising(s, c, n) ==
    \A i \in 1 .. Len(s) : IsFrame(s[i], c) =>
        /\ 1 <= s[i].n /\ s[i].n <= n
        /\ \A j \in 1 .. i - 1 : IsFrame(s[j], c) => s[j].n < s[i].n

(* The frames above low, up to high, are all in s before position i.       *)
Covers(s, c, low, high, i) ==
    \A m \in low + 1 .. high : \E j \in 1 .. i - 1 : s[j] = Message(c, "data", m)

(* With h frames received and n sent, s brings those it has without a gap, *)
(* and StreamEnd behind all of them ...                                    *)
Brings(s, c, h, n) ==
    /\ h <= n
    /\ \A i \in 1 .. Len(s) :
        /\ IsFrame(s[i], c) => h < s[i].n /\ Covers(s, c, h, s[i].n - 1, i)
        /\ s[i].id = c /\ s[i].flag = "end" => Covers(s, c, h, n, i)

(* ... and s has all of them.                                              *)
Complete(s, c, h, n) == Covers(s, c, h, n, Len(s) + 1)

InRow(s) == \A i \in 1 .. Len(s) : s[i] = i

LEMMA AskMore ==
    ASSUME NEW q \in Seq(Calls), NEW c, NEW d \in Calls
    PROVE  /\ Asked(Append(q, d), c) <=> Asked(q, c) \/ d = c
           /\ Once(q, c) /\ (d # c \/ ~Asked(q, c)) => Once(Append(q, d), c)
<1>1. /\ Len(Append(q, d)) = Len(q) + 1 /\ Len(q) \in Nat
      /\ \A i \in 1 .. Len(q) : Append(q, d)[i] = q[i]
      /\ Append(q, d)[Len(q) + 1] = d
  OBVIOUS
<1> DEFINE r == Append(q, d)
<1> HIDE DEF r
<1>2. /\ Len(r) = Len(q) + 1 /\ Len(q) \in Nat
      /\ \A i \in 1 .. Len(q) : r[i] = q[i]
      /\ r[Len(q) + 1] = d
  BY <1>1 DEF r
<1>3. Asked(r, c) <=> Asked(q, c) \/ d = c
  BY <1>2 DEF Asked
<1>4. Once(q, c) /\ (d # c \/ ~Asked(q, c)) => Once(r, c)
  BY <1>2 DEF Asked, Once
<1> QED
  BY <1>3, <1>4 DEF r

LEMMA AskNext ==
    ASSUME NEW q \in Seq(Calls), q # <<>>, NEW c
    PROVE  /\ Asked(Tail(q), c) => Asked(q, c)
           /\ Once(q, c) => Once(Tail(q), c)
           /\ Once(q, c) /\ Head(q) = c => ~Asked(Tail(q), c)
           /\ Head(q) = c => Asked(q, c)
<1> DEFINE r == Tail(q)
<1>1. /\ Len(r) = Len(q) - 1 /\ Len(q) \in Nat /\ Len(q) > 0 /\ Head(q) = q[1]
      /\ \A i \in 1 .. Len(r) : r[i] = q[i + 1]
  OBVIOUS
<1> HIDE DEF r
<1>2. \A i \in 1 .. Len(r) : i + 1 \in 1 .. Len(q) /\ i + 1 # 1
  BY <1>1
<1>3. Asked(r, c) => Asked(q, c)
  BY <1>1, <1>2 DEF Asked
<1>4. Once(q, c) => Once(r, c)
  BY <1>1, <1>2 DEF Once
<1>5. Once(q, c) /\ Head(q) = c => ~Asked(r, c)
  BY <1>1, <1>2 DEF Asked, Once
<1>6. Head(q) = c => Asked(q, c)
  BY <1>1 DEF Asked
<1> QED
  BY <1>3, <1>4, <1>5, <1>6 DEF r

(* A message is appended.                                                  *)
LEMMA Appended ==
    ASSUME NEW s \in Seq(Messages), NEW m \in Messages
    PROVE  /\ Len(Append(s, m)) = Len(s) + 1 /\ Len(s) \in Nat
           /\ \A i \in 1 .. Len(s) : Append(s, m)[i] = s[i]
           /\ Append(s, m)[Len(s) + 1] = m
OBVIOUS

LEMMA CoversMore ==
    ASSUME NEW s \in Seq(Messages), NEW m \in Messages, NEW c, NEW low \in Int, NEW high \in Int,
           NEW i \in 1 .. Len(s) + 1, Covers(s, c, low, high, i)
    PROVE  /\ Covers(Append(s, m), c, low, high, i)
           /\ Covers(Append(s, m), c, low, high, Len(s) + 2)
<1>1. \A j \in 1 .. i - 1 : j \in 1 .. Len(s) /\ Append(s, m)[j] = s[j]
  BY Appended
<1> DEFINE r == Append(s, m)
<1> HIDE DEF r
<1>2. Len(s) \in Nat
  OBVIOUS
<1>3. ASSUME NEW k \in low + 1 .. high
      PROVE  /\ \E j \in 1 .. i - 1 : r[j] = Message(c, "data", k)
             /\ \E j \in 1 .. Len(s) + 2 - 1 : r[j] = Message(c, "data", k)
  <2>1. PICK j \in 1 .. i - 1 : s[j] = Message(c, "data", k)
    BY <1>3 DEF Covers
  <2>2. r[j] = Message(c, "data", k) /\ j \in 1 .. Len(s) + 2 - 1
    BY <1>1, <1>2, <2>1 DEF r
  <2> QED
    BY <2>2
<1> QED
  BY <1>3 DEF Covers, r

LEMMA OtherAppended ==
    ASSUME NEW s \in Seq(Messages), NEW m \in Messages, NEW c, NEW h \in Int, NEW n \in Int,
           ~IsFrame(m, c), ~IsEnd(m, c)
    PROVE  /\ Ended(Append(s, m), c) => Ended(s, c)
           /\ Quiet(s, c) => Quiet(Append(s, m), c)
           /\ Rising(s, c, n) => Rising(Append(s, m), c, n)
           /\ Brings(s, c, h, n) => Brings(Append(s, m), c, h, n)
           /\ Complete(s, c, h, n) => Complete(Append(s, m), c, h, n)
<1> DEFINE r == Append(s, m)
<1>1. /\ Len(r) = Len(s) + 1 /\ Len(s) \in Nat
      /\ \A i \in 1 .. Len(s) : r[i] = s[i]
      /\ r[Len(s) + 1] = m
  BY Appended
<1>2. \A i \in 1 .. Len(s) + 1, l, k \in Int :
          Covers(s, c, l, k, i) => Covers(r, c, l, k, i) /\ Covers(r, c, l, k, Len(s) + 2)
  BY CoversMore
<1>3. \A i \in 1 .. Len(s) : s[i].n \in Int
  BY MessageParts
<1> HIDE DEF r
<1>4. \A i \in 1 .. Len(r) : IsFrame(r[i], c) \/ IsEnd(r[i], c) => i \in 1 .. Len(s) /\ r[i] = s[i]
  BY <1>1
<1>5. Ended(r, c) => Ended(s, c)
  BY <1>1, <1>4 DEF Ended
<1>6. Quiet(s, c) => Quiet(r, c)
  BY <1>4, <1>5 DEF Quiet
<1>7. Rising(s, c, n) => Rising(r, c, n)
  <2> SUFFICES ASSUME Rising(s, c, n), NEW i \in 1 .. Len(r), IsFrame(r[i], c)
               PROVE  /\ 1 <= r[i].n /\ r[i].n <= n
                      /\ \A j \in 1 .. i - 1 : IsFrame(r[j], c) => r[j].n < r[i].n
    BY DEF Rising
  <2>1. i \in 1 .. Len(s) /\ r[i] = s[i] /\ \A j \in 1 .. i - 1 : r[j] = s[j]
    BY <1>1, <1>4
  <2> QED
    BY <2>1 DEF Rising
<1>8. Brings(s, c, h, n) => Brings(r, c, h, n)
  <2> SUFFICES ASSUME Brings(s, c, h, n), NEW i \in 1 .. Len(r)
               PROVE  /\ IsFrame(r[i], c) => h < r[i].n /\ Covers(r, c, h, r[i].n - 1, i)
                      /\ r[i].id = c /\ r[i].flag = "end" => Covers(r, c, h, n, i)
    BY DEF Brings
  <2>1. r[i].id = c /\ r[i].flag = "end" => IsEnd(r[i], c)
    BY DEF IsEnd
  <2>2. ASSUME i \in 1 .. Len(s), r[i] = s[i]
        PROVE  /\ IsFrame(r[i], c) => h < r[i].n /\ Covers(r, c, h, r[i].n - 1, i)
               /\ r[i].id = c /\ r[i].flag = "end" => Covers(r, c, h, n, i)
    <3>1. i \in 1 .. Len(s) + 1 /\ s[i].n - 1 \in Int
      BY <1>1, <1>3, <2>2
    <3> QED
      BY <1>2, <2>2, <3>1 DEF Brings
  <2> QED
    BY <1>4, <2>1, <2>2
<1>9. Complete(s, c, h, n) => Complete(r, c, h, n)
  BY <1>1, <1>2 DEF Complete
<1> QED
  BY <1>5, <1>6, <1>7, <1>8, <1>9 DEF r

LEMMA FrameAppended ==
    ASSUME NEW s \in Seq(Messages), NEW c \in Calls, NEW h \in Nat, NEW n \in Nat,
           n + 1 <= MaxFrames
    PROVE  LET r == Append(s, Message(c, "data", n + 1)) IN
           /\ Ended(r, c) => Ended(s, c)
           /\ Rising(s, c, n) => Rising(r, c, n + 1)
           /\ Brings(s, c, h, n) /\ Complete(s, c, h, n) /\ ~Ended(s, c) =>
                  Brings(r, c, h, n + 1) /\ Complete(r, c, h, n + 1)
<1> DEFINE m == Message(c, "data", n + 1)
           r == Append(s, m)
<1>0. m \in Messages /\ m.id = c /\ m.flag = "data" /\ m.n = n + 1
  <2>1. n + 1 \in 0 .. MaxFrames /\ "data" \in Flags
    BY TransportAssumption DEF Flags
  <2> QED
    BY <2>1, MessageType DEF Message
<1> HIDE DEF m
<1>1. /\ Len(r) = Len(s) + 1 /\ Len(s) \in Nat
      /\ \A i \in 1 .. Len(s) : r[i] = s[i]
      /\ r[Len(s) + 1] = m
  BY <1>0, Appended
<1>2. \A i \in 1 .. Len(s) + 1, l, k \in Int :
          Covers(s, c, l, k, i) => Covers(r, c, l, k, i) /\ Covers(r, c, l, k, Len(s) + 2)
  BY <1>0, CoversMore
<1>3. \A i \in 1 .. Len(s) : s[i].n \in Int
  BY MessageParts
<1> HIDE DEF r
<1>4. \A i \in 1 .. Len(r) : (i \in 1 .. Len(s) /\ r[i] = s[i]) \/ (i = Len(s) + 1 /\ r[i] = m)
  BY <1>1
<1>5. Ended(r, c) => Ended(s, c)
  BY <1>0, <1>1, <1>4 DEF Ended, IsEnd
<1>6. Rising(s, c, n) => Rising(r, c, n + 1)
  <2> SUFFICES ASSUME Rising(s, c, n), NEW i \in 1 .. Len(r), IsFrame(r[i], c)
               PROVE  /\ 1 <= r[i].n /\ r[i].n <= n + 1
                      /\ \A j \in 1 .. i - 1 : IsFrame(r[j], c) => r[j].n < r[i].n
    BY DEF Rising
  <2>1. CASE i \in 1 .. Len(s) /\ r[i] = s[i]
    <3>1. \A j \in 1 .. i - 1 : r[j] = s[j]
      BY <1>1, <2>1
    <3>2. 1 <= s[i].n /\ s[i].n <= n /\ \A j \in 1 .. i - 1 : IsFrame(s[j], c) => s[j].n < s[i].n
      BY <2>1 DEF Rising
    <3> QED
      BY <1>3, <2>1, <3>1, <3>2
  <2>2. CASE i = Len(s) + 1 /\ r[i] = m
    <3>1. \A j \in 1 .. i - 1 : j \in 1 .. Len(s) /\ r[j] = s[j]
      BY <1>1, <2>2
    <3>2. \A j \in 1 .. Len(s) : IsFrame(s[j], c) => s[j].n <= n
      BY DEF Rising
    <3>3. \A j \in 1 .. i - 1 : IsFrame(r[j], c) => r[j].n < n + 1
      BY <1>3, <3>1, <3>2
    <3> QED
      BY <1>0, <2>2, <3>3
  <2> QED
    BY <1>4, <2>1, <2>2
<1>7. ASSUME Brings(s, c, h, n), Complete(s, c, h, n), ~Ended(s, c)
      PROVE  Brings(r, c, h, n + 1) /\ Complete(r, c, h, n + 1)
  <2>1. Covers(r, c, h, n, Len(s) + 1) /\ Covers(r, c, h, n, Len(s) + 2)
    BY <1>1, <1>2, <1>7 DEF Complete
  <2>2. ASSUME NEW i \in 1 .. Len(r), IsFrame(r[i], c)
        PROVE  h < r[i].n /\ Covers(r, c, h, r[i].n - 1, i)
    <3>1. CASE i \in 1 .. Len(s) /\ r[i] = s[i]
      <4>1. i \in 1 .. Len(s) + 1 /\ s[i].n - 1 \in Int
        BY <1>1, <1>3, <3>1
      <4> QED
        BY <1>2, <1>7, <2>2, <3>1, <4>1 DEF Brings
    <3>2. CASE i = Len(s) + 1 /\ r[i] = m
      BY <1>0, <1>7, <2>1, <3>2 DEF Brings
    <3> QED
      BY <1>4, <2>2, <3>1, <3>2
  <2>3. ASSUME NEW i \in 1 .. Len(r) PROVE ~(r[i].id = c /\ r[i].flag = "end")
    BY <1>0, <1>4, <1>7 DEF Ended, IsEnd
  <2>4. Complete(r, c, h, n + 1)
    <3> SUFFICES ASSUME NEW k \in h + 1 .. n + 1
                 PROVE  \E j \in 1 .. Len(r) + 1 - 1 : r[j] = Message(c, "data", k)
      BY DEF Complete, Covers
    <3>1. CASE k = n + 1
      <4>1. r[Len(s) + 1] = Message(c, "data", k) /\ Len(s) + 1 \in 1 .. Len(r) + 1 - 1
        BY <1>1, <3>1 DEF m
      <4> QED
        BY <4>1
    <3>2. CASE k # n + 1
      <4>1. k \in h + 1 .. n /\ Len(r) + 1 = Len(s) + 2
        BY <1>1, <3>2
      <4> QED
        BY <2>1, <4>1 DEF Covers
    <3> QED
      BY <3>1, <3>2
  <2>5. h <= n + 1
    BY <1>7 DEF Brings
  <2> QED
    BY <2>2, <2>3, <2>4, <2>5 DEF Brings
<1> QED
  BY <1>5, <1>6, <1>7 DEF r, m

LEMMA EndAppended ==
    ASSUME NEW s \in Seq(Messages), NEW m \in Messages, NEW c, NEW h \in Int, NEW n \in Int,
           IsEnd(m, c)
    PROVE  /\ Rising(s, c, n) => Rising(Append(s, m), c, n)
           /\ Brings(s, c, h, n) /\ Complete(s, c, h, n) =>
                  Brings(Append(s, m), c, h, n) /\ Complete(Append(s, m), c, h, n)
<1> DEFINE r == Append(s, m)
<1>1. /\ Len(r) = Len(s) + 1 /\ Len(s) \in Nat
      /\ \A i \in 1 .. Len(s) : r[i] = s[i]
      /\ r[Len(s) + 1] = m
  BY Appended
<1>2. \A i \in 1 .. Len(s) + 1, l, k \in Int :
          Covers(s, c, l, k, i) => Covers(r, c, l, k, i) /\ Covers(r, c, l, k, Len(s) + 2)
  BY CoversMore
<1>3. \A i \in 1 .. Len(s) : s[i].n \in Int
  BY MessageParts
<1> HIDE DEF r
<1>4. \A i \in 1 .. Len(r) : (i \in 1 .. Len(s) /\ r[i] = s[i]) \/ (i = Len(s) + 1 /\ r[i] = m)
  BY <1>1
<1>5. ~IsFrame(m, c)
  BY DEF IsFrame, IsEnd
<1>6. Rising(s, c, n) => Rising(r, c, n)
  <2> SUFFICES ASSUME Rising(s, c, n), NEW i \in 1 .. Len(r), IsFrame(r[i], c)
               PROVE  /\ 1 <= r[i].n /\ r[i].n <= n
                      /\ \A j \in 1 .. i - 1 : IsFrame(r[j], c) => r[j].n < r[i].n
    BY DEF Rising
  <2>1. i \in 1 .. Len(s) /\ r[i] = s[i] /\ \A j \in 1 .. i - 1 : r[j] = s[j]
    BY <1>1, <1>4, <1>5
  <2> QED
    BY <2>1 DEF Rising
<1>7. ASSUME Brings(s, c, h, n), Complete(s, c, h, n)
      PROVE  Brings(r, c, h, n) /\ Complete(r, c, h, n)
  <2>1. Covers(r, c, h, n, Len(s) + 1) /\ Covers(r, c, h, n, Len(s) + 2)
    BY <1>1, <1>2, <1>7 DEF Complete
  <2>2. ASSUME NEW i \in 1 .. Len(r)
        PROVE  /\ IsFrame(r[i], c) => h < r[i].n /\ Covers(r, c, h, r[i].n - 1, i)
               /\ r[i].id = c /\ r[i].flag = "end" => Covers(r, c, h, n, i)
    <3>1. CASE i \in 1 .. Len(s) /\ r[i] = s[i]
      <4>1. i \in 1 .. Len(s) + 1 /\ s[i].n - 1 \in Int
        BY <1>1, <1>3, <3>1
      <4> QED
        BY <1>2, <1>7, <3>1, <4>1 DEF Brings
    <3>2. CASE i = Len(s) + 1 /\ r[i] = m
      BY <1>5, <2>1, <3>2
    <3> QED
      BY <1>4, <3>1, <3>2
  <2> QED
    BY <1>1, <1>7, <2>1, <2>2 DEF Brings, Complete
<1> QED
  BY <1>6, <1>7 DEF r

(* The first message is taken.                                             *)
LEMMA Taken ==
    ASSUME NEW s \in Seq(Messages), s # <<>>
    PROVE  /\ Len(Tail(s)) = Len(s) - 1 /\ Len(s) \in Nat /\ Len(s) > 0
           /\ Tail(s) \in Seq(Messages) /\ Head(s) = s[1] /\ Head(s) \in Messages
           /\ \A i \in 1 .. Len(s) - 1 : Tail(s)[i] = s[i + 1]
OBVIOUS

LEMMA CoversLess ==
    ASSUME NEW s \in Seq(Messages), s # <<>>, NEW c, NEW low \in Int, NEW high \in Int,
           NEW i \in 1 .. Len(s), Covers(s, c, low, high, i + 1),
           \A k \in low + 1 .. high : Head(s) # Message(c, "data", k)
    PROVE  Covers(Tail(s), c, low, high, i)
<1> SUFFICES ASSUME NEW k \in low + 1 .. high
             PROVE  \E j \in 1 .. i - 1 : Tail(s)[j] = Message(c, "data", k)
  BY DEF Covers
<1>1. PICK j \in 1 .. i + 1 - 1 : s[j] = Message(c, "data", k)
  BY DEF Covers
<1>2. j # 1
  BY <1>1, Taken
<1>3. j - 1 \in 1 .. i - 1 /\ j - 1 \in 1 .. Len(s) - 1 /\ j = (j - 1) + 1
  BY <1>2, Taken
<1>4. Tail(s)[j - 1] = s[j]
  BY <1>3, Taken
<1> QED
  BY <1>1, <1>3, <1>4

LEMMA TailQuiet ==
    ASSUME NEW s \in Seq(Messages), s # <<>>, NEW c, NEW n \in Int
    PROVE  /\ Ended(Tail(s), c) => Ended(s, c)
           /\ Quiet(s, c) => Quiet(Tail(s), c) /\ ~IsFrame(Head(s), c) /\ ~IsEnd(Head(s), c)
           /\ IsEnd(Head(s), c) => Ended(s, c)
           /\ Rising(s, c, n) => Rising(Tail(s), c, n)
<1> DEFINE r == Tail(s)
<1>1. /\ Len(r) = Len(s) - 1 /\ Len(s) \in Nat /\ Len(s) > 0 /\ Head(s) = s[1]
      /\ \A i \in 1 .. Len(s) - 1 : r[i] = s[i + 1]
  BY Taken
<1> HIDE DEF r
<1>2. \A i \in 1 .. Len(r) : i + 1 \in 1 .. Len(s) /\ r[i] = s[i + 1]
  BY <1>1
<1>3. 1 \in 1 .. Len(s)
  BY <1>1
<1>4. Ended(r, c) => Ended(s, c)
  BY <1>2 DEF Ended
<1>5. Quiet(s, c) => Quiet(r, c) /\ ~IsFrame(Head(s), c) /\ ~IsEnd(Head(s), c)
  BY <1>1, <1>2, <1>3, <1>4 DEF Quiet, Ended
<1>6. IsEnd(Head(s), c) => Ended(s, c)
  BY <1>1, <1>3 DEF Ended
<1>7. Rising(s, c, n) => Rising(r, c, n)
  <2> SUFFICES ASSUME Rising(s, c, n), NEW i \in 1 .. Len(r), IsFrame(r[i], c)
               PROVE  /\ 1 <= r[i].n /\ r[i].n <= n
                      /\ \A j \in 1 .. i - 1 : IsFrame(r[j], c) => r[j].n < r[i].n
    BY DEF Rising
  <2>1. /\ 1 <= s[i + 1].n /\ s[i + 1].n <= n
        /\ \A j \in 1 .. i + 1 - 1 : IsFrame(s[j], c) => s[j].n < s[i + 1].n
    BY <1>2 DEF Rising
  <2>2. \A j \in 1 .. i - 1 : j + 1 \in 1 .. i + 1 - 1 /\ r[j] = s[j + 1]
    BY <1>1
  <2> QED
    BY <1>2, <2>1, <2>2
<1> QED
  BY <1>4, <1>5, <1>6, <1>7 DEF r

LEMMA OtherTaken ==
    ASSUME NEW s \in Seq(Messages), s # <<>>, NEW c, NEW h \in Int, NEW n \in Int,
           ~IsFrame(Head(s), c)
    PROVE  /\ Brings(s, c, h, n) => Brings(Tail(s), c, h, n)
           /\ Complete(s, c, h, n) => Complete(Tail(s), c, h, n)
<1> DEFINE r == Tail(s)
<1>1. /\ Len(r) = Len(s) - 1 /\ Len(s) \in Nat /\ Len(s) > 0
      /\ \A i \in 1 .. Len(s) - 1 : r[i] = s[i + 1]
  BY Taken
<1>2. \A k : Head(s) # Message(c, "data", k)
  BY DEF IsFrame, Message
<1>3. \A i \in 1 .. Len(s), k \in Int : Covers(s, c, h, k, i + 1) => Covers(r, c, h, k, i)
  BY <1>2, CoversLess
<1>4. \A i \in 1 .. Len(s) : s[i].n \in Int
  BY MessageParts
<1> HIDE DEF r
<1>5. ASSUME Brings(s, c, h, n) PROVE Brings(r, c, h, n)
  <2> SUFFICES ASSUME NEW i \in 1 .. Len(r)
               PROVE  /\ IsFrame(r[i], c) => h < r[i].n /\ Covers(r, c, h, r[i].n - 1, i)
                      /\ r[i].id = c /\ r[i].flag = "end" => Covers(r, c, h, n, i)
    BY <1>5 DEF Brings
  <2>1. i + 1 \in 1 .. Len(s) /\ i \in 1 .. Len(s) /\ r[i] = s[i + 1]
    BY <1>1
  <2>2. s[i + 1].n - 1 \in Int
    BY <1>4, <2>1
  <2> QED
    BY <1>3, <1>5, <2>1, <2>2 DEF Brings
<1>6. Complete(s, c, h, n) => Complete(r, c, h, n)
  <2>1. Len(s) \in 1 .. Len(s) /\ Len(r) + 1 = Len(s)
    BY <1>1
  <2> QED
    BY <1>3, <2>1 DEF Complete
<1> QED
  BY <1>5, <1>6 DEF r

LEMMA FrameTaken ==
    ASSUME NEW s \in Seq(Messages), s # <<>>, NEW c, NEW h \in Int, NEW n \in Int,
           IsFrame(Head(s), c), Rising(s, c, n), Brings(s, c, h, n)
    PROVE  /\ Head(s).n = h + 1
           /\ Brings(Tail(s), c, h + 1, n)
           /\ Complete(s, c, h, n) => Complete(Tail(s), c, h + 1, n)
<1> DEFINE r == Tail(s)
<1>1. /\ Len(r) = Len(s) - 1 /\ Len(s) \in Nat /\ Len(s) > 0 /\ Head(s) = s[1]
      /\ \A i \in 1 .. Len(s) - 1 : r[i] = s[i + 1]
  BY Taken
<1>2. \A i \in 1 .. Len(s) : s[i].n \in Int
  BY MessageParts
<1>3. 1 \in 1 .. Len(s) /\ s[1].n \in Int
  BY <1>1, <1>2
<1>4. s[1].n = h + 1 /\ h + 1 <= n
  <2>1. h < s[1].n /\ Covers(s, c, h, s[1].n - 1, 1) /\ s[1].n <= n
    BY <1>1, <1>3 DEF Brings, Rising
  <2>2. h + 1 \notin h + 1 .. s[1].n - 1
    BY <2>1 DEF Covers
  <2>3. h \in Int /\ n \in Int /\ s[1].n \in Int /\ h < s[1].n /\ s[1].n <= n
    BY <1>3, <2>1
  <2> HIDE <2>1
  <2> QED
    BY <2>2, <2>3
<1>5. ASSUME NEW k \in h + 2 .. n PROVE Head(s) # Message(c, "data", k)
  BY <1>1, <1>4 DEF Message
<1>6. \A i \in 1 .. Len(s), k \in Int :
          k <= n /\ Covers(s, c, h, k, i + 1) => Covers(r, c, h + 1, k, i)
  <2> SUFFICES ASSUME NEW i \in 1 .. Len(s), NEW k \in Int, k <= n, Covers(s, c, h, k, i + 1)
               PROVE  Covers(r, c, h + 1, k, i)
    OBVIOUS
  <2>1. \A m \in (h + 1) + 1 .. k : m \in h + 1 .. k /\ Head(s) # Message(c, "data", m)
    BY <1>5
  <2>2. Covers(s, c, h + 1, k, i + 1)
    BY <2>1 DEF Covers
  <2> QED
    BY <2>1, <2>2, CoversLess
<1> HIDE DEF r
<1>7. Brings(r, c, h + 1, n)
  <2> SUFFICES ASSUME NEW i \in 1 .. Len(r)
               PROVE  /\ IsFrame(r[i], c) => h + 1 < r[i].n /\ Covers(r, c, h + 1, r[i].n - 1, i)
                      /\ r[i].id = c /\ r[i].flag = "end" => Covers(r, c, h + 1, n, i)
    BY <1>4 DEF Brings
  <2>1. i + 1 \in 1 .. Len(s) /\ i \in 1 .. Len(s) /\ r[i] = s[i + 1] /\ 1 \in 1 .. i + 1 - 1
    BY <1>1
  <2>2. s[i + 1].n \in Int /\ s[i + 1].n - 1 \in Int
    BY <1>2, <2>1
  <2>3. IsFrame(s[i + 1], c) => s[1].n < s[i + 1].n /\ s[i + 1].n <= n
    BY <1>1, <2>1 DEF Rising
  <2>4. IsFrame(r[i], c) => h + 1 < r[i].n /\ Covers(r, c, h + 1, r[i].n - 1, i)
    <3>1. IsFrame(s[i + 1], c) => Covers(s, c, h, s[i + 1].n - 1, i + 1) /\ s[i + 1].n - 1 <= n
      BY <2>1, <2>2, <2>3 DEF Brings
    <3> QED
      BY <1>4, <1>6, <2>1, <2>2, <2>3, <3>1
  <2>5. r[i].id = c /\ r[i].flag = "end" => Covers(r, c, h + 1, n, i)
    <3>1. s[i + 1].id = c /\ s[i + 1].flag = "end" => Covers(s, c, h, n, i + 1)
      BY <2>1 DEF Brings
    <3> QED
      BY <1>6, <2>1, <3>1
  <2> QED
    BY <2>4, <2>5
<1>8. Complete(s, c, h, n) => Complete(r, c, h + 1, n)
  <2>1. Len(s) \in 1 .. Len(s) /\ Len(r) + 1 = Len(s)
    BY <1>1
  <2> QED
    BY <1>6, <2>1 DEF Complete
<1> QED
  BY <1>1, <1>4, <1>7, <1>8 DEF r

LEMMA EndTaken ==
    ASSUME NEW s \in Seq(Messages), s # <<>>, NEW c, NEW h \in Int, NEW n \in Int,
           Head(s).id = c, Head(s).flag = "end", Brings(s, c, h, n)
    PROVE  h = n
<1>1. 1 \in 1 .. Len(s) /\ Head(s) = s[1]
  BY Taken
<1>2. Covers(s, c, h, n, 1) /\ h <= n
  BY <1>1 DEF Brings
<1>3. h + 1 .. n = {}
  BY <1>2 DEF Covers
<1> QED
  BY <1>2, <1>3

(* The connection breaks and takes what has not arrived with it.           *)
LEMMA CutOff ==
    ASSUME NEW s \in Seq(Messages), NEW k \in 0 .. Len(s), NEW c, NEW h \in Int, NEW n \in Int
    PROVE  LET r == SubSeq(s, 1, k) IN
           /\ Ended(r, c) => Ended(s, c)
           /\ Quiet(s, c) => Quiet(r, c)
           /\ Rising(s, c, n) => Rising(r, c, n)
           /\ Brings(s, c, h, n) => Brings(r, c, h, n)
<1> DEFINE r == SubSeq(s, 1, k)
<1>1. Len(r) = k /\ Len(s) \in Nat /\ \A i \in 1 .. k : r[i] = s[i]
  OBVIOUS
<1> HIDE DEF r
<1>2. \A i \in 1 .. Len(r) : i \in 1 .. Len(s) /\ r[i] = s[i] /\ \A j \in 1 .. i - 1 : r[j] = s[j]
  BY <1>1
<1>3. Ended(r, c) => Ended(s, c)
  BY <1>2 DEF Ended
<1>4. Quiet(s, c) => Quiet(r, c)
  BY <1>2, <1>3 DEF Quiet
<1>5. Rising(s, c, n) => Rising(r, c, n)
  BY <1>2 DEF Rising
<1>6. \A x : \A i \in 1 .. Len(r) : Covers(s, c, h, x, i) => Covers(r, c, h, x, i)
  BY <1>2 DEF Covers
<1>7. Brings(s, c, h, n) => Brings(r, c, h, n)
  BY <1>2, <1>6 DEF Brings
<1> QED
  BY <1>3, <1>4, <1>5, <1>7 DEF r

(* Frames come in and are read.                                            *)
LEMMA JoinedLength ==
    ASSUME NEW S, NEW g \in Seq(S), NEW b \in Seq(S)
    PROVE  Len(g \o b) = Len(g) + Len(b) /\ Len(g \o b) \in Nat
OBVIOUS

LEMMA PushedInRow ==
    ASSUME NEW S, NEW g \in Seq(S), NEW b \in Seq(S), NEW x \in S
    PROVE  /\ g \o b \in Seq(S) /\ Len(g \o b) = Len(g) + Len(b)
           /\ Len(g) \in Nat /\ Len(b) \in Nat
           /\ Len(g \o Append(b, x)) = Len(g \o b) + 1
           /\ InRow(g \o b) /\ x = Len(g \o b) + 1 => InRow(g \o Append(b, x))
<1> DEFINE f == g \o b
           e == g \o Append(b, x)
<1>1. f \in Seq(S) /\ Len(f) = Len(g) + Len(b) /\ Len(g) \in Nat /\ Len(b) \in Nat
  OBVIOUS
<1>2. e = Append(f, x)
  OBVIOUS
<1>3. Len(e) = Len(f) + 1 /\ e[Len(f) + 1] = x /\ \A i \in 1 .. Len(f) : e[i] = f[i]
  BY <1>1, <1>2
<1> HIDE DEF e, f
<1>4. InRow(f) /\ x = Len(f) + 1 => InRow(e)
  BY <1>1, <1>3 DEF InRow
<1> QED
  BY <1>1, <1>3, <1>4 DEF e, f

LEMMA ReadInRow ==
    ASSUME NEW S, NEW g \in Seq(S), NEW b \in Seq(S), b # <<>>
    PROVE  /\ Append(g, Head(b)) \o Tail(b) = g \o b
           /\ Len(Append(g, Head(b))) + Len(Tail(b)) = Len(g) + Len(b)
<1>1. Len(Append(g, Head(b))) = Len(g) + 1 /\ Len(Tail(b)) = Len(b) - 1 /\ Len(b) \in Nat
      /\ Len(g) \in Nat
  OBVIOUS
<1>2. Append(g, Head(b)) \o Tail(b) = g \o b
  OBVIOUS
<1> QED
  BY <1>1, <1>2

LEMMA NothingDue ==
    ASSUME NEW s, NEW c, Quiet(s, c)
    PROVE  Brings(s, c, 0, 0) /\ Complete(s, c, 0, 0)
BY DEF Quiet, Ended, IsEnd, Brings, Complete, Covers

-----------------------------------------------------------------------------
(* The inductive invariant about the streams.                              *)

Clean(c) == term[c] # "error" /\ ~ctxDone[c]
Frames(c) == got[c] \o buf[c]
Pushing(c) == rpc = "push" /\ hand.id = c

(* What has come in, with the frame in the reader's hands.                 *)
Received(c) == Len(Frames(c)) + (IF Pushing(c) THEN 1 ELSE 0)

(* No request of c was written: not yet, or it never will be.              *)
Unsent(c) == pc[c] \in {"idle", "begun", "stored", "ready", "failed"}

(* The server does not serve c and is not asked to.                        *)
Unserved(c) == c \notin handlers /\ ~Asked(up, c)

(* A stream is asked for once, and its end is sent once.                   *)
ServedOnce(c) ==
    /\ Once(up, c)
    /\ c \in handlers => ~Asked(up, c)
    /\ Ended(down, c) \/ InHand(c) \/ term[c] = "eof" => Unserved(c)
    /\ Unsent(c) => /\ Unserved(c) /\ sent[c] = 0 /\ Quiet(down, c)
                    /\ Frames(c) = <<>> /\ term[c] # "eof" /\ ~Pushing(c) /\ ~InHand(c)

(* As long as a stream is clean it has its entry until its end is there.   *)
HasEntry(c) ==
    /\ c = cur => term[c] # "none"
    /\ Pushing(c) /\ Clean(c) => c \in entries
    /\ InHand(c) \/ term[c] = "eof" => c \notin entries

(* The reader's hands and the frames under way follow those received.      *)
Follows(c) ==
    /\ Rising(down, c, sent[c])
    /\ Clean(c) => InRow(Frames(c))
    /\ Clean(c) /\ c \in entries =>
        /\ Brings(down, c, Received(c), sent[c])
        /\ conn = "open" => Complete(down, c, Received(c), sent[c])
        /\ Pushing(c) => hand.n = Received(c)

(* A stream that ends without an error ends when all frames are there.     *)
EndsWhole(c) ==
    /\ InHand(c) /\ hand.flag = "end" /\ Clean(c) => Len(Frames(c)) = sent[c]
    /\ term[c] = "eof" /\ ~ctxDone[c] => Len(Frames(c)) = sent[c]

StreamInv(c) == ServedOnce(c) /\ HasEntry(c) /\ Follows(c) /\ EndsWhole(c)

LEMMA SameStream ==
    ASSUME NEW c \in Streams, StreamInv(c), Unsent(c)' => Unsent(c),
           UNCHANGED <<Frames(c), term, ctxDone, rpc, hand, conn, up, down, handlers, sent>>,
           c \in entries' <=> c \in entries, c = cur' => c = cur
    PROVE  StreamInv(c)'
BY DEF StreamInv, ServedOnce, HasEntry, Follows, EndsWhole, Clean, Pushing, Received,
       Unserved, InHand

LEMMA InitStream == Init => \A c \in Streams : StreamInv(c)
<1> SUFFICES ASSUME Init, NEW c \in Streams PROVE StreamInv(c)
  OBVIOUS
<1>1. c \in Calls /\ c # NoCall /\ cur = NoCall /\ hand.id = NoCall
  BY TransportAssumption DEF Init, Calls, NoMessage
<1>2. Len(<<>>) = 0 /\ <<>> \o <<>> = <<>>
  OBVIOUS
<1>3. Once(up, c) /\ ~Asked(up, c) /\ Quiet(down, c) /\ Rising(down, c, 0)
  BY <1>2 DEF Init, Once, Asked, Quiet, Ended, Rising
<1>4. Frames(c) = <<>> /\ InRow(Frames(c))
  BY <1>2 DEF Init, Frames, InRow
<1> QED
  BY <1>1, <1>2, <1>3, <1>4
  DEF Init, StreamInv, ServedOnce, HasEntry, Follows, EndsWhole, Clean, Pushing, InHand,
      Unserved, Unsent, Quiet

LEMMA StepStream ==
    ASSUME TypeOK, Tracking, NEW c \in Streams, StreamInv(c), [Next]_vars
    PROVE  StreamInv(c)'
<1> USE TransportAssumption
        DEF Calls, callVars, streamVars, readVars, downVars, netVars, serverVars
<1>0. /\ pc \in [Calls -> PCs] /\ term \in [Streams -> {"none", "eof", "error"}]
      /\ ctxDone \in [Streams -> BOOLEAN] /\ sent \in [Streams -> 0 .. MaxFrames]
      /\ buf \in [Streams -> Seq(0 .. MaxFrames)] /\ got \in [Streams -> Seq(0 .. MaxFrames)]
      /\ down \in Seq(Messages) /\ up \in Seq(Calls) /\ handlers \subseteq Streams
      /\ entries \subseteq Calls /\ c \in Calls /\ c # NoCall /\ c \notin Unary
  BY DEF TypeOK
<1>1. ASSUME UNCHANGED <<buf, got>> PROVE UNCHANGED Frames(c)
  BY <1>1 DEF Frames
<1>2. ASSUME NEW d \in Calls, Begin(d) PROVE StreamInv(c)'
  <2>1. Unsent(c)' => Unsent(c)
    BY <1>0, <1>2 DEF Begin, Goto, Unsent
  <2> QED
    BY <1>1, <1>2, <2>1, SameStream DEF Begin
<1>3. ASSUME NEW d \in Calls, StoreEntry(d) PROVE StreamInv(c)'
  <2>1. Unsent(c)' => Unsent(c)
    BY <1>0, <1>3 DEF StoreEntry, Goto, Unsent
  <2>2. CASE d # c
    BY <1>1, <1>3, <2>1, <2>2, SameStream DEF StoreEntry
  <2>3. CASE d = c
    <3>1. Unsent(c)
      BY <1>3, <2>3 DEF StoreEntry, Unsent
    <3>2. /\ UNCHANGED <<Frames(c), term, ctxDone, rpc, hand, conn, up, down, handlers, sent, cur>>
          /\ entries' = entries \cup {c}
      BY <1>1, <1>3, <2>3 DEF StoreEntry
    <3>3. Len(<<>>) = 0 /\ Brings(down, c, 0, 0) /\ Complete(down, c, 0, 0)
      BY <3>1, NothingDue DEF StreamInv, ServedOnce
    <3> QED
      BY <2>1, <3>1, <3>2, <3>3
      DEF StreamInv, ServedOnce, HasEntry, Follows, EndsWhole, Clean, Pushing, Received,
          Unserved, InHand
  <2> QED
    BY <2>2, <2>3
<1>4. ASSUME NEW d \in Calls, entries' = entries \/ (entries' = entries \ {d} /\ Unsent(d)),
             Unsent(c)' => Unsent(c),
             UNCHANGED <<Frames(c), term, ctxDone, rpc, hand, conn, up, down, handlers, sent, cur>>
      PROVE  StreamInv(c)'
  <2>1. CASE entries' = entries \/ d # c
    BY <1>4, <2>1, SameStream
  <2>2. CASE entries' = entries \ {c} /\ Unsent(c)
    BY <1>4, <2>2
    DEF StreamInv, ServedOnce, HasEntry, Follows, EndsWhole, Clean, Pushing, Received,
        Unserved, InHand
  <2> QED
    BY <1>4, <2>1, <2>2
<1>5. ASSUME NEW d \in Calls, Recheck(d) \/ WriteFails(d) PROVE StreamInv(c)'
  <2>1. Unsent(c)' => Unsent(c)
    BY <1>0, <1>5 DEF Recheck, WriteFails, Goto, Unsent
  <2>2. /\ entries' = entries \/ (entries' = entries \ {d} /\ Unsent(d))
        /\ UNCHANGED <<buf, got, term, ctxDone, rpc, hand, conn, up, down, handlers, sent, cur>>
    BY <1>5 DEF Recheck, WriteFails, Shutdown, Unsent
  <2> QED
    BY <1>1, <1>4, <2>1, <2>2
<1>6. ASSUME NEW d \in Calls, Write(d) PROVE StreamInv(c)'
  <2>1. /\ UNCHANGED <<Frames(c), term, ctxDone, rpc, hand, conn, down, handlers, sent, cur, entries>>
        /\ up' = Append(up, d) \/ up' = up
    BY <1>1, <1>6 DEF Write
  <2>2. CASE d # c
    <3>1. Unsent(c)' => Unsent(c)
      BY <1>0, <1>6, <2>2 DEF Write, Sent, Goto, Unsent
    <3>2. /\ Asked(Append(up, d), c) <=> Asked(up, c)
          /\ Once(up, c) => Once(Append(up, d), c)
      BY <1>0, <2>2, AskMore
    <3>3. Once(up', c) /\ (Asked(up', c) <=> Asked(up, c))
      BY <2>1, <3>2 DEF StreamInv, ServedOnce
    <3> QED
      BY <2>1, <3>1, <3>3
      DEF StreamInv, ServedOnce, HasEntry, Follows, EndsWhole, Clean, Pushing, Received,
          Unserved, InHand
  <2>3. CASE d = c
    <3>1. Unsent(c) /\ ~Unsent(c)'
      BY <1>0, <1>6, <2>3 DEF Write, Sent, Goto, Unsent
    <3>2. Once(up', c)
      <4>1. Once(up, c) /\ ~Asked(up, c)
        BY <3>1 DEF StreamInv, ServedOnce, Unserved
      <4>2. Once(Append(up, c), c)
        BY <1>0, <4>1, AskMore
      <4> QED
        BY <2>1, <2>3, <4>1, <4>2
    <3> QED
      BY <2>1, <3>1, <3>2
      DEF StreamInv, ServedOnce, HasEntry, Follows, EndsWhole, Clean, Pushing, Received,
          Unserved, InHand, Quiet
  <2> QED
    BY <2>2, <2>3
<1>7. ASSUME NEW d \in Unary, Expire(d) PROVE StreamInv(c)'
  BY <1>1, <1>7, SameStream DEF Expire, Unsent
<1>8. ASSUME NEW d \in Streams, CancelStream(d) PROVE StreamInv(c)'
  <2>1. /\ UNCHANGED <<pc, buf, got, term, rpc, hand, conn, up, down, handlers, sent, cur, entries>>
        /\ ctxDone'[c] = ctxDone[c] \/ ctxDone'[c] = TRUE
    BY <1>0, <1>8 DEF CancelStream
  <2>2. UNCHANGED Frames(c)
    BY <1>1, <2>1
  <2>3. Clean(c)' => Clean(c)
    BY <1>0, <2>1 DEF Clean
  <2> QED
    BY <2>1, <2>2, <2>3
    DEF StreamInv, ServedOnce, HasEntry, Follows, EndsWhole, Pushing, Received,
        Unserved, Unsent, InHand
<1>9. ASSUME NEW d \in Streams, pc[d] \in {"recv", "blocked"},
             NEW l \in {"recv", "blocked", "ended"}, Goto(d, l),
             TakeFrame(d) \/ UNCHANGED <<buf, got>>,
             UNCHANGED <<entries, term, ctxDone, readVars, downVars, netVars, serverVars>>
      PROVE  StreamInv(c)'
  <2>1. Unsent(c)' => Unsent(c)
    BY <1>0, <1>9 DEF Goto, Unsent
  <2>2. UNCHANGED Frames(c)
    <3>1. CASE d = c /\ TakeFrame(c)
      <4>1. buf[c] # <<>> /\ got'[c] = Append(got[c], Head(buf[c])) /\ buf'[c] = Tail(buf[c])
        BY <1>0, <3>1 DEF TakeFrame
      <4>2. got[c] \in Seq(0 .. MaxFrames) /\ buf[c] \in Seq(0 .. MaxFrames)
        BY <1>0
      <4>3. Append(got[c], Head(buf[c])) \o Tail(buf[c]) = got[c] \o buf[c]
        BY <4>1, <4>2, ReadInRow
      <4> QED
        BY <4>1, <4>3 DEF Frames
    <3>2. CASE (d # c /\ TakeFrame(d)) \/ UNCHANGED <<buf, got>>
      <4>1. got'[c] = got[c] /\ buf'[c] = buf[c]
        BY <1>0, <3>2 DEF TakeFrame
      <4> QED
        BY <4>1 DEF Frames
    <3> QED
      BY <1>9, <3>1, <3>2
  <2> QED
    BY <1>9, <2>1, <2>2, SameStream
<1>10. ASSUME NEW d \in Streams, Recv(d) PROVE StreamInv(c)'
  <2>1. /\ pc[d] = "recv" /\ (TakeFrame(d) \/ UNCHANGED <<buf, got>>)
        /\ Goto(d, "recv") \/ Goto(d, "blocked")
        /\ UNCHANGED <<entries, term, ctxDone, readVars, downVars, netVars, serverVars>>
    BY <1>10 DEF Recv, TakeFrame
  <2> QED
    BY <1>9, <2>1
<1>11. ASSUME NEW d \in Streams, RecvBlocked(d) PROVE StreamInv(c)'
  <2>1. /\ pc[d] = "blocked" /\ (TakeFrame(d) \/ UNCHANGED <<buf, got>>)
        /\ Goto(d, "recv") \/ Goto(d, "ended")
        /\ UNCHANGED <<entries, term, ctxDone, readVars, downVars, netVars, serverVars>>
    BY <1>11 DEF RecvBlocked, TakeFrame, EndRecv
  <2> QED
    BY <1>9, <2>1
<1>12. CASE Dispatch
  <2> DEFINE m == Head(down)
  <2>1. /\ rpc = "read" /\ down # <<>> /\ down' = Tail(down)
        /\ UNCHANGED <<pc, buf, got, term, ctxDone, conn, up, handlers, sent, cur>>
        /\ m \in Messages /\ m.flag \in Flags
    BY <1>0, <1>12, FirstAndRest, MessageParts DEF Dispatch
  <2>2. ~Pushing(c) /\ ~InHand(c) /\ UNCHANGED Frames(c) /\ UNCHANGED Unsent(c)
        /\ UNCHANGED Unserved(c) /\ UNCHANGED Clean(c)
    BY <1>1, <2>1 DEF Pushing, InHand, Unsent, Unserved, Clean
  <2>3. /\ Ended(down', c) => Ended(down, c)
        /\ Quiet(down, c) => Quiet(down', c) /\ ~IsFrame(m, c) /\ ~IsEnd(m, c)
        /\ IsEnd(m, c) => Ended(down, c)
        /\ Rising(down, c, sent[c]) => Rising(down', c, sent[c])
    <3>1. sent[c] \in Int
      BY <1>0
    <3> QED
      BY <1>0, <2>1, <3>1, TailQuiet
  <2>4. Len(Frames(c)) \in Nat /\ sent[c] \in Nat
    <3>1. got[c] \in Seq(0 .. MaxFrames) /\ buf[c] \in Seq(0 .. MaxFrames)
      BY <1>0
    <3> QED
      BY <1>0, <3>1 DEF Frames
  <2>5. Received(c) = Len(Frames(c))
    BY <2>2, <2>4 DEF Received
  <2> HIDE DEF m
  <2>6. ASSUME ~IsFrame(m, c), ~Pushing(c)'
        PROVE  /\ Brings(down, c, Received(c), sent[c]) =>
                      Brings(down', c, Received(c)', sent'[c])
               /\ Complete(down, c, Received(c), sent[c]) =>
                      Complete(down', c, Received(c)', sent'[c])
    <3>1. Received(c)' = Received(c) /\ Received(c) \in Int /\ sent[c] \in Int
      BY <2>2, <2>4, <2>5, <2>6 DEF Received
    <3>2. /\ Brings(down, c, Received(c), sent[c]) => Brings(Tail(down), c, Received(c), sent[c])
          /\ Complete(down, c, Received(c), sent[c]) =>
                 Complete(Tail(down), c, Received(c), sent[c])
      BY <1>0, <2>1, <2>6, <3>1, OtherTaken DEF m
    <3> QED
      BY <2>1, <3>1, <3>2
  <2>7. CASE m.id # c /\ ~Pushing(c)' /\ ~InHand(c)' /\ (c \in entries' <=> c \in entries)
    <3>1. ~IsFrame(m, c)
      BY <2>7 DEF IsFrame
    <3> QED
      BY <2>1, <2>2, <2>3, <2>6, <2>7, <3>1
      DEF StreamInv, ServedOnce, HasEntry, Follows, EndsWhole
  <2>8. CASE m.id = c /\ UNCHANGED <<rpc, hand, entries>>
             /\ (c \notin entries \/ m.flag \in {"reply", "fail"})
    <3>1. ~Pushing(c)' /\ ~InHand(c)'
      BY <2>2, <2>8 DEF Pushing, InHand
    <3>2. c \in entries => ~IsFrame(m, c)
      BY <2>8 DEF IsFrame
    <3> QED
      BY <2>1, <2>2, <2>3, <2>6, <2>8, <3>1, <3>2
      DEF StreamInv, ServedOnce, HasEntry, Follows, EndsWhole
  <2>9. CASE m.id = c /\ m.flag = "data" /\ c \in entries
             /\ rpc' = "push" /\ hand' = m /\ entries' = entries
    <3>1. IsFrame(m, c) /\ Pushing(c)' /\ ~InHand(c)' /\ ~Unsent(c)
      BY <2>3, <2>9 DEF IsFrame, Pushing, InHand, StreamInv, ServedOnce
    <3>2. Received(c)' = Received(c) + 1
      BY <2>2, <2>4, <2>5, <3>1 DEF Received
    <3>3. Clean(c) => /\ m.n = Received(c)'
                      /\ Brings(down', c, Received(c)', sent[c])
                      /\ conn = "open" => Complete(down', c, Received(c)', sent[c])
      <4> SUFFICES ASSUME Clean(c)
                   PROVE  /\ m.n = Received(c)'
                          /\ Brings(down', c, Received(c)', sent[c])
                          /\ conn = "open" => Complete(down', c, Received(c)', sent[c])
        OBVIOUS
      <4>1. /\ Rising(down, c, sent[c]) /\ Brings(down, c, Received(c), sent[c])
            /\ conn = "open" => Complete(down, c, Received(c), sent[c])
        BY <2>9 DEF StreamInv, Follows
      <4>2. Received(c) \in Int /\ sent[c] \in Int
        BY <2>4, <2>5
      <4>3. /\ m.n = Received(c) + 1
            /\ Brings(Tail(down), c, Received(c) + 1, sent[c])
            /\ Complete(down, c, Received(c), sent[c]) =>
                   Complete(Tail(down), c, Received(c) + 1, sent[c])
        BY <1>0, <2>1, <3>1, <4>1, <4>2, FrameTaken DEF m
      <4> QED
        BY <2>1, <3>2, <4>1, <4>3
    <3> QED
      BY <2>1, <2>2, <2>3, <2>9, <3>1, <3>3
      DEF StreamInv, ServedOnce, HasEntry, Follows, EndsWhole
  <2>10. CASE m.id = c /\ m.flag \in {"end", "error"} /\ c \in entries
              /\ rpc' = "terminate" /\ hand' = m /\ entries' = entries \ {c}
    <3>1. IsEnd(m, c) /\ ~Pushing(c)' /\ InHand(c)' /\ ~Unsent(c) /\ Unserved(c)
      BY <2>3, <2>10 DEF IsEnd, Pushing, InHand, StreamInv, ServedOnce
    <3>2. Clean(c) /\ m.flag = "end" => Len(Frames(c)) = sent[c]
      <4> SUFFICES ASSUME Clean(c), m.flag = "end" PROVE Len(Frames(c)) = sent[c]
        OBVIOUS
      <4>1. Brings(down, c, Received(c), sent[c])
        BY <2>10 DEF StreamInv, Follows
      <4>2. Received(c) \in Int /\ sent[c] \in Int
        BY <2>4, <2>5
      <4>3. Received(c) = sent[c]
        BY <1>0, <2>1, <2>10, <4>1, <4>2, EndTaken DEF m
      <4> QED
        BY <2>5, <4>3
    <3> QED
      BY <2>1, <2>2, <2>3, <2>10, <3>1, <3>2
      DEF StreamInv, ServedOnce, HasEntry, Follows, EndsWhole
  <2>11. CASE m.id \in entries \cap (IF m.flag \in Answers THEN Unary ELSE Streams)
    <3>1. /\ rpc' = HandFor(m.flag) /\ hand' = m
          /\ entries' = IF m.flag = "data" THEN entries ELSE entries \ {m.id}
      BY <1>12, <2>11 DEF Dispatch, m
    <3>2. CASE m.id = c
      <4>1. m.flag \notin Answers /\ c \in entries
        BY <1>0, <2>11, <3>2
      <4> QED
        BY <2>1, <2>9, <2>10, <3>1, <3>2, <4>1 DEF HandFor, Answers, Flags
    <3>3. CASE m.id # c
      BY <2>7, <3>1, <3>3 DEF Pushing, InHand
    <3> QED
      BY <3>2, <3>3
  <2>12. CASE m.id \notin entries \cap (IF m.flag \in Answers THEN Unary ELSE Streams)
    <3>1. UNCHANGED <<rpc, hand, entries>>
      BY <1>12, <2>12 DEF Dispatch, m
    <3>2. CASE m.id = c
      BY <1>0, <2>8, <2>12, <3>1, <3>2 DEF Answers
    <3>3. CASE m.id # c
      <4>1. ~Pushing(c)' /\ ~InHand(c)'
        BY <2>2, <3>1 DEF Pushing, InHand
      <4> QED
        BY <2>7, <3>1, <3>3, <4>1
    <3> QED
      BY <3>2, <3>3
  <2> QED
    BY <2>11, <2>12
<1>13. CASE Deliver
  <2>1. hand.id # c
    BY <1>0, <1>13 DEF Deliver, Tracking, OfKind
  <2> QED
    BY <1>0, <1>1, <1>13, <2>1
    DEF Deliver, ReadOn, NoMessage, StreamInv, ServedOnce, HasEntry, Follows, EndsWhole, Clean,
        Pushing, Received, Unserved, Unsent, InHand
<1>14. CASE Push
  <2>1. /\ rpc = "push" /\ rpc' = "read" /\ hand' = NoMessage
        /\ ~Pushing(c)' /\ ~InHand(c)' /\ ~InHand(c)
        /\ UNCHANGED <<pc, entries, term, ctxDone, got, downVars, netVars, serverVars>>
    BY <1>14 DEF Push, ReadOn, Pushing, InHand
  <2>2. UNCHANGED Unsent(c) /\ UNCHANGED Unserved(c) /\ UNCHANGED Clean(c)
    BY <2>1 DEF Unsent, Unserved, Clean
  <2>3. CASE hand.id # c
    <3>1. buf'[c] = buf[c] /\ ~Pushing(c)
      BY <1>0, <1>14, <2>3 DEF Push, Pushing
    <3>2. UNCHANGED Frames(c) /\ UNCHANGED Received(c)
      BY <2>1, <3>1 DEF Frames, Received
    <3> QED
      BY <2>1, <2>2, <3>1, <3>2 DEF StreamInv, ServedOnce, HasEntry, Follows, EndsWhole
  <2>4. CASE hand.id = c
    <3>1. Pushing(c) /\ ~Unsent(c) /\ (Clean(c) => c \in entries /\ term[c] = "none")
      BY <1>0, <2>1, <2>4 DEF Pushing, StreamInv, ServedOnce, HasEntry, Clean
    <3>2. /\ got[c] \in Seq(0 .. MaxFrames) /\ buf[c] \in Seq(0 .. MaxFrames)
          /\ Len(Frames(c)) \in Nat
      <4>1. got[c] \in Seq(0 .. MaxFrames) /\ buf[c] \in Seq(0 .. MaxFrames)
        BY <1>0
      <4> QED
        BY <4>1, JoinedLength DEF Frames
    <3>3. Received(c) = Len(Frames(c)) + 1
      BY <3>1 DEF Received
    <3>4. hand.n \in 0 .. MaxFrames
      <4>1. hand \in Messages
        BY <1>0, <2>4 DEF TypeOK, NoMessage
      <4> QED
        BY <4>1, MessageParts
    <3>5. ASSUME Clean(c)
          PROVE  InRow(Frames(c)') /\ Len(Frames(c)') = Received(c)
      <4>1. buf'[c] = Append(buf[c], hand.n)
        BY <1>0, <1>14, <2>4, <3>1, <3>5 DEF Push, Clean
      <4>2. InRow(got[c] \o buf[c]) /\ hand.n = Len(got[c] \o buf[c]) + 1
        BY <3>1, <3>3, <3>5 DEF StreamInv, Follows, Frames
      <4>3. InRow(got[c] \o Append(buf[c], hand.n))
        BY <3>2, <3>4, <4>2, PushedInRow
      <4>4. Len(got[c] \o Append(buf[c], hand.n)) = Len(got[c] \o buf[c]) + 1
        <5> DEFINE g == got[c]
                   b == buf[c]
                   x == hand.n
        <5>1. g \in Seq(0 .. MaxFrames) /\ b \in Seq(0 .. MaxFrames) /\ x \in 0 .. MaxFrames
          BY <3>2, <3>4
        <5> HIDE DEF g, b, x
        <5>2. Len(g \o Append(b, x)) = Len(g \o b) + 1
          BY <5>1, PushedInRow
        <5> QED
          BY <5>2 DEF g, b, x
      <4> QED
        BY <2>1, <3>3, <4>1, <4>3, <4>4 DEF Frames
    <3>6. Clean(c) => Received(c)' = Received(c)
      <4>1. Received(c) \in Nat
        BY <3>2, <3>3
      <4> QED
        BY <2>1, <3>5, <4>1 DEF Received
    <3>7. term[c] = "eof" => c \notin entries
      BY DEF StreamInv, HasEntry
    <3> QED
      BY <2>1, <2>2, <3>1, <3>5, <3>6, <3>7
      DEF StreamInv, ServedOnce, HasEntry, Follows, EndsWhole, Clean
  <2> QED
    BY <2>3, <2>4
<1>15. CASE EndStream
  <2>1. /\ rpc = "terminate" /\ rpc' = "read" /\ hand' = NoMessage
        /\ ~Pushing(c)' /\ ~InHand(c)' /\ ~Pushing(c)
        /\ UNCHANGED <<pc, entries, buf, got, ctxDone, downVars, netVars, serverVars>>
    BY <1>15 DEF EndStream, ReadOn, Pushing, InHand
  <2>2. UNCHANGED Unsent(c) /\ UNCHANGED Unserved(c) /\ UNCHANGED Frames(c)
        /\ UNCHANGED Received(c)
    BY <2>1 DEF Unsent, Unserved, Frames, Received
  <2>3. CASE hand.id # c
    <3>1. term'[c] = term[c] /\ ~InHand(c)
      BY <1>0, <1>15, <2>3 DEF EndStream, Terminate, InHand
    <3> QED
      BY <2>1, <2>2, <3>1 DEF StreamInv, ServedOnce, HasEntry, Follows, EndsWhole, Clean
  <2>4. CASE hand.id = c
    <3>1. InHand(c) /\ ~Unsent(c) /\ Unserved(c) /\ c \notin entries
      BY <2>1, <2>4 DEF InHand, StreamInv, ServedOnce, HasEntry
    <3>2. \/ term'[c] = term[c]
          \/ term[c] = "none" /\ term'[c] = "eof" /\ hand.flag = "end"
          \/ term'[c] = "error"
      BY <1>0, <1>15, <2>4 DEF EndStream, Terminate
    <3> QED
      BY <2>1, <2>2, <3>1, <3>2
      DEF StreamInv, ServedOnce, HasEntry, Follows, EndsWhole, Clean
  <2> QED
    BY <2>3, <2>4
<1>16. CASE ReadFails
  <2>1. ~Pushing(c) /\ ~InHand(c) /\ ~Pushing(c)' /\ ~InHand(c)'
        /\ UNCHANGED <<pc, entries, buf, got, term, ctxDone, cur, netVars, serverVars>>
    BY <1>16 DEF ReadFails, Shutdown, Pushing, InHand
  <2> QED
    BY <1>1, <2>1
    DEF StreamInv, ServedOnce, HasEntry, Follows, EndsWhole, Clean, Received, Unserved, Unsent
<1>17. CASE Close
  BY <1>1, <1>17, SameStream DEF Close, Shutdown, Unsent
<1>18. CASE CloseConn
  <2>1. conn' # "open"
        /\ UNCHANGED <<pc, entries, buf, got, term, ctxDone, rpc, hand, cur, up, down, serverVars>>
    BY <1>18 DEF CloseConn
  <2> QED
    BY <1>1, <2>1
    DEF StreamInv, ServedOnce, HasEntry, Follows, EndsWhole, Clean, Pushing, Received,
        Unserved, Unsent, InHand
<1>19. ASSUME NEW d \in Calls, Resolve(d) PROVE StreamInv(c)'
  <2>1. UNCHANGED <<pc, entries, buf, got, ctxDone, rpc, hand, netVars, serverVars>> /\ cur' = d
    BY <1>19 DEF Resolve
  <2>2. UNCHANGED <<Frames(c), Pushing(c), InHand(c), Received(c), Unserved(c), Unsent(c)>>
    BY <2>1 DEF Frames, Pushing, InHand, Received, Unserved, Unsent
  <2>3. \/ d # c /\ term'[c] = term[c]
        \/ d = c /\ term'[c] = term[c] /\ term[c] # "none"
        \/ d = c /\ term'[c] = "error"
    BY <1>0, <1>19 DEF Resolve, Terminate
  <2> QED
    BY <2>1, <2>2, <2>3 DEF StreamInv, ServedOnce, HasEntry, Follows, EndsWhole, Clean
<1>20. CASE DeleteEntry
  <2>1. /\ UNCHANGED <<pc, buf, got, term, ctxDone, rpc, hand, netVars, serverVars>>
        /\ entries' = entries \ {cur} /\ cur' = NoCall
    BY <1>20 DEF DeleteEntry
  <2>2. UNCHANGED <<Frames(c), Pushing(c), InHand(c), Received(c), Unserved(c), Unsent(c)>>
    BY <2>1 DEF Frames, Pushing, InHand, Received, Unserved, Unsent
  <2>3. c = cur => term[c] \in {"eof", "error"}
    BY <1>0 DEF StreamInv, HasEntry
  <2> QED
    BY <1>0, <2>1, <2>2, <2>3 DEF StreamInv, ServedOnce, HasEntry, Follows, EndsWhole, Clean
<1>21. CASE RangeEnds
  BY <1>1, <1>21, SameStream DEF RangeEnds, Unsent
<1>22. ASSUME UNCHANGED <<pc, entries, buf, got, term, ctxDone, rpc, hand, cur>>
       PROVE  /\ UNCHANGED <<Frames(c), Pushing(c), InHand(c), Received(c), Unsent(c), Clean(c)>>
              /\ Received(c) \in Nat /\ sent[c] \in Nat
  <2>1. UNCHANGED <<Frames(c), Pushing(c), InHand(c), Received(c), Unsent(c), Clean(c)>>
    BY <1>22 DEF Frames, Pushing, InHand, Received, Unsent, Clean
  <2>2. got[c] \in Seq(0 .. MaxFrames) /\ buf[c] \in Seq(0 .. MaxFrames)
    BY <1>0
  <2>3. Len(Frames(c)) \in Nat
    BY <2>2, JoinedLength DEF Frames
  <2> QED
    BY <1>0, <2>1, <2>3 DEF Received
<1>23. ASSUME NEW m \in Messages, ~IsFrame(m, c), ~IsEnd(m, c), Reply(m),
              UNCHANGED <<pc, entries, buf, got, term, ctxDone, rpc, hand, cur>>,
              UNCHANGED <<conn, handlers, sent>>, Asked(up', c) => Asked(up, c), Once(up', c)
       PROVE  StreamInv(c)'
  <2>1. Received(c) \in Int /\ sent[c] \in Int /\ down' = Append(down, m)
    BY <1>22, <1>23 DEF Reply
  <2>2. /\ Ended(down', c) => Ended(down, c)
        /\ Quiet(down, c) => Quiet(down', c)
        /\ Rising(down, c, sent[c]) => Rising(down', c, sent[c])
        /\ Brings(down, c, Received(c), sent[c]) => Brings(down', c, Received(c), sent[c])
        /\ Complete(down, c, Received(c), sent[c]) => Complete(down', c, Received(c), sent[c])
    BY <1>0, <1>23, <2>1, OtherAppended
  <2> QED
    BY <1>22, <1>23, <2>2 DEF StreamInv, ServedOnce, HasEntry, Follows, EndsWhole, Unserved
<1>24. CASE Reject
  <2>1. up # <<>> /\ up' = Tail(up) /\ Head(up) \in Calls
    BY <1>0, <1>24, FirstAndRest DEF Reject
  <2>2. (Asked(up', c) => Asked(up, c)) /\ Once(up', c)
    BY <1>0, <2>1, AskNext DEF StreamInv, ServedOnce
  <2> DEFINE m == Message(Head(up), "fail", 0)
  <2>3. m \in Messages /\ ~IsFrame(m, c) /\ ~IsEnd(m, c)
    BY <2>1, MessageType DEF Flags, Message, IsFrame, IsEnd
  <2>4. Reply(m)
    BY <1>24 DEF Reject
  <2> HIDE DEF m
  <2> QED
    BY <1>23, <1>24, <2>2, <2>3, <2>4 DEF Reject
<1>25. CASE Serve
  <2>1. up # <<>> /\ up' = Tail(up) /\ Head(up) \in Calls
    BY <1>0, <1>25, FirstAndRest DEF Serve
  <2>2. /\ Asked(up', c) => Asked(up, c)
        /\ Once(up', c)
        /\ Head(up) = c => ~Asked(up', c) /\ Asked(up, c)
    BY <1>0, <2>1, AskNext DEF StreamInv, ServedOnce
  <2>3. c \in handlers' => c \in handlers \/ Head(up) = c
    BY <1>25 DEF Serve
  <2>4. /\ UNCHANGED <<pc, entries, buf, got, term, ctxDone, rpc, hand, cur>>
        /\ UNCHANGED <<conn, down, sent>>
    BY <1>25 DEF Serve
  <2> QED
    BY <1>22, <2>2, <2>3, <2>4
    DEF StreamInv, ServedOnce, HasEntry, Follows, EndsWhole, Unserved
<1>26. CASE AnswerCall
  <2>1. PICK f \in {"reply", "fail"} : Reply(Message(serving, f, 0))
    BY <1>26 DEF AnswerCall
  <2> DEFINE m == Message(serving, f, 0)
  <2>2. serving \in Calls /\ f \in Flags
    BY <1>26 DEF TypeOK, AnswerCall, Flags
  <2>3. m \in Messages /\ ~IsFrame(m, c) /\ ~IsEnd(m, c)
    BY <2>1, <2>2, MessageType DEF Message, IsFrame, IsEnd
  <2> HIDE DEF m
  <2> QED
    BY <1>23, <1>26, <2>1, <2>3 DEF AnswerCall, m, StreamInv, ServedOnce
<1>27. ASSUME NEW d \in Streams, SendFrame(d) PROVE StreamInv(c)'
  <2>1. /\ UNCHANGED <<pc, entries, buf, got, term, ctxDone, rpc, hand, cur, conn, up, handlers>>
        /\ conn = "open" /\ d \in handlers /\ sent[d] < MaxFrames
        /\ down' = Append(down, Message(d, "data", sent[d] + 1))
        /\ sent' = [sent EXCEPT ![d] = @ + 1]
    BY <1>27 DEF SendFrame, Reply
  <2>2. CASE d # c
    <3> DEFINE m == Message(d, "data", sent[d] + 1)
    <3>1. sent[d] + 1 \in 0 .. MaxFrames /\ sent'[c] = sent[c]
      BY <1>0, <2>1, <2>2
    <3>2. m \in Messages /\ ~IsFrame(m, c) /\ ~IsEnd(m, c)
      BY <2>2, <3>1, MessageType DEF Flags, Message, IsFrame, IsEnd
    <3> HIDE DEF m
    <3>3. Received(c) \in Int /\ sent[c] \in Int
      BY <1>22, <2>1
    <3>4. /\ Ended(down', c) => Ended(down, c)
          /\ Quiet(down, c) => Quiet(down', c)
          /\ Rising(down, c, sent[c]) => Rising(down', c, sent[c])
          /\ Brings(down, c, Received(c), sent[c]) => Brings(down', c, Received(c), sent[c])
          /\ Complete(down, c, Received(c), sent[c]) => Complete(down', c, Received(c), sent[c])
      BY <1>0, <2>1, <3>2, <3>3, OtherAppended DEF m
    <3> QED
      BY <1>22, <2>1, <3>1, <3>4
      DEF StreamInv, ServedOnce, HasEntry, Follows, EndsWhole, Unserved
  <2>3. CASE d = c
    <3>1. ~Unserved(c) /\ ~Ended(down, c) /\ ~InHand(c) /\ term[c] # "eof" /\ ~Unsent(c)
      BY <2>1, <2>3 DEF StreamInv, ServedOnce, Unserved
    <3>2. /\ Received(c) \in Nat /\ sent[c] \in Nat /\ sent[c] + 1 <= MaxFrames
          /\ sent'[c] = sent[c] + 1
      BY <1>0, <1>22, <2>1, <2>3
    <3>3. /\ Ended(down', c) => Ended(down, c)
          /\ Rising(down, c, sent[c]) => Rising(down', c, sent'[c])
          /\ Brings(down, c, Received(c), sent[c]) /\ Complete(down, c, Received(c), sent[c])
             /\ ~Ended(down, c) =>
                 Brings(down', c, Received(c), sent'[c]) /\ Complete(down', c, Received(c), sent'[c])
      BY <1>0, <2>1, <2>3, <3>2, FrameAppended
    <3> QED
      BY <1>22, <2>1, <2>3, <3>1, <3>3
      DEF StreamInv, ServedOnce, HasEntry, Follows, EndsWhole, Unserved
  <2> QED
    BY <2>2, <2>3
<1>28. ASSUME NEW d \in Streams, HandlerReturns(d) PROVE StreamInv(c)'
  <2>1. PICK f \in {"end", "error"} : Reply(Message(d, f, 0))
    BY <1>28 DEF HandlerReturns
  <2>2. /\ UNCHANGED <<pc, entries, buf, got, term, ctxDone, rpc, hand, cur, conn, up, sent>>
        /\ conn = "open" /\ d \in handlers /\ handlers' = handlers \ {d}
    BY <1>28 DEF HandlerReturns
  <2> DEFINE m == Message(d, f, 0)
  <2>3. m \in Messages /\ m.id = d /\ m.flag \in {"end", "error"}
    BY <2>1, MessageType DEF Flags, Message
  <2>4. down' = Append(down, m)
    BY <2>1 DEF Reply
  <2>5. Received(c) \in Int /\ sent[c] \in Int
    BY <1>22, <2>2
  <2> HIDE DEF m
  <2>6. CASE d # c
    <3>1. ~IsFrame(m, c) /\ ~IsEnd(m, c)
      BY <2>3, <2>6 DEF IsFrame, IsEnd
    <3>2. /\ Ended(down', c) => Ended(down, c)
          /\ Quiet(down, c) => Quiet(down', c)
          /\ Rising(down, c, sent[c]) => Rising(down', c, sent[c])
          /\ Brings(down, c, Received(c), sent[c]) => Brings(down', c, Received(c), sent[c])
          /\ Complete(down, c, Received(c), sent[c]) => Complete(down', c, Received(c), sent[c])
      BY <1>0, <2>3, <2>4, <2>5, <3>1, OtherAppended
    <3> QED
      BY <1>22, <2>2, <2>6, <3>2
      DEF StreamInv, ServedOnce, HasEntry, Follows, EndsWhole, Unserved
  <2>7. CASE d = c
    <3>1. IsEnd(m, c) /\ ~Unsent(c) /\ Unserved(c)'
      BY <2>2, <2>3, <2>7 DEF IsEnd, StreamInv, ServedOnce, Unserved
    <3>2. /\ Rising(down, c, sent[c]) => Rising(down', c, sent[c])
          /\ Brings(down, c, Received(c), sent[c]) /\ Complete(down, c, Received(c), sent[c]) =>
                 Brings(down', c, Received(c), sent[c]) /\ Complete(down', c, Received(c), sent[c])
      BY <1>0, <2>3, <2>4, <2>5, <3>1, EndAppended
    <3> QED
      BY <1>22, <2>2, <3>1, <3>2 DEF StreamInv, ServedOnce, HasEntry, Follows, EndsWhole, Unserved
  <2> QED
    BY <2>6, <2>7
<1>29. CASE Break
  <2>1. /\ UNCHANGED <<pc, entries, buf, got, term, ctxDone, rpc, hand, cur, handlers, sent>>
        /\ conn' = "broken" /\ up' = <<>>
    BY <1>29 DEF Break
  <2>2. PICK k \in 0 .. Len(down) : down' = SubSeq(down, 1, k)
    BY <1>29 DEF Break
  <2>3. ~Asked(up', c) /\ Once(up', c)
    BY <2>1 DEF Asked, Once
  <2>4. Received(c) \in Int /\ sent[c] \in Int
    BY <1>22, <2>1
  <2>5. /\ Ended(down', c) => Ended(down, c)
        /\ Quiet(down, c) => Quiet(down', c)
        /\ Rising(down, c, sent[c]) => Rising(down', c, sent[c])
        /\ Brings(down, c, Received(c), sent[c]) => Brings(down', c, Received(c), sent[c])
    BY <1>0, <2>2, <2>4, CutOff
  <2> QED
    BY <1>22, <2>1, <2>3, <2>5
    DEF StreamInv, ServedOnce, HasEntry, Follows, EndsWhole, Unserved
<1>30. CASE UNCHANGED vars
  BY <1>1, <1>30, SameStream DEF vars, Unsent
<1> QED
  BY <1>2, <1>3, <1>5, <1>6, <1>7, <1>8, <1>10, <1>11, <1>12, <1>13, <1>14, <1>15, <1>16,
     <1>17, <1>18, <1>19, <1>20, <1>21, <1>24, <1>25, <1>26, <1>27, <1>28, <1>29, <1>30
  DEF Next, Send, ReadLoop, Sweep, Other

-----------------------------------------------------------------------------
(* What follows.                                                           *)

LEMMA Invariance == Spec => []IInv
<1>1. IInv /\ [Next]_vars => IInv'
  BY StepTypeOK, StepTracking DEF IInv
<1> QED
  BY InitIInv, <1>1, PTL DEF Spec

(* Every state of the client and the connection has its type, and no       *)
(* stream buffers more frames than its channel holds, whatever calls are   *)
(* made and whatever arrives (tcp_client.go, stream.go).                   *)
THEOREM TypeCorrect == Spec => []TypeOK
<1>1. IInv => TypeOK
  BY DEF IInv
<1> QED
  BY Invariance, <1>1, PTL

(* No call is lost between the store of its entry, the reader that takes   *)
(* it out and the sweep of shutdown: whoever waits for an answer or the    *)
(* end of a stream is found by one of the two (tcp_client.go).             *)
THEOREM EveryCallFound == Spec => []NoCallLost
<1>1. IInv => NoCallLost
  <2> SUFFICES ASSUME IInv, NEW c \in Calls, Unresolved(c)
               PROVE  (c \in entries /\ sd # "over") \/ InHand(c)
    BY DEF NoCallLost, InHand
  <2>1. Live(c) /\ pc[c] # "stored"
    BY TransportAssumption DEF IInv, Tracking, OfKind, Unresolved, Live, Calls
  <2> QED
    BY <2>1 DEF IInv, Tracking, Held, AheadOfSweep
<1> QED
  BY Invariance, <1>1, PTL

(* A stream nobody cancelled delivers the server's frames from the first   *)
(* on, in order and without a gap, unless it ends with an error, and all   *)
(* of them if it ends without one: neither the table lookup, nor the       *)
(* buffer that is full, nor the terminal state that overtakes the buffer   *)
(* drops a frame (readLoop, Push, terminate and Recv).                     *)
THEOREM StreamsIntact == Spec => []StreamIntact
<1> DEFINE SInv == \A c \in Streams : StreamInv(c)
<1>1. Init => SInv
  BY InitStream
<1>2. IInv /\ SInv /\ [Next]_vars => SInv'
  BY StepStream DEF IInv
<1>3. IInv /\ SInv => StreamIntact
  <2> SUFFICES ASSUME SInv, NEW c \in Streams, term[c] # "error", ~ctxDone[c]
               PROVE  /\ \A i \in 1 .. Len(Frames(c)) : Frames(c)[i] = i
                      /\ term[c] = "eof" => Len(Frames(c)) = sent[c]
    BY DEF StreamIntact, Frames
  <2> QED
    BY DEF StreamInv, Follows, EndsWhole, Clean, InRow
<1> HIDE DEF SInv
<1> QED
  BY Invariance, <1>1, <1>2, <1>3, PTL DEF Spec
=============================================================================
