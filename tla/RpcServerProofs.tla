-------------------------- MODULE RpcServerProofs --------------------------
(***************************************************************************)
(* Safety of a server's shutdown, for any connections, requests and        *)
(* callers of GracefulStop and Stop.                                       *)
(***************************************************************************)
EXTENDS RpcServer, TLAPS

(* TypeOK in parts: the shutdown, the connections, what is counted.        *)
StopTypes ==
    /\ serve \in ServePCs
    /\ hold \in SUBSET Conns /\ conns \in SUBSET Conns
    /\ closing \in BOOLEAN
    /\ listener \in {"none", "open", "closed"}
    /\ once \in {"no", "running", "over"}
    /\ stop \in [Stoppers -> StopPCs]

ConnTypes ==
    /\ handle \in [Conns -> HandlePCs]
    /\ sock \in [Conns -> SockStates]
    /\ cut \in [Conns -> BOOLEAN]
    /\ reads \in [Conns -> BOOLEAN]
    /\ deadline \in [Conns -> BOOLEAN]

CountTypes ==
    /\ streams \in [Conns -> Nat]
    /\ packets \in [Conns -> Nat]
    /\ wire \in [Conns -> Nat]
    /\ left \in [Conns -> Nat]
    /\ tokens \in 0 .. Rate /\ ticking \in BOOLEAN

(* What Serve has in its hands has no goroutine yet, and is registered     *)
(* before it gets one.                                                     *)
Holding ==
    /\ hold # {} => serve \in {"register", "spawn"}
    /\ \A c, d \in hold : c = d
    /\ \A c \in hold : handle[c] = "none" /\ sock[c] \notin {"none", "backlog"}
    /\ serve = "spawn" => hold \subseteq conns

(* An open connection is registered or in the hands of Serve; one that is  *)
(* done has been closed and has nothing left to do.                        *)
Tracked ==
    \A c \in Conns :
        /\ sock[c] = "open" => c \in hold \cup conns
        /\ sock[c] \in {"none", "backlog"} => handle[c] = "none"
        /\ handle[c] \in {"unregister", "gone"} =>
               sock[c] = "closed" /\ packets[c] = 0 /\ streams[c] = 0
        /\ handle[c] = "drain" => packets[c] = 0

(* Behind shutdownOnce the listener is closed, or Serve has still to see   *)
(* that it should be; behind the wait for Serve nothing is accepted.       *)
Ordered ==
    /\ once = "over" => closing /\ (listener = "open" => serve = "registered")
    /\ \A s \in Stoppers :
           /\ stop[s] # "idle" => closing
           /\ stop[s] \in {"waitServe", "sweep", "waitConns", "done"} => once = "over"
           /\ stop[s] \in {"sweep", "waitConns", "done"} => hold = {}
           /\ stop[s] \in {"waitConns", "done"} =>
                  \A c \in Conns : sock[c] = "open" => deadline[c]

(* Until a Stop has swept, only a goroutine that is done closes.           *)
Intact ==
    (\A s \in Hard : stop[s] # "done") =>
        \A c \in Conns :
            /\ ~cut[c]
            /\ sock[c] = "closed" => handle[c] \in {"unregister", "gone"}

IInv == StopTypes /\ ConnTypes /\ CountTypes /\ Holding /\ Tracked /\ Ordered /\ Intact

LEMMA TypesAreTypes == IInv => TypeOK
BY DEF IInv, StopTypes, ConnTypes, CountTypes, TypeOK

LEMMA InitIInv == Init => IInv
<1> SUFFICES ASSUME Init PROVE IInv
  OBVIOUS
<1>1. StopTypes
  BY DEF Init, StopTypes, ServePCs, StopPCs
<1>2. ConnTypes
  BY DEF Init, ConnTypes, HandlePCs, SockStates
<1>3. CountTypes
  BY ServerAssumption DEF Init, CountTypes
<1>4. Holding /\ Tracked /\ Ordered /\ Intact
  BY DEF Init, Holding, Tracked, Ordered, Intact
<1> QED
  BY <1>1, <1>2, <1>3, <1>4 DEF IInv

-----------------------------------------------------------------------------
(* Serve. A connection is accepted only while the listener is open, which  *)
(* rules the sweeps out.                                                   *)
LEMMA ServeStep ==
    ASSUME IInv, ServeLoop
    PROVE  IInv'
<1> USE DEF serveVars, stopVars, handleVars, peerVars, bucketVars,
           IInv, StopTypes, ConnTypes, CountTypes, ServePCs, HandlePCs, SockStates
<1>1. CASE RegisterListener
  <2>1. StopTypes' /\ ConnTypes' /\ CountTypes'
    BY <1>1 DEF RegisterListener
  <2>2. Holding' /\ Tracked'
    BY <1>1 DEF RegisterListener, Holding, Tracked
  <2>3. Ordered' /\ Intact'
    BY <1>1 DEF RegisterListener, Holding, Tracked, Ordered, Intact
  <2> QED
    BY <2>1, <2>2, <2>3 DEF IInv
<1>2. CASE CheckClosing
  <2>1. StopTypes' /\ ConnTypes' /\ CountTypes'
    BY <1>2 DEF CheckClosing, Reset
  <2>2. Holding' /\ Tracked'
    BY <1>2 DEF CheckClosing, Reset, Holding, Tracked
  <2>3. Ordered' /\ Intact'
    BY <1>2 DEF CheckClosing, Reset, Holding, Tracked, Ordered, Intact
  <2> QED
    BY <2>1, <2>2, <2>3 DEF IInv
<1>3. CASE AddServe
  <2>1. StopTypes' /\ ConnTypes' /\ CountTypes'
    BY <1>3 DEF AddServe
  <2>2. Holding' /\ Tracked'
    BY <1>3 DEF AddServe, Holding, Tracked
  <2>3. Ordered' /\ Intact'
    BY <1>3 DEF AddServe, Holding, Tracked, Ordered, Intact
  <2> QED
    BY <2>1, <2>2, <2>3 DEF IInv
<1>4. CASE AcceptFails
  <2>1. StopTypes' /\ ConnTypes' /\ CountTypes'
    BY <1>4 DEF AcceptFails
  <2>2. Holding' /\ Tracked'
    BY <1>4 DEF AcceptFails, Holding, Tracked
  <2>3. Ordered' /\ Intact'
    BY <1>4 DEF AcceptFails, Holding, Tracked, Ordered, Intact
  <2> QED
    BY <2>1, <2>2, <2>3 DEF IInv
<1>5. ASSUME NEW c \in Conns, Accept(c) PROVE IInv'
  <2>1. StopTypes' /\ ConnTypes' /\ CountTypes'
    BY <1>5 DEF Accept
  <2>2. Holding' /\ Tracked'
    BY <1>5 DEF Accept, Holding, Tracked
  <2>3. Ordered' /\ Intact'
    BY <1>5 DEF Accept, Holding, Tracked, Ordered, Intact
  <2> QED
    BY <2>1, <2>2, <2>3 DEF IInv
<1>6. ASSUME NEW c \in Conns, Register(c) PROVE IInv'
  <2>1. StopTypes' /\ ConnTypes' /\ CountTypes'
    BY <1>6 DEF Register
  <2>2. Holding' /\ Tracked'
    BY <1>6 DEF Register, Holding, Tracked
  <2>3. Ordered' /\ Intact'
    BY <1>6 DEF Register, Holding, Tracked, Ordered, Intact
  <2> QED
    BY <2>1, <2>2, <2>3 DEF IInv
<1>7. ASSUME NEW c \in Conns, Spawn(c) PROVE IInv'
  <2>1. StopTypes' /\ ConnTypes' /\ CountTypes'
    BY <1>7 DEF Spawn
  <2>2. Holding' /\ Tracked'
    BY <1>7 DEF Spawn, Holding, Tracked
  <2>3. Ordered' /\ Intact'
    BY <1>7 DEF Spawn, Holding, Tracked, Ordered, Intact
  <2> QED
    BY <2>1, <2>2, <2>3 DEF IInv
<1> QED
  BY <1>1, <1>2, <1>3, <1>4, <1>5, <1>6, <1>7 DEF ServeLoop

(* GracefulStop and Stop. The sweep finds every open connection among the  *)
(* registered ones, because Serve has nothing in its hands.                *)
LEMMA ShutdownStep ==
    ASSUME IInv, NEW s \in Stoppers, BeginShutdown(s) \/ StopStep(s)
    PROVE  IInv'
<1> USE DEF serveVars, stopVars, handleVars, peerVars, bucketVars,
           IInv, StopTypes, ConnTypes, CountTypes, StopPCs, SockStates
<1>1. CASE BeginShutdown(s)
  <2>1. StopTypes' /\ ConnTypes' /\ CountTypes'
    BY <1>1 DEF BeginShutdown
  <2>2. Holding' /\ Tracked'
    BY <1>1 DEF BeginShutdown, Holding, Tracked
  <2>3. Ordered' /\ Intact'
    BY <1>1 DEF BeginShutdown, Holding, Tracked, Ordered, Intact
  <2> QED
    BY <2>1, <2>2, <2>3 DEF IInv
<1>2. CASE CloseListener(s)
  <2>1. StopTypes' /\ ConnTypes' /\ CountTypes'
    BY <1>2 DEF CloseListener, Reset
  <2>2. Holding' /\ Tracked'
    BY <1>2 DEF CloseListener, Reset, Holding, Tracked
  <2>3. Ordered' /\ Intact'
    BY <1>2 DEF CloseListener, Reset, Holding, Tracked, Ordered, Intact
  <2> QED
    BY <2>1, <2>2, <2>3 DEF IInv
<1>3. CASE OnceOver(s)
  <2>1. StopTypes' /\ ConnTypes' /\ CountTypes'
    BY <1>3 DEF OnceOver
  <2>2. Holding' /\ Tracked'
    BY <1>3 DEF OnceOver, Holding, Tracked
  <2>3. Ordered' /\ Intact'
    BY <1>3 DEF OnceOver, Holding, Tracked, Ordered, Intact
  <2> QED
    BY <2>1, <2>2, <2>3 DEF IInv
<1>4. CASE WaitServe(s)
  <2>1. StopTypes' /\ ConnTypes' /\ CountTypes'
    BY <1>4 DEF WaitServe, InServe
  <2>2. Holding' /\ Tracked'
    BY <1>4 DEF WaitServe, InServe, Holding, Tracked
  <2>3. Ordered' /\ Intact'
    BY <1>4 DEF WaitServe, InServe, Holding, Tracked, Ordered, Intact
  <2> QED
    BY <2>1, <2>2, <2>3 DEF IInv
<1>5. CASE Interrupt(s)
  <2>1. StopTypes' /\ ConnTypes' /\ CountTypes'
    BY <1>5 DEF Interrupt
  <2>2. Holding' /\ Tracked'
    BY <1>5 DEF Interrupt, Holding, Tracked
  <2>3. Ordered' /\ Intact'
    BY <1>5 DEF Interrupt, Holding, Tracked, Ordered, Intact
  <2> QED
    BY <2>1, <2>2, <2>3 DEF IInv
<1>6. CASE WaitConns(s)
  <2>1. StopTypes' /\ ConnTypes' /\ CountTypes'
    BY <1>6 DEF WaitConns
  <2>2. Holding' /\ Tracked'
    BY <1>6 DEF WaitConns, Holding, Tracked
  <2>3. Ordered' /\ Intact'
    BY <1>6 DEF WaitConns, Holding, Tracked, Ordered, Intact
  <2> QED
    BY <2>1, <2>2, <2>3 DEF IInv
<1>7. CASE CloseConns(s)
  <2>1. StopTypes' /\ ConnTypes' /\ CountTypes'
    BY <1>7 DEF CloseConns
  <2>2. Holding' /\ Tracked'
    BY <1>7 DEF CloseConns, Holding, Tracked
  <2>3. Ordered' /\ Intact'
    BY <1>7 DEF CloseConns, Holding, Tracked, Ordered, Intact
  <2> QED
    BY <2>1, <2>2, <2>3 DEF IInv
<1> QED
  BY <1>1, <1>2, <1>3, <1>4, <1>5, <1>6, <1>7 DEF StopStep

(* The connection goroutine and its streams. No answer of theirs finds the *)
(* connection closed: it is the goroutine, when done, that closes it.      *)
LEMMA HandleStep ==
    ASSUME IInv, NEW c \in Conns, Goroutine(c) \/ StreamEnds(c)
    PROVE  IInv'
<1> USE DEF serveVars, stopVars, handleVars, peerVars, bucketVars,
           IInv, StopTypes, ConnTypes, CountTypes, HandlePCs, SockStates, HandleGoto
<1>1. CASE Fill(c)
  <2>1. StopTypes' /\ ConnTypes' /\ CountTypes'
    BY <1>1 DEF Fill
  <2>2. Holding' /\ Tracked'
    BY <1>1 DEF Fill, Holding, Tracked
  <2>3. Ordered' /\ Intact'
    BY <1>1 DEF Fill, Holding, Tracked, Ordered, Intact
  <2> QED
    BY <2>1, <2>2, <2>3 DEF IInv
<1>2. CASE Take(c)
  <2>1. StopTypes' /\ ConnTypes' /\ CountTypes'
    BY <1>2, ServerAssumption DEF Take
  <2>2. Holding' /\ Tracked'
    BY <1>2 DEF Take, Holding, Tracked
  <2>3. Ordered' /\ Intact'
    BY <1>2 DEF Take, Holding, Tracked, Ordered, Intact
  <2> QED
    BY <2>1, <2>2, <2>3 DEF IInv
<1>3. CASE ReadFails(c)
  <2>1. StopTypes' /\ ConnTypes' /\ CountTypes'
    BY <1>3 DEF ReadFails
  <2>2. Holding' /\ Tracked'
    BY <1>3 DEF ReadFails, Holding, Tracked
  <2>3. Ordered' /\ Intact'
    BY <1>3 DEF ReadFails, Holding, Tracked, Ordered, Intact
  <2> QED
    BY <2>1, <2>2, <2>3 DEF IInv
<1>4. CASE Process(c)
  <2>1. StopTypes' /\ ConnTypes' /\ CountTypes'
    BY <1>4 DEF Process
  <2>2. Holding' /\ Tracked'
    BY <1>4 DEF Process, Holding, Tracked
  <2>3. Ordered' /\ Intact'
    BY <1>4 DEF Process, Holding, Tracked, Ordered, Intact
  <2> QED
    BY <2>1, <2>2, <2>3 DEF IInv
<1>5. CASE WriteReply(c)
  <2>1. StopTypes' /\ ConnTypes' /\ CountTypes'
    BY <1>5 DEF WriteReply, Written
  <2>2. Holding' /\ Tracked'
    BY <1>5 DEF WriteReply, Written, Holding, Tracked
  <2>3. Ordered' /\ Intact'
    BY <1>5 DEF WriteReply, Written, Holding, Tracked, Ordered, Intact
  <2> QED
    BY <2>1, <2>2, <2>3 DEF IInv
<1>6. CASE Drain(c)
  <2>1. StopTypes' /\ ConnTypes' /\ CountTypes'
    BY <1>6 DEF Drain
  <2>2. Holding' /\ Tracked'
    BY <1>6 DEF Drain, Holding, Tracked
  <2>3. Ordered' /\ Intact'
    BY <1>6 DEF Drain, Holding, Tracked, Ordered, Intact
  <2> QED
    BY <2>1, <2>2, <2>3 DEF IInv
<1>7. CASE Unregister(c)
  <2>1. StopTypes' /\ ConnTypes' /\ CountTypes'
    BY <1>7 DEF Unregister
  <2>2. Holding' /\ Tracked'
    BY <1>7 DEF Unregister, Holding, Tracked
  <2>3. Ordered' /\ Intact'
    BY <1>7 DEF Unregister, Holding, Tracked, Ordered, Intact
  <2> QED
    BY <2>1, <2>2, <2>3 DEF IInv
<1>8. CASE StreamEnds(c)
  <2>1. StopTypes' /\ ConnTypes' /\ CountTypes'
    BY <1>8 DEF StreamEnds, Written
  <2>2. Holding' /\ Tracked'
    BY <1>8 DEF StreamEnds, Written, Holding, Tracked
  <2>3. Ordered' /\ Intact'
    BY <1>8 DEF StreamEnds, Written, Holding, Tracked, Ordered, Intact
  <2> QED
    BY <2>1, <2>2, <2>3 DEF IInv
<1> QED
  BY <1>1, <1>2, <1>3, <1>4, <1>5, <1>6, <1>7, <1>8 DEF Goroutine

(* The peers and the ticker.                                               *)
LEMMA PeerStep ==
    ASSUME IInv, Refill \/ \E c \in Conns : Peer(c)
    PROVE  IInv'
<1> USE DEF serveVars, stopVars, handleVars, peerVars, bucketVars,
           IInv, StopTypes, ConnTypes, CountTypes, SockStates
<1>1. ASSUME NEW c \in Conns, Dial(c) PROVE IInv'
  <2>1. StopTypes' /\ ConnTypes' /\ CountTypes'
    BY <1>1 DEF Dial
  <2>2. Holding' /\ Tracked'
    BY <1>1 DEF Dial, Holding, Tracked
  <2>3. Ordered' /\ Intact'
    BY <1>1 DEF Dial, Holding, Tracked, Ordered, Intact
  <2> QED
    BY <2>1, <2>2, <2>3 DEF IInv
<1>2. ASSUME NEW c \in Conns, Request(c) PROVE IInv'
  <2>1. StopTypes' /\ ConnTypes' /\ CountTypes'
    BY <1>2 DEF Request
  <2>2. Holding' /\ Tracked'
    BY <1>2 DEF Request, Holding, Tracked
  <2>3. Ordered' /\ Intact'
    BY <1>2 DEF Request, Holding, Tracked, Ordered, Intact
  <2> QED
    BY <2>1, <2>2, <2>3 DEF IInv
<1>3. ASSUME NEW c \in Conns, StopReading(c) PROVE IInv'
  <2>1. StopTypes' /\ ConnTypes' /\ CountTypes'
    BY <1>3 DEF StopReading
  <2>2. Holding' /\ Tracked'
    BY <1>3 DEF StopReading, Holding, Tracked
  <2>3. Ordered' /\ Intact'
    BY <1>3 DEF StopReading, Holding, Tracked, Ordered, Intact
  <2> QED
    BY <2>1, <2>2, <2>3 DEF IInv
<1>4. ASSUME NEW c \in Conns, Leave(c) PROVE IInv'
  <2>1. StopTypes' /\ ConnTypes' /\ CountTypes'
    BY <1>4 DEF Leave
  <2>2. Holding' /\ Tracked'
    BY <1>4 DEF Leave, Holding, Tracked
  <2>3. Ordered' /\ Intact'
    BY <1>4 DEF Leave, Holding, Tracked, Ordered, Intact
  <2> QED
    BY <2>1, <2>2, <2>3 DEF IInv
<1>5. CASE Refill
  <2>1. StopTypes' /\ ConnTypes' /\ CountTypes'
    BY <1>5, ServerAssumption DEF Refill
  <2>2. Holding' /\ Tracked'
    BY <1>5 DEF Refill, Holding, Tracked
  <2>3. Ordered' /\ Intact'
    BY <1>5 DEF Refill, Holding, Tracked, Ordered, Intact
  <2> QED
    BY <2>1, <2>2, <2>3 DEF IInv
<1> QED
  BY <1>1, <1>2, <1>3, <1>4, <1>5 DEF Peer

LEMMA StepIInv == IInv /\ [Next]_vars => IInv'
<1> SUFFICES ASSUME IInv, [Next]_vars PROVE IInv'
  OBVIOUS
<1>1. CASE UNCHANGED vars
  <2> USE <1>1 DEF vars, serveVars, stopVars, handleVars, peerVars, bucketVars, IInv
  <2>1. StopTypes' /\ ConnTypes' /\ CountTypes'
    BY DEF StopTypes, ConnTypes, CountTypes
  <2>2. Holding' /\ Tracked' /\ Ordered' /\ Intact'
    BY DEF Holding, Tracked, Ordered, Intact
  <2> QED
    BY <2>1, <2>2
<1> QED
  BY <1>1, ServeStep, ShutdownStep, HandleStep, PeerStep DEF Next

THEOREM Invariance == Spec => []IInv
BY InitIInv, StepIInv, PTL DEF Spec

(* Type correctness of the server (server.go, handler.go, stream.go and    *)
(* token_bucket.go).                                                       *)
THEOREM TypeCorrect == Spec => []TypeOK
BY Invariance, TypesAreTypes, PTL

(* However Serve and the shutdowns interleave, behind the sweep there is   *)
(* no open connection that it has not interrupted or closed, and none      *)
(* comes (Serve, GracefulStop, Stop).                                      *)
THEOREM ShutdownIsComplete == Spec => []NothingEscapesSweep
<1>1. IInv => NothingEscapesSweep
  BY DEF IInv, Ordered, NothingEscapesSweep
<1> QED
  BY Invariance, <1>1, PTL

(* Unless a Stop has swept, a connection goroutine ends with nothing left  *)
(* in its buffer, no stream running, and no answer lost to a connection    *)
(* that the server closed (GracefulStop, Handle).                          *)
THEOREM GracefulIsLossless == Spec => []GracefulLosesNothing
<1>1. IInv => GracefulLosesNothing
  BY DEF IInv, Tracked, Intact, GracefulLosesNothing
<1> QED
  BY Invariance, <1>1, PTL
=============================================================================
