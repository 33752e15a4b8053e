--------------------------- MODULE RpcInvokeProofs ---------------------------
(***************************************************************************)
(* Safety of the calls and of the breaker, for any number of calls and any *)
(* window and threshold.                                                   *)
(***************************************************************************)
EXTENDS RpcInvoke, TLAPS

(* The breaker alone. That a half-open breaker always has its probe flag   *)
(* set is what makes the admission from Open the only one of the period.   *)
BInv ==
    /\ BreakerTypeOK
    /\ failureCount + successCount < WindowSize
    /\ state # "Closed" => failureCount = 0 /\ successCount = 0
    /\ state = "HalfOpen" => halfOpenProbe = TRUE
    /\ state # "HalfOpen" => halfOpenProbe = FALSE

(* Where the caller, the future and the callback of a call can be together,*)
(* and how often the breaker has heard of it by then.                      *)
Consistent(c) ==
    \/ /\ pc[c] \in {"idle", "admitted"}
       /\ fut[c] = "none" /\ hook[c] = "none" /\ recorded[c] = 0
    \/ /\ pc[c] = "streaming"
       /\ fut[c] = "none" /\ hook[c] = "none" /\ recorded[c] \in {0, 1}
    \/ /\ pc[c] = "sent"
       /\ fut[c] \in {"open", "close", "done"} /\ hook[c] = "none" /\ recorded[c] = 0
    \/ /\ pc[c] = "lateHook"
       /\ fut[c] \in {"close", "done"} /\ hook[c] = "none" /\ recorded[c] = 0
    \/ /\ pc[c] = "waiting"
       /\ fut[c] = "open" /\ hook[c] \in {"breaker", "user"} /\ recorded[c] = 0
    \/ /\ pc[c] \in {"waiting", "returned"}
       /\ fut[c] = "callback" /\ hook[c] \in {"breaker", "user"} /\ recorded[c] = 0
    \/ /\ pc[c] \in {"waiting", "returned"}
       /\ fut[c] \in {"close", "done"} /\ hook[c] \in {"none", "breaker"} /\ recorded[c] = 1
    \/ /\ pc[c] \in {"waiting", "returned"}
       /\ fut[c] \in {"close", "done"} /\ hook[c] = "user" /\ recorded[c] = 0

CallTypes ==
    /\ pc \in [Calls -> PCs]
    /\ kind \in [Calls -> Kinds \cup {"none"}]
    /\ fut \in [Calls -> FutureStates]
    /\ err \in [Calls -> BOOLEAN]
    /\ hook \in [Calls -> Hooks]
    /\ recorded \in [Calls -> 0 .. 2]
    /\ probes \subseteq Calls

AllConsistent == \A c \in Calls : Consistent(c)

AtMostOneProbe == state = "HalfOpen" => \A c, d \in probes : c = d

IInv == BInv /\ CallTypes /\ AllConsistent /\ AtMostOneProbe

-----------------------------------------------------------------------------
LEMMA EmptyWindow == 0 \in 0 .. WindowSize /\ 0 + 0 < WindowSize
BY BreakerAssumption

(* What a report to the breaker does: it keeps its invariant and never     *)
(* makes it half-open.                                                     *)
LEMMA RecordKeeps ==
    ASSUME BInv, RecordSuccess \/ RecordFailure
    PROVE  BInv' /\ (state' = "HalfOpen" => state = "HalfOpen")
<1> USE BreakerAssumption
<1> USE DEF BInv, BreakerTypeOK, toOpen, toClosed, moveTo, resetCounts, cbVars
<1>1. CASE state = "Closed"
  <2>1. PICK f, s \in Nat : resetClosedWindowIfReady(f, s) /\ f + s <= WindowSize
    <3>1. CASE RecordSuccess
      BY <1>1, <3>1 DEF RecordSuccess
    <3>2. CASE RecordFailure
      BY <1>1, <3>2 DEF RecordFailure
    <3> QED
      BY <3>1, <3>2
  <2>2. CASE f + s < WindowSize
    BY <1>1, <2>1, <2>2 DEF resetClosedWindowIfReady
  <2>3. CASE ~(f + s < WindowSize) /\ TooManyFailures(f, s)
    <3>1. toOpen
      BY <2>1, <2>3 DEF resetClosedWindowIfReady
    <3> QED
      BY <3>1, EmptyWindow
  <2>4. CASE ~(f + s < WindowSize) /\ ~TooManyFailures(f, s)
    BY <1>1, <2>1, <2>4 DEF resetClosedWindowIfReady
  <2> QED
    BY <2>2, <2>3, <2>4
<1>2. CASE state = "HalfOpen"
  BY <1>2 DEF RecordSuccess, RecordFailure
<1>3. CASE state = "Open"
  BY <1>3 DEF RecordSuccess, RecordFailure
<1> QED
  BY <1>1, <1>2, <1>3

LEMMA AllowKeeps == BInv /\ Allow => BInv'
BY DEF BInv, BreakerTypeOK, Allow, Refuses

LEMMA CoolKeeps == BInv /\ TimePasses => BInv' /\ state' = state
BY DEF BInv, BreakerTypeOK, TimePasses

LEMMA IdleKeeps == BInv /\ UNCHANGED cbVars => BInv' /\ state' = state
BY DEF BInv, BreakerTypeOK, cbVars

-----------------------------------------------------------------------------
LEMMA InitIInv == Init => IInv
<1> SUFFICES ASSUME Init PROVE IInv
  OBVIOUS
<1>1. BInv
  BY EmptyWindow DEF Init, NewCircuitBreaker, BInv, BreakerTypeOK
<1>2. CallTypes
  BY DEF Init, CallTypes, PCs, Hooks, FutureStates
<1>3. AllConsistent
  BY DEF Init, AllConsistent, Consistent
<1>4. AtMostOneProbe
  BY DEF Init, AtMostOneProbe
<1> QED
  BY <1>1, <1>2, <1>3, <1>4 DEF IInv

(* The part of the induction that is about the call that takes the step:   *)
(* the others stay where they are.                                         *)
LEMMA CallKeeps ==
    ASSUME NEW c \in Calls, CallTypes, AllConsistent, Call(c)
    PROVE  CallTypes' /\ AllConsistent'
<1> USE DEF CallTypes, AllConsistent, Consistent, PCs, Hooks, FutureStates, Goto
<1>1. ASSUME NEW k \in Kinds, Admit(c, k) PROVE CallTypes' /\ AllConsistent'
  BY <1>1 DEF Admit
<1>2. CASE FailToSend(c)
  BY <1>2 DEF FailToSend, Leave
<1>3. CASE FailToMarshal(c)
  BY <1>3 DEF FailToMarshal, Leave
<1>4. CASE Send(c)
  BY <1>4 DEF Send
<1>5. CASE Callback(c)
  <2>1. CASE hook[c] = "breaker"
    BY <1>5, <2>1 DEF Callback, RecordFor
  <2>2. CASE hook[c] # "breaker"
    BY <1>5, <2>2 DEF Callback
  <2> QED
    BY <2>1, <2>2
<1>6. CASE CloseDone(c)
  BY <1>6 DEF CloseDone
<1>7. ASSUME NEW e \in BOOLEAN, Answer(c, e) PROVE CallTypes' /\ AllConsistent'
  BY <1>7 DEF Answer, Done, Complete
<1>8. CASE OnComplete(c)
  <2>1. CASE fut[c] = "open"
    <3>1. /\ hook' = [hook EXCEPT ![c] = "breaker"] /\ pc' = [pc EXCEPT ![c] = "waiting"]
          /\ UNCHANGED <<kind, fut, err, recorded, probes>>
      BY <1>8, <2>1 DEF OnComplete
    <3>2. CallTypes'
      BY <3>1
    <3>3. hook'[c] = "breaker" /\ pc'[c] = "waiting" /\ pc[c] = "sent"
      BY <1>8, <3>1 DEF OnComplete
    <3>4. Consistent(c) /\ Consistent(c)'
      BY <2>1, <3>1, <3>3
    <3>5. \A d \in Calls : d # c => Consistent(d)'
      BY <3>1
    <3> QED
      BY <3>2, <3>4, <3>5
  <2>2. CASE fut[c] # "open"
    <3>1. pc' = [pc EXCEPT ![c] = "lateHook"] /\ UNCHANGED <<kind, fut, err, hook, recorded, probes>>
      BY <1>8, <2>2 DEF OnComplete
    <3>2. pc[c] = "sent"
      BY <1>8 DEF OnComplete
    <3> QED
      BY <2>2, <3>1, <3>2
  <2> QED
    BY <2>1, <2>2
<1>9. CASE LateCallback(c)
  BY <1>9 DEF LateCallback, RecordFor
<1>10. CASE Return(c)
  BY <1>10 DEF Return
<1>11. CASE Expire(c)
  <2>1. CASE fut[c] = "open"
    <3>1. hook[c] # "none"
      BY <1>11, <2>1 DEF Expire
    <3>2. fut' = [fut EXCEPT ![c] = "callback"] /\ err' = [err EXCEPT ![c] = TRUE]
      BY <1>11, <2>1, <3>1 DEF Expire, Done, Complete
    <3> QED
      BY <1>11, <2>1, <3>1, <3>2 DEF Expire
  <2>2. CASE fut[c] # "open"
    BY <1>11, <2>2 DEF Expire, Done
  <2> QED
    BY <2>1, <2>2
<1>12. CASE Forget(c)
  BY <1>12 DEF Forget, Leave
<1>13. ASSUME NEW e \in BOOLEAN, RecvTerminal(c, e) PROVE CallTypes' /\ AllConsistent'
  BY <1>13 DEF RecvTerminal, RecordFor
<1>14. CASE DropStream(c)
  BY <1>14 DEF DropStream, Leave
<1>15. CASE UserOnComplete(c)
  BY <1>15 DEF UserOnComplete
<1> QED
  BY <1>1, <1>2, <1>3, <1>4, <1>5, <1>6, <1>7, <1>8, <1>9, <1>10, <1>11, <1>12,
     <1>13, <1>14, <1>15 DEF Call

(* The part that is about the breaker and its probe.                       *)
LEMMA BreakerKeeps ==
    ASSUME NEW c \in Calls, BInv, AtMostOneProbe, Call(c)
    PROVE  BInv' /\ AtMostOneProbe'
<1>1. ASSUME NEW k \in Kinds, Admit(c, k) PROVE BInv' /\ AtMostOneProbe'
  <2>1. BInv'
    BY <1>1, AllowKeeps DEF Admit
  <2>2. CASE state = "Closed"
    BY <1>1, <2>1, <2>2 DEF Admit, Allow, AtMostOneProbe
  <2>3. CASE state = "Open"
    BY <1>1, <2>1, <2>3 DEF Admit, AtMostOneProbe
  <2>4. state # "HalfOpen"
    BY <1>1 DEF Admit, Allow, Refuses, BInv
  <2> QED
    BY <2>1, <2>2, <2>3, <2>4 DEF BInv, BreakerTypeOK
<1>2. ASSUME RecordSuccess \/ RecordFailure, probes' \subseteq probes
      PROVE  BInv' /\ AtMostOneProbe'
  BY <1>2, RecordKeeps DEF AtMostOneProbe
<1>3. ASSUME UNCHANGED cbVars, probes' \subseteq probes
      PROVE  BInv' /\ AtMostOneProbe'
  BY <1>3, IdleKeeps DEF AtMostOneProbe
<1>4. CASE FailToSend(c)
  BY <1>2, <1>4 DEF FailToSend, Leave
<1>5. CASE FailToMarshal(c) \/ Forget(c) \/ DropStream(c)
  BY <1>3, <1>5 DEF FailToMarshal, Forget, DropStream, Leave
<1>6. CASE Send(c) \/ CloseDone(c) \/ OnComplete(c) \/ Return(c) \/ Expire(c)
         \/ UserOnComplete(c)
  BY <1>3, <1>6 DEF Send, CloseDone, OnComplete, Return, Expire, UserOnComplete
<1>7. CASE Callback(c) \/ LateCallback(c)
  BY <1>2, <1>3, <1>7 DEF Callback, LateCallback, RecordFor, Record
<1>8. ASSUME NEW e \in BOOLEAN, Answer(c, e) PROVE BInv' /\ AtMostOneProbe'
  BY <1>3, <1>8 DEF Answer
<1>9. ASSUME NEW e \in BOOLEAN, RecvTerminal(c, e) PROVE BInv' /\ AtMostOneProbe'
  BY <1>2, <1>9 DEF RecvTerminal, RecordFor, Record
<1> QED
  BY <1>1, <1>4, <1>5, <1>6, <1>7, <1>8, <1>9 DEF Call

LEMMA StepIInv == IInv /\ [Next]_vars => IInv'
<1> SUFFICES ASSUME IInv, [Next]_vars PROVE IInv'
  OBVIOUS
<1>1. CASE Cool
  <2>1. BInv' /\ state' = state
    BY <1>1, CoolKeeps DEF Cool, IInv
  <2> QED
    BY <1>1, <2>1
       DEF Cool, IInv, CallTypes, AllConsistent, Consistent, AtMostOneProbe
<1>2. ASSUME NEW c \in Calls, Call(c) PROVE IInv'
  BY <1>2, CallKeeps, BreakerKeeps DEF IInv
<1>3. CASE UNCHANGED vars
  BY <1>3
     DEF vars, cbVars, IInv, BInv, BreakerTypeOK, CallTypes, AllConsistent, Consistent,
         AtMostOneProbe
<1> QED
  BY <1>1, <1>2, <1>3 DEF Next

THEOREM Invariance == Spec => []IInv
BY InitIInv, StepIInv, PTL DEF Spec

(* Type correctness of breaker and calls: the window is never full between *)
(* two outcomes, whatever the order they come in (breaker.go).             *)
THEOREM TypeCorrect == Spec => []TypeOK
<1>1. IInv => TypeOK
  BY DEF IInv, BInv, CallTypes, TypeOK
<1> QED
  BY Invariance, <1>1, PTL

(* A call is counted once, however its answer, its timeout and the         *)
(* registration of its callback interleave (Future.Done, OnComplete), and  *)
(* goes uncounted only when a user's callback took the breaker's place.    *)
THEOREM OutcomeCountedOnce == Spec => []CountedOnce
<1>1. IInv => CountedOnce
  BY DEF IInv, AllConsistent, Consistent, CallTypes, PCs, Hooks, FutureStates, CountedOnce
<1> QED
  BY Invariance, <1>1, PTL

(* One call is let through per half-open period, and the window starts     *)
(* empty when the breaker closes (Allow, toOpen, toClosed).                *)
THEOREM SingleProbe == Spec => []OneProbe
<1>1. IInv => OneProbe
  BY DEF IInv, BInv, AtMostOneProbe, OneProbe
<1> QED
  BY Invariance, <1>1, PTL
=============================================================================
