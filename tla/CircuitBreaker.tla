--------------------------- MODULE CircuitBreaker ---------------------------
(***************************************************************************)
(* The circuit breaker of swifty_rpc/internal/breaker/breaker.go. Every    *)
(* method runs under the breaker's mutex and is one step.                  *)
(*                                                                         *)
(* Time enters only through the comparison of time.Since(lastStateChange)  *)
(* with openTimeout, which only Allow makes and only in Open: `cooled' is  *)
(* its outcome.                                                            *)
(***************************************************************************)
EXTENDS Integers

CONSTANTS
    WindowSize,  \* outcomes in a window
    Num, Den     \* failureThreshold is Num / Den

ASSUME BreakerAssumption ==
    WindowSize \in Nat \ {0} /\ Num \in Nat /\ Den \in Nat \ {0}

VARIABLES
    state,          \* CircuitBreaker.state
    failureCount,
    successCount,
    halfOpenProbe,
    cooled          \* openTimeout has passed since lastStateChange

cbVars == <<state, failureCount, successCount, halfOpenProbe, cooled>>

NewCircuitBreaker ==
    /\ state = "Closed"
    /\ failureCount = 0
    /\ successCount = 0
    /\ halfOpenProbe = FALSE
    /\ cooled = FALSE

resetCounts == failureCount' = 0 /\ successCount' = 0

moveTo(s) ==
    /\ state' = s
    /\ cooled' = FALSE
    /\ resetCounts
    /\ halfOpenProbe' = FALSE

toOpen == moveTo("Open")
toClosed == moveTo("Closed")

(* Allow returns false.                                                    *)
Refuses ==
    \/ state = "Open" /\ ~cooled
    \/ state = "HalfOpen" /\ halfOpenProbe

(* Mutant: the call that ends Open is not taken for the probe.             *)
AllowUnmarked ==
    /\ ~Refuses
    /\ state' = (IF state = "Open" THEN "HalfOpen" ELSE state)
    /\ halfOpenProbe' = (halfOpenProbe \/ state = "HalfOpen")
    /\ UNCHANGED <<failureCount, successCount, cooled>>

(* Allow returns true.                                                     *)
Allow ==
    /\ ~Refuses
    /\ state' = (IF state = "Open" THEN "HalfOpen" ELSE state)
    /\ halfOpenProbe' = (halfOpenProbe \/ state # "Closed")
    /\ UNCHANGED <<failureCount, successCount, cooled>>

TooManyFailures(f, s) == f * Den >= Num * (f + s)

(* The window after one more outcome, with f failures and s successes.     *)
resetClosedWindowIfReady(f, s) ==
    IF f + s < WindowSize
    THEN /\ failureCount' = f
         /\ successCount' = s
         /\ UNCHANGED <<state, halfOpenProbe, cooled>>
    ELSE IF TooManyFailures(f, s)
         THEN toOpen
         ELSE resetCounts /\ UNCHANGED <<state, halfOpenProbe, cooled>>

RecordSuccess ==
    CASE state = "Closed"   -> resetClosedWindowIfReady(failureCount, successCount + 1)
      [] state = "HalfOpen" -> toClosed
      [] state = "Open"     -> UNCHANGED cbVars

RecordFailure ==
    CASE state = "Closed"   -> resetClosedWindowIfReady(failureCount + 1, successCount)
      [] state = "HalfOpen" -> toOpen
      [] state = "Open"     -> UNCHANGED cbVars

TimePasses ==
    /\ state = "Open"
    /\ cooled' = TRUE
    /\ UNCHANGED <<state, failureCount, successCount, halfOpenProbe>>

BreakerTypeOK ==
    /\ state \in {"Closed", "Open", "HalfOpen"}
    /\ failureCount \in 0 .. WindowSize
    /\ successCount \in 0 .. WindowSize
    /\ halfOpenProbe \in BOOLEAN
    /\ cooled \in BOOLEAN
=============================================================================
