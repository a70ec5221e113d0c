--------------------------- MODULE CircuitBreaker ---------------------------
(****************************************************************************)
(* CircuitBreaker.execute as operators on a breaker: who is admitted, and   *)
(* what a breaker becomes when a call enters, succeeds or fails.  rested    *)
(* says that recoveryTimeoutMs have passed since the last failure.  A call  *)
(* is admitted on entering and counted on its end: any number may be on     *)
(* their way, in HALF_OPEN too.                                             *)
(****************************************************************************)
EXTENDS Naturals

CONSTANT FailureThreshold

ASSUME ThresholdOK == FailureThreshold \in Nat \ {0}

CircuitState == {"CLOSED", "OPEN", "HALF_OPEN"}

(* Failures past the threshold are not told apart. *)
Breaker == [state : CircuitState, failures : 0..FailureThreshold, rested : BOOLEAN]

NewBreaker == [state |-> "CLOSED", failures |-> 0, rested |-> TRUE]

Admits(b) == b.state # "OPEN" \/ b.rested

Entered(b) == [b EXCEPT !.state = IF @ = "OPEN" THEN "HALF_OPEN" ELSE @]

(* Mutant: a success closes the breaker and keeps the count. *)
SucceededUncleared(b) == [b EXCEPT !.state = "CLOSED"]

Succeeded(b) == [b EXCEPT !.failures = 0, !.state = "CLOSED"]

Failed(b) ==
  LET count == IF b.failures < FailureThreshold THEN b.failures + 1 ELSE FailureThreshold
  IN  [state    |-> IF count >= FailureThreshold THEN "OPEN" ELSE b.state,
       failures |-> count,
       rested   |-> FALSE]
=============================================================================
