---------------------------- MODULE CircuitBreaker ----------------------------
(***************************************************************************)
(* The circuit breaker that guards calls to the CRM, the auth service and  *)
(* ClickHouse (modules/processing/resilience/circuit-breaker.ts), as       *)
(* operators over a circuit: its state and its consecutive failures, which *)
(* are counted up to the threshold.  The failure rate is left out: it      *)
(* speaks only from the tenth request of a minute on.                      *)
(***************************************************************************)
EXTENDS Naturals

CONSTANT FailureThreshold       \* failureThreshold

ASSUME ThresholdAssumption == FailureThreshold \in Nat \ {0}

Circuits == [state : {"CLOSED", "OPEN", "HALF_OPEN"}, failures : 0 .. FailureThreshold]

ClosedCircuit == [state |-> "CLOSED", failures |-> 0]

(* onSuccess: only a half-open circuit closes.                               *)
Succeeded(circuit) ==
    [state |-> IF circuit.state = "HALF_OPEN" THEN "CLOSED" ELSE circuit.state,
     failures |-> 0]

(* onFailure and shouldOpenCircuit.                                          *)
Failed(circuit) ==
    LET failures == IF circuit.failures < FailureThreshold THEN circuit.failures + 1
                                                           ELSE FailureThreshold
    IN  [state |-> IF failures = FailureThreshold THEN "OPEN" ELSE circuit.state,
         failures |-> failures]
===============================================================================
