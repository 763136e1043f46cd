------------------------------ MODULE SourceState ------------------------------
(******************************************************************************)
(* The row of source_acquisition_states that every finished run updates:      *)
(* counters, the consecutive-failure streak, the circuit breaker and the      *)
(* health derived from them (services/acquisition.py, _update_source_state).  *)
(* Latency and quality averages are left out; the checkpoint and the version  *)
(* belong to the crawl.  Time is abstract: a circuit window is closed (NULL), *)
(* open (in the future) or elapsed (in the past).                             *)
(******************************************************************************)
EXTENDS Integers

CONSTANT FailureThreshold   \* CIRCUIT_FAILURE_THRESHOLD, 5 in the code

ASSUME ThresholdAssumption == FailureThreshold \in Nat /\ FailureThreshold >= 1

Circuits == {"closed", "open", "elapsed"}

Healths == {"healthy", "degraded", "unhealthy", "circuit_open"}

SourceStates ==
  [succeeded : Nat, failed : Nat, consecutive : Nat,
   circuit : Circuits, health : Healths]

\* A source that no run has touched: the row is absent, which every reader
\* treats as these values.
FreshState ==
  [succeeded |-> 0, failed |-> 0, consecutive |-> 0,
   circuit |-> "closed", health |-> "healthy"]

\* Health after a failure that leaves a streak of n.
HealthAfter(n) ==
  IF n >= FailureThreshold THEN "circuit_open"
  ELSE IF n >= FailureThreshold - 1 THEN "unhealthy"
  ELSE "degraded"

\* Mutant: a success leaves the circuit as it is.
AfterSuccessInWindow(st) ==
  [succeeded |-> st.succeeded + 1, failed |-> st.failed, consecutive |-> 0,
   circuit |-> st.circuit, health |-> "healthy"]

AfterSuccess(st) ==
  [succeeded |-> st.succeeded + 1, failed |-> st.failed, consecutive |-> 0,
   circuit |-> "closed", health |-> "healthy"]

\* counted: the error code advances the streak (it is not a policy refusal).
\* The window is (re)opened by any failure at or above the threshold.
AfterFailure(st, counted) ==
  LET n == st.consecutive + (IF counted THEN 1 ELSE 0)
  IN  [succeeded |-> st.succeeded, failed |-> st.failed + 1, consecutive |-> n,
       circuit |-> IF n >= FailureThreshold THEN "open" ELSE st.circuit,
       health |-> HealthAfter(n)]

================================================================================
