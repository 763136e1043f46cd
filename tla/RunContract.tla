------------------------------ MODULE RunContract ------------------------------
(******************************************************************************)
(* What the collection subsystem promises about a run, with no workers,       *)
(* leases, tokens or messages: it is executed at most MaxTries times, its     *)
(* results are published at most once and only by the step that ends it, and  *)
(* an ended run never changes.                                                *)
(******************************************************************************)
EXTENDS Naturals

CONSTANTS Run, MaxTries

VARIABLES phase,      \* new, waiting, executing, done or failed
          tries,      \* executions started
          published   \* result sets visible to readers

contractVars == <<phase, tries, published>>

Init ==
  /\ phase = [r \in Run |-> "new"]
  /\ tries = [r \in Run |-> 0]
  /\ published = [r \in Run |-> 0]

Submit(r) ==
  /\ phase[r] = "new"
  /\ phase' = [phase EXCEPT ![r] = "waiting"]
  /\ UNCHANGED <<tries, published>>

Start(r) ==
  /\ phase[r] = "waiting"
  /\ tries[r] < MaxTries
  /\ phase' = [phase EXCEPT ![r] = "executing"]
  /\ tries' = [tries EXCEPT ![r] = @ + 1]
  /\ UNCHANGED published

\* An execution that was given up before the last try is put back.
Requeue(r) ==
  /\ phase[r] = "executing"
  /\ tries[r] < MaxTries
  /\ phase' = [phase EXCEPT ![r] = "waiting"]
  /\ UNCHANGED <<tries, published>>

Publish(r) ==
  /\ phase[r] = "executing"
  /\ phase' = [phase EXCEPT ![r] = "done"]
  /\ published' = [published EXCEPT ![r] = @ + 1]
  /\ UNCHANGED tries

Fail(r) ==
  /\ phase[r] \in {"waiting", "executing"}
  /\ phase' = [phase EXCEPT ![r] = "failed"]
  /\ UNCHANGED <<tries, published>>

Next ==
  \E r \in Run : Submit(r) \/ Start(r) \/ Requeue(r) \/ Publish(r) \/ Fail(r)

Spec == Init /\ [][Next]_contractVars

================================================================================
