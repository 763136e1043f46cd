--------------------------- MODULE MCCollectionRuns ---------------------------
(* Instances of CollectionRuns for TLC: all runs belong to one source.        *)
EXTENDS CollectionRuns, TLC

CONSTANT TheSource

MCSourceOf == [r \in Run |-> TheSource]

\* Runs and workers are interchangeable (one source); not used with liveness.
Interchangeable == Permutations(Run) \cup Permutations(Worker)

\* Where the safety run looks: at one run in all its claims, with every worker
\* after it, and at all runs together, two at a time, each claimed once and with
\* its lease renewed.
OneRun == Cardinality({r \in Run : status[r] # "absent"}) <= 1

OneClaimEach ==
  /\ \A r \in Run : claim_count[r] <= 1
  /\ expired = {}
  /\ Cardinality({w \in Worker : workers[w].pc # "idle"}) <= 2
  /\ \A w \in Worker : workers[w].chain = 1

BoundedSpec == Init /\ [][Next /\ (OneRun \/ OneClaimEach)']_vars

================================================================================
