---------------------------- MODULE CollectionRuns ----------------------------
(******************************************************************************)
(* Collection runs from the queue to their end: the dispatcher (Celery beat), *)
(* the workers that claim a run, walk its route of fetch stages and report    *)
(* the outcome, the lease that lets a run be taken away from a worker that    *)
(* went silent, and the source row every outcome updates.                     *)
(*                                                                            *)
(* An action is one database transaction, or one step between two of them.    *)
(* Time is abstract: a lease and a circuit window may run out at any moment.  *)
(* Runs of sources without a discovery crawl: there an accepted page goes     *)
(* straight to the success transaction.                                       *)
(*                                                                            *)
(* A definition marked "Mutant" is the one that follows it with a bug in it;  *)
(* no specification uses it.                                                  *)
(******************************************************************************)
EXTENDS SourceState, FiniteSets, FiniteSetsExt

CONSTANTS
  Run,         \* run ids; a run that is not created yet is "absent"
  Source,
  Worker,      \* worker processes, one Celery task at a time each
  SourceOf,    \* the source a run belongs to
  MaxClaims,   \* MAX_CLAIMS, 3 in the code
  MaxStage,    \* longest route, 2 in the code (native, then static retry)
  NoRun

ASSUME RunsAssumption ==
  /\ SourceOf \in [Run -> Source]
  /\ MaxClaims \in Nat /\ MaxClaims >= 1
  /\ MaxStage \in Nat /\ MaxStage >= 1
  /\ NoRun \notin Run

VARIABLES
  status,        \* collection_runs.status
  claim_count,   \* collection_runs.claim_count
  claim_token,   \* collection_runs.claim_token, 0 for NULL
  expired,       \* the running runs whose lease_expires_at has passed
  attempts,      \* the ordinals of the run's acquisition_attempts rows
  results,       \* how often the run's evidence and raw items were committed
  queue,         \* the runs with a message in the broker
  source,        \* sources.status; "deleted" stands for deleted_at IS NOT NULL
  state,         \* source_acquisition_states
  workers        \* what each worker process is doing

runVars == <<status, claim_count, claim_token, expired, attempts, results>>
vars == <<runVars, queue, source, state, workers>>

--------------------------------------------------------------------------------
Terminal == {"succeeded", "partial", "failed"}
Statuses == {"absent", "queued", "running"} \cup Terminal

\* What a failure changes besides the run's status:
\*   skipped  refused before a backend was selected: nothing
\*   unsent   budget refusal before a stage: the source state, streak untouched
\*   neutral  policy refusal: an attempt row and the source state, streak untouched
\*   counted  anything else: an attempt row and the source state with the streak
Codes == {"none", "skipped", "unsent", "neutral", "counted"}

Pcs == {"idle", "gate", "probe", "stage", "miss", "accept", "fail"}

Idle == [pc |-> "idle", run |-> NoRun, token |-> 0, stage |-> 1,
         chain |-> 1, code |-> "none", gate |-> "none"]

\* A worker that has just claimed the run.
Claimed(r, token) == [pc |-> "gate", run |-> r, token |-> token, stage |-> 1,
                      chain |-> 1, code |-> "none", gate |-> "none"]

WorkerStates ==
  [pc : Pcs, run : Run \cup {NoRun}, token : Nat, stage : 1..MaxStage,
   chain : 1..MaxStage, code : Codes, gate : {"none", "closed", "probe"}]

TypeOK ==
  /\ status \in [Run -> Statuses]
  /\ claim_count \in [Run -> Nat]
  /\ claim_token \in [Run -> Nat]
  /\ expired \in SUBSET Run
  /\ attempts \in [Run -> SUBSET (Nat \ {0})]
  /\ results \in [Run -> Nat]
  /\ queue \in SUBSET Run
  /\ source \in [Source -> {"active", "paused", "deleted"}]
  /\ state \in [Source -> SourceStates]
  /\ workers \in [Worker -> WorkerStates]

Init ==
  /\ status = [r \in Run |-> "absent"]
  /\ claim_count = [r \in Run |-> 0]
  /\ claim_token = [r \in Run |-> 0]
  /\ expired = {}
  /\ attempts = [r \in Run |-> {}]
  /\ results = [r \in Run |-> 0]
  /\ queue = {}
  /\ source = [s \in Source |-> "active"]
  /\ state = [s \in Source |-> FreshState]
  /\ workers = [w \in Worker |-> Idle]

\* Mutants: the claim filter without the token, and without the status.
HoldsByStatus(w) == workers[w].pc # "idle" /\ status[workers[w].run] = "running"

HoldsByToken(w) ==
  workers[w].pc # "idle" /\ claim_token[workers[w].run] = workers[w].token

\* The row filter of every write a worker makes: the run is RUNNING under the
\* token the worker was given.
Holds(w) ==
  /\ workers[w].pc # "idle"
  /\ status[workers[w].run] = "running"
  /\ claim_token[workers[w].run] = workers[w].token

\* Mutants: stages numbered from 0; the request added to the maximum.
OrdinalFromZero(r, requested) == requested - 1

OrdinalAdded(r, requested) ==
  IF requested \notin attempts[r] THEN requested ELSE Max(attempts[r]) + requested

\* The ordinal a new attempt row gets: the requested one while it is free.
NextOrdinal(r, requested) ==
  IF requested \notin attempts[r] THEN requested ELSE Max(attempts[r]) + 1

Step(w, next) == workers' = [workers EXCEPT ![w] = next]

FailStep(w, code) == Step(w, [workers[w] EXCEPT !.pc = "fail", !.code = code])

--------------------------------------------------------------------------------
(* Creation, dispatch and recovery.                                           *)

\* A queued row is committed: by a user's collect or retry request or by the
\* scheduler; all three insist on an active source.
Create(r) ==
  /\ status[r] = "absent"
  /\ source[SourceOf[r]] = "active"
  /\ status' = [status EXCEPT ![r] = "queued"]
  /\ UNCHANGED <<claim_count, claim_token, expired, attempts, results,
                 queue, source, state, workers>>

\* The dispatcher sends one more message for a run it finds queued.
Dispatch(r) ==
  /\ status[r] = "queued"
  /\ queue' = queue \cup {r}
  /\ UNCHANGED <<runVars, source, state, workers>>

\* The broker or a worker that acknowledged early loses the message.
LoseMessage(r) ==
  /\ r \in queue
  /\ queue' = queue \ {r}
  /\ UNCHANGED <<runVars, source, state, workers>>

LeaseExpires(r) ==
  /\ status[r] = "running"
  /\ r \notin expired
  /\ expired' = expired \cup {r}
  /\ UNCHANGED <<status, claim_count, claim_token, attempts, results,
                 queue, source, state, workers>>

\* Mutant: one claim too many.
RecoverOnceMore(r) ==
  /\ status[r] = "running"
  /\ r \in expired
  /\ status' = [status EXCEPT ![r] =
                  IF claim_count[r] > MaxClaims THEN "failed" ELSE "queued"]
  /\ expired' = expired \ {r}
  /\ UNCHANGED <<claim_count, claim_token, attempts, results,
                 queue, source, state, workers>>

\* The dispatcher takes back a run whose lease has passed.
Recover(r) ==
  /\ status[r] = "running"
  /\ r \in expired
  /\ status' = [status EXCEPT ![r] =
                  IF claim_count[r] >= MaxClaims THEN "failed" ELSE "queued"]
  /\ expired' = expired \ {r}
  /\ UNCHANGED <<claim_count, claim_token, attempts, results,
                 queue, source, state, workers>>

--------------------------------------------------------------------------------
(* A worker takes a message.  Other copies of it may stay in the broker.      *)

Delivered(w, r) ==
  /\ workers[w].pc = "idle"
  /\ r \in queue
  /\ queue' \in {queue, queue \ {r}}

\* Mutant: the status of the run is not looked at.
ClaimableInAnyStatus(r) ==
  /\ claim_count[r] < MaxClaims
  /\ source[SourceOf[r]] # "deleted"

Claimable(r) ==
  /\ status[r] = "queued"
  /\ claim_count[r] < MaxClaims
  /\ source[SourceOf[r]] # "deleted"

\* The token is a fresh uuid4: the successor of the last one given for this run.
Claim(w, r) ==
  /\ Delivered(w, r)
  /\ Claimable(r)
  /\ status' = [status EXCEPT ![r] = "running"]
  /\ claim_count' = [claim_count EXCEPT ![r] = @ + 1]
  /\ claim_token' = [claim_token EXCEPT ![r] = @ + 1]
  /\ expired' = expired \ {r}
  /\ Step(w, Claimed(r, claim_token[r] + 1))
  /\ UNCHANGED <<attempts, results, source, state>>

\* Mutant: the message is dropped and the run left queued.
ClaimRefusalDropped(w, r) ==
  /\ Delivered(w, r)
  /\ status[r] = "queued"
  /\ ~Claimable(r)
  /\ UNCHANGED <<runVars, source, state, workers>>

\* Queued, but its claims are used up or its source is gone: the run fails.
ClaimRefused(w, r) ==
  /\ Delivered(w, r)
  /\ status[r] = "queued"
  /\ ~Claimable(r)
  /\ status' = [status EXCEPT ![r] = "failed"]
  /\ UNCHANGED <<claim_count, claim_token, expired, attempts, results,
                 source, state, workers>>

\* A duplicate or late message: the run is not queued any more.
Discard(w, r) ==
  /\ Delivered(w, r)
  /\ status[r] # "queued"
  /\ UNCHANGED <<runVars, source, state, workers>>

--------------------------------------------------------------------------------
(* The route of a claimed run.                                                *)

SourceOfWorker(w) == SourceOf[workers[w].run]

\* The profile is read and the chain of stages chosen, then the circuit facts
\* are read; an open circuit refuses the run, an elapsed one needs the probe.
Gate(w) ==
  /\ workers[w].pc = "gate"
  /\ \/ FailStep(w, "skipped")                   \* profile or chain refused
     \/ /\ state[SourceOfWorker(w)].circuit = "open"
        /\ FailStep(w, "skipped")
     \/ \E n \in 1..MaxStage :
          \/ /\ state[SourceOfWorker(w)].circuit = "closed"
             /\ Step(w, [workers[w] EXCEPT !.pc = "stage", !.chain = n,
                                           !.gate = "closed"])
          \/ /\ state[SourceOfWorker(w)].circuit = "elapsed"
             /\ Step(w, [workers[w] EXCEPT !.pc = "probe", !.chain = n])
  /\ UNCHANGED <<runVars, queue, source, state>>

\* The conditional update that elects the half-open probe: it moves the window
\* 60 s into the future, and loses when another run has changed it since.
ClaimProbe(w) ==
  LET s == SourceOfWorker(w) IN
  /\ workers[w].pc = "probe"
  /\ \/ /\ state[s].circuit = "elapsed"
        /\ state' = [state EXCEPT ![s].circuit = "open"]
        /\ Step(w, [workers[w] EXCEPT !.pc = "stage", !.gate = "probe"])
     \/ /\ state[s].circuit # "elapsed"
        /\ FailStep(w, "skipped")
        /\ UNCHANGED state
  /\ UNCHANGED <<runVars, queue, source>>

\* One stage: budget check, transport, extraction and quality.
RunStage(w) ==
  LET last == workers[w].stage = workers[w].chain IN
  /\ workers[w].pc = "stage"
  /\ \/ /\ workers[w].stage > 1                  \* the ledger refuses the stage
        /\ FailStep(w, "unsent")
     \/ FailStep(w, "neutral")                   \* policy refusal, always final
     \/ /\ last
        /\ FailStep(w, "counted")                \* fetch error of the last stage
     \/ /\ ~last                                 \* fetch error or low quality
        /\ Step(w, [workers[w] EXCEPT !.pc = "miss"])
     \/ Step(w, [workers[w] EXCEPT !.pc = "accept"])
  /\ UNCHANGED <<runVars, queue, source, state>>

\* Mutant: the attempt row is written without the claim filter.
RecordMissUnguarded(w) ==
  LET r == workers[w].run
      n == workers[w].stage IN
  /\ workers[w].pc = "miss"
  /\ attempts' = [attempts EXCEPT ![r] = @ \cup {NextOrdinal(r, n)}]
  /\ Step(w, [workers[w] EXCEPT !.pc = "stage", !.stage = n + 1])
  /\ UNCHANGED <<status, claim_count, claim_token, expired, results,
                 queue, source, state>>

\* The missed stage gets its attempt row and the next stage is tried.
RecordMiss(w) ==
  LET r == workers[w].run
      n == workers[w].stage IN
  /\ workers[w].pc = "miss"
  /\ \/ /\ Holds(w)
        /\ attempts' = [attempts EXCEPT ![r] = @ \cup {NextOrdinal(r, n)}]
        /\ Step(w, [workers[w] EXCEPT !.pc = "stage", !.stage = n + 1])
     \/ /\ ~Holds(w)
        /\ FailStep(w, "counted")
        /\ UNCHANGED attempts
  /\ UNCHANGED <<status, claim_count, claim_token, expired, results,
                 queue, source, state>>

\* Any other exception on the way becomes internal_collection_error.
Unexpected(w) ==
  /\ workers[w].pc \in {"gate", "probe", "stage", "miss", "accept"}
  /\ FailStep(w, "counted")
  /\ UNCHANGED <<runVars, queue, source, state>>

--------------------------------------------------------------------------------
(* The outcome, in one transaction guarded by the claim.                      *)

FinishSuccess(w) ==
  LET r == workers[w].run
      n == workers[w].stage IN
  /\ workers[w].pc = "accept"
  /\ Holds(w)
  /\ \E outcome \in {"succeeded", "partial"} :
       status' = [status EXCEPT ![r] = outcome]
  /\ results' = [results EXCEPT ![r] = @ + 1]
  /\ attempts' = [attempts EXCEPT ![r] = @ \cup {NextOrdinal(r, n)}]
  /\ state' = [state EXCEPT ![SourceOf[r]] = AfterSuccess(@)]
  /\ expired' = expired \ {r}
  /\ Step(w, Idle)
  /\ UNCHANGED <<claim_count, claim_token, queue, source>>

RowNeeded(w) == workers[w].code \in {"neutral", "counted"}

\* The failed attempt is inserted under the stage number as it is: when an
\* earlier claim has used that ordinal the unique index aborts the transaction.
Collides(w) == RowNeeded(w) /\ workers[w].stage \in attempts[workers[w].run]

FinishFailure(w) ==
  LET r == workers[w].run IN
  /\ workers[w].pc = "fail"
  /\ Holds(w)
  /\ ~Collides(w)
  /\ status' = [status EXCEPT ![r] = "failed"]
  /\ attempts' = [attempts EXCEPT ![r] =
                    @ \cup (IF RowNeeded(w) THEN {workers[w].stage} ELSE {})]
  /\ state' = [state EXCEPT ![SourceOf[r]] =
                 IF workers[w].code = "skipped" THEN @
                 ELSE AfterFailure(@, workers[w].code = "counted")]
  /\ expired' = expired \ {r}
  /\ Step(w, Idle)
  /\ UNCHANGED <<claim_count, claim_token, results, queue, source>>

\* The transaction aborts: the task dies and the run is left RUNNING.
AbortFailure(w) ==
  /\ workers[w].pc = "fail"
  /\ Holds(w)
  /\ Collides(w)
  /\ Step(w, Idle)
  /\ UNCHANGED <<runVars, queue, source, state>>

\* Mutant: the source's failure is counted even though the run is lost.
GiveUpCounted(w) ==
  /\ workers[w].pc \in {"accept", "fail"}
  /\ ~Holds(w)
  /\ state' = [state EXCEPT ![SourceOf[workers[w].run]] = AfterFailure(@, TRUE)]
  /\ Step(w, Idle)
  /\ UNCHANGED <<runVars, queue, source>>

\* The run is no longer this worker's: it stops without writing.
GiveUp(w) ==
  /\ workers[w].pc \in {"accept", "fail"}
  /\ ~Holds(w)
  /\ Step(w, Idle)
  /\ UNCHANGED <<runVars, queue, source, state>>

\* The renewal filters on the claim, not on the lease: it revives a lease that
\* has passed as long as nobody has recovered the run.
Heartbeat(w) ==
  /\ Holds(w)
  /\ expired' = expired \ {workers[w].run}
  /\ UNCHANGED <<status, claim_count, claim_token, attempts, results,
                 queue, source, state, workers>>

\* The process is killed, or the failure report itself cannot be written.
Crash(w) ==
  /\ workers[w].pc # "idle"
  /\ Step(w, Idle)
  /\ UNCHANGED <<runVars, queue, source, state>>

--------------------------------------------------------------------------------
(* The rest of the system.                                                    *)

SetSourceStatus(s, target) ==
  /\ source[s] # "deleted"
  /\ source' = [source EXCEPT ![s] = target]
  /\ UNCHANGED <<runVars, queue, state, workers>>

WindowElapses(s) ==
  /\ state[s].circuit = "open"
  /\ state' = [state EXCEPT ![s].circuit = "elapsed"]
  /\ UNCHANGED <<runVars, queue, source, workers>>

TakeMessage(w, r) == Claim(w, r) \/ ClaimRefused(w, r) \/ Discard(w, r)

WorkerStep(w) ==
  \/ Gate(w) \/ ClaimProbe(w) \/ RunStage(w) \/ RecordMiss(w) \/ Unexpected(w)
  \/ FinishSuccess(w) \/ FinishFailure(w) \/ AbortFailure(w) \/ GiveUp(w)

Next ==
  \/ \E r \in Run :
       Create(r) \/ Dispatch(r) \/ LoseMessage(r) \/ LeaseExpires(r) \/ Recover(r)
  \/ \E w \in Worker, r \in Run : TakeMessage(w, r)
  \/ \E w \in Worker : WorkerStep(w) \/ Heartbeat(w) \/ Crash(w)
  \/ \E s \in Source :
       \/ WindowElapses(s)
       \/ \E target \in {"active", "paused", "deleted"} : SetSourceStatus(s, target)

Spec == Init /\ [][Next]_vars

\* Beat dispatches and recovers every minute; a worker that is neither killed
\* nor blocked goes on; a lease nobody renews runs out; a message that is sent
\* again and again is taken in the end.
Fairness ==
  /\ \A r \in Run :
       /\ WF_vars(Dispatch(r))
       /\ WF_vars(Recover(r))
       /\ WF_vars(LeaseExpires(r) /\ \A w \in Worker : ~(Holds(w) /\ workers[w].run = r))
       /\ SF_vars(\E w \in Worker : TakeMessage(w, r))
  /\ \A w \in Worker : WF_vars(WorkerStep(w))

FairSpec == Spec /\ Fairness

--------------------------------------------------------------------------------
(* Properties.                                                                *)

\* No two workers hold the same run: of all the workers that ever claimed it,
\* only the latest passes the claim filter of the writes.
SoleHolder ==
  \A v, w \in Worker :
    Holds(v) /\ Holds(w) /\ workers[v].run = workers[w].run => v = w

\* Evidence and raw items of a run are committed exactly when the run ends well
\* and never twice, whatever messages are duplicated and leases lost.
ResultsOnce ==
  \A r \in Run :
    results[r] = IF status[r] \in {"succeeded", "partial"} THEN 1 ELSE 0

\* A run waiting in the queue can still be claimed, and is claimed at most
\* MaxClaims times: recovery never puts back a run that every worker would refuse.
ClaimsBounded ==
  \A r \in Run :
    /\ claim_count[r] <= MaxClaims
    /\ status[r] = "queued" => claim_count[r] < MaxClaims

\* The counters of a source agree with its runs: every success is counted once,
\* and no more failures are counted than runs failed (refused and exhausted runs
\* are not counted at all), although several workers may report the same run.
CountersMatchRuns ==
  \A s \in Source :
    LET Ended(S) == Cardinality({r \in Run : SourceOf[r] = s /\ status[r] \in S})
    IN  /\ state[s].succeeded = Ended({"succeeded", "partial"})
        /\ state[s].failed <= Ended({"failed"})

\* Streak, circuit and health of a source never contradict each other: the
\* circuit is not closed exactly while the streak is at the threshold.
CircuitAgrees ==
  \A s \in Source :
    LET st == state[s] IN
    /\ (st.circuit # "closed") <=> (st.consecutive >= FailureThreshold)
    /\ (st.health = "circuit_open") <=> (st.circuit # "closed")
    /\ st.consecutive <= st.failed

\* The attempt rows of a run are numbered 1, 2, ..., k without a gap, over all
\* the claims that wrote them.
AttemptsDense ==
  \A r \in Run : attempts[r] = 1..Cardinality(attempts[r])

\* A run that has ended keeps its status, its attempts and its results for good.
EndedIsFinal ==
  [][\A r \in Run : status[r] \in Terminal =>
       /\ status'[r] = status[r]
       /\ attempts'[r] = attempts[r]
       /\ results'[r] = results[r]]_vars

\* Attempts, results and the source's counters are written by the worker that
\* holds the run, and by nobody whose claim was taken away.
OnlyHolderWrites ==
  [][\A r \in Run :
       (attempts'[r] # attempts[r] \/ results'[r] # results[r]) =>
         \E w \in Worker : /\ Holds(w)
                           /\ workers[w].run = r
                           /\ workers'[w] # workers[w]]_vars

\* Every queued run ends, even if workers die under every one of its claims and
\* messages are lost.
EveryQueuedRunEnds ==
  \A r \in Run : (status[r] = "queued") ~> (status[r] \in Terminal)

\* acquisition_attempts.py:39-43 says ordinals survive re-claims: the failure
\* reported by the holder would then never hit the unique index.
FailureReportFits ==
  \A w \in Worker : workers[w].pc = "fail" /\ Holds(w) => ~Collides(w)

\* "Exactly one probe may proceed" (acquisition_route.py:206-208): of the runs of
\* a source at most one is past the gate as its half-open probe.
OneProbeAtATime ==
  \A v, w \in Worker :
    /\ workers[v].gate = "probe" /\ workers[w].gate = "probe"
    /\ SourceOfWorker(v) = SourceOfWorker(w)
    => v = w

--------------------------------------------------------------------------------
(* The contract: RunContract with the run's status read as its phase.         *)

Phase(st) ==
  CASE st = "absent" -> "new"
    [] st = "queued" -> "waiting"
    [] st = "running" -> "executing"
    [] st \in {"succeeded", "partial"} -> "done"
    [] st = "failed" -> "failed"

Contract == INSTANCE RunContract
  WITH MaxTries <- MaxClaims,
       phase <- [r \in Run |-> Phase(status[r])],
       tries <- claim_count,
       published <- results

ContractSafety == Contract!Spec

================================================================================
