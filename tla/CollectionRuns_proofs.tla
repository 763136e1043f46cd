------------------------- MODULE CollectionRuns_proofs -------------------------
(******************************************************************************)
(* What TLAPS checks about CollectionRuns, for any number of runs, workers    *)
(* and sources, any MaxClaims, MaxStage and FailureThreshold.                 *)
(******************************************************************************)
EXTENDS CollectionRuns, FiniteSetTheorems, TLAPS

\* What holds of a run's row whoever writes it.
RowOK(r) ==
  /\ claim_count[r] <= MaxClaims
  /\ status[r] = "absent" => claim_count[r] = 0
  /\ status[r] = "queued" => claim_count[r] < MaxClaims
  /\ results[r] = IF status[r] \in {"succeeded", "partial"} THEN 1 ELSE 0
  /\ \E k \in Nat : attempts[r] = 1..k

\* What a busy worker knows: its token was given for the run, and every stage
\* before the current one has left an attempt row.
WorkerOK(w) ==
  workers[w].pc # "idle" =>
    /\ workers[w].run \in Run
    /\ workers[w].token <= claim_token[workers[w].run]
    /\ workers[w].stage <= workers[w].chain
    /\ workers[w].pc = "gate" => workers[w].stage = 1
    /\ workers[w].pc = "miss" => workers[w].stage < workers[w].chain
    /\ workers[w].stage > 1 => workers[w].stage - 1 \in attempts[workers[w].run]

\* A token is given once.
TokensDiffer(v, w) ==
  /\ workers[v].pc # "idle" /\ workers[w].pc # "idle"
  /\ workers[v].run = workers[w].run
  /\ workers[v].token = workers[w].token
  => v = w

IndInv ==
  /\ TypeOK
  /\ \A r \in Run : RowOK(r)
  /\ \A w \in Worker : WorkerOK(w)
  /\ \A v, w \in Worker : TokensDiffer(v, w)

--------------------------------------------------------------------------------
(* Lemmas about the operators.                                                *)

\* An update of a source row by an outcome is again a source row.
LEMMA SourceStateTypes ==
  ASSUME NEW st \in SourceStates
  PROVE  /\ AfterSuccess(st) \in SourceStates
         /\ AfterFailure(st, TRUE) \in SourceStates
         /\ AfterFailure(st, FALSE) \in SourceStates
<1>1. AfterSuccess(st) \in SourceStates
  BY DEF SourceStates, AfterSuccess, Circuits, Healths
<1>2. AfterFailure(st, TRUE) \in SourceStates
  BY DEF SourceStates, AfterFailure, HealthAfter, Circuits, Healths
<1>3. AfterFailure(st, FALSE) \in SourceStates
  BY DEF SourceStates, AfterFailure, HealthAfter, Circuits, Healths
<1> QED BY <1>1, <1>2, <1>3

LEMMA FreshStateType == FreshState \in SourceStates
BY DEF FreshState, SourceStates, Circuits, Healths

\* The greatest element of 1..k is k.
LEMMA MaxOfInterval ==
  ASSUME NEW k \in Nat, k >= 1
  PROVE  Max(1..k) = k
BY DEF Max

\* While the ordinals of a run are 1..k, a request that leaves no gap gets k+1.
LEMMA NextOrdinalExtends ==
  ASSUME NEW r, NEW k \in Nat, attempts[r] = 1..k,
         NEW n \in Nat, n >= 1, n <= k + 1
  PROVE  attempts[r] \cup {NextOrdinal(r, n)} = 1..(k + 1)
<1>1. CASE n \notin attempts[r]
  BY <1>1 DEF NextOrdinal
<1>2. CASE n \in attempts[r]
  <2>1. Max(attempts[r]) = k
    BY <1>2, MaxOfInterval
  <2> QED BY <1>2, <2>1 DEF NextOrdinal
<1> QED BY <1>1, <1>2

LEMMA IdleType == Idle \in WorkerStates /\ Idle.pc = "idle"
BY RunsAssumption DEF Idle, WorkerStates, Pcs, Codes

--------------------------------------------------------------------------------
(* The inductive invariant.                                                   *)

LEMMA InitInv == Init => IndInv
<1> SUFFICES ASSUME Init PROVE IndInv
  OBVIOUS
<1>1. TypeOK
  BY FreshStateType, IdleType, RunsAssumption DEF Init, TypeOK, Statuses, Terminal
<1>2. ASSUME NEW r \in Run PROVE RowOK(r)
  <2>1. attempts[r] = 1..0
    BY DEF Init
  <2> QED BY <2>1, RunsAssumption DEF Init, RowOK
<1>3. ASSUME NEW w \in Worker PROVE workers[w].pc = "idle"
  BY IdleType DEF Init
<1> QED BY <1>1, <1>2, <1>3 DEF IndInv, WorkerOK, TokensDiffer

\* A step that writes no run and moves one worker along its route, or lets it
\* go, keeps the invariant.
LEMMA WorkerMoves ==
  ASSUME IndInv, UNCHANGED runVars,
         queue' \in SUBSET Run,
         source' \in [Source -> {"active", "paused", "deleted"}],
         state' \in [Source -> SourceStates],
         NEW w \in Worker, NEW next \in WorkerStates,
         Step(w, next),
         \/ next.pc = "idle"
         \/ /\ workers[w].pc # "idle"
            /\ next.run = workers[w].run
            /\ next.token = workers[w].token
            /\ next.stage = workers[w].stage
            /\ next.stage <= next.chain
            /\ next.pc # "gate"
            /\ next.pc = "miss" => next.stage < next.chain
  PROVE  IndInv'
<1>1. TypeOK'
  BY DEF IndInv, TypeOK, runVars, Step
<1>2. \A r \in Run : RowOK(r)'
  BY DEF IndInv, RowOK, runVars
<1>3. \A v \in Worker : workers'[v] = IF v = w THEN next ELSE workers[v]
  BY DEF Step, IndInv, TypeOK
<1>4. \A v \in Worker : WorkerOK(v)'
  BY <1>3 DEF IndInv, WorkerOK, runVars
<1>5. \A u, v \in Worker : TokensDiffer(u, v)'
  BY <1>3 DEF IndInv, TokensDiffer
<1> QED BY <1>1, <1>2, <1>4, <1>5 DEF IndInv

\* A step that writes no run and moves no worker keeps it.
LEMMA EnvironmentMoves ==
  ASSUME IndInv, UNCHANGED <<runVars, workers>>,
         queue' \in SUBSET Run,
         source' \in [Source -> {"active", "paused", "deleted"}],
         state' \in [Source -> SourceStates]
  PROVE  IndInv'
<1>1. TypeOK'
  BY DEF IndInv, TypeOK, runVars
<1>2. \A r \in Run : RowOK(r)'
  BY DEF IndInv, RowOK, runVars
<1>3. \A v \in Worker : WorkerOK(v)'
  BY DEF IndInv, WorkerOK, runVars
<1>4. \A u, v \in Worker : TokensDiffer(u, v)'
  BY DEF IndInv, TokensDiffer
<1> QED BY <1>1, <1>2, <1>3, <1>4 DEF IndInv

\* The dispatcher's side: creation, messages, leases and recovery.
LEMMA RowStepInv ==
  ASSUME IndInv, NEW r \in Run,
         \/ Create(r) \/ Dispatch(r) \/ LoseMessage(r)
         \/ LeaseExpires(r) \/ Recover(r)
  PROVE  IndInv'
<1> USE DEF IndInv
<1>1. CASE Create(r)
  <2>1. TypeOK'
    BY <1>1 DEF Create, TypeOK, Statuses
  <2>2. \A q \in Run : RowOK(q)'
    BY <1>1, RunsAssumption DEF Create, RowOK, TypeOK, Terminal
  <2>3. \A v \in Worker : WorkerOK(v)'
    BY <1>1 DEF Create, WorkerOK
  <2>4. \A u, v \in Worker : TokensDiffer(u, v)'
    BY <1>1 DEF Create, TokensDiffer
  <2> QED BY <2>1, <2>2, <2>3, <2>4
<1>2. CASE Dispatch(r)
  BY <1>2, EnvironmentMoves DEF Dispatch, TypeOK
<1>3. CASE LoseMessage(r)
  BY <1>3, EnvironmentMoves DEF LoseMessage, TypeOK
<1>4. CASE LeaseExpires(r)
  <2>1. TypeOK'
    BY <1>4 DEF LeaseExpires, TypeOK
  <2>2. \A q \in Run : RowOK(q)'
    BY <1>4 DEF LeaseExpires, RowOK
  <2>3. \A v \in Worker : WorkerOK(v)'
    BY <1>4 DEF LeaseExpires, WorkerOK
  <2>4. \A u, v \in Worker : TokensDiffer(u, v)'
    BY <1>4 DEF LeaseExpires, TokensDiffer
  <2> QED BY <2>1, <2>2, <2>3, <2>4
<1>5. CASE Recover(r)
  <2>1. TypeOK'
    BY <1>5 DEF Recover, TypeOK, Statuses, Terminal
  <2>2. \A q \in Run : RowOK(q)'
    BY <1>5, RunsAssumption DEF Recover, RowOK, TypeOK
  <2>3. \A v \in Worker : WorkerOK(v)'
    BY <1>5 DEF Recover, WorkerOK
  <2>4. \A u, v \in Worker : TokensDiffer(u, v)'
    BY <1>5 DEF Recover, TokensDiffer
  <2> QED BY <2>1, <2>2, <2>3, <2>4
<1> QED BY <1>1, <1>2, <1>3, <1>4, <1>5

\* Taking a message: the new token is greater than every token given before.
LEMMA TakeMessageInv ==
  ASSUME IndInv, NEW w \in Worker, NEW r \in Run, TakeMessage(w, r)
  PROVE  IndInv'
<1> USE DEF IndInv
<1>1. CASE Claim(w, r)
  <2> DEFINE next == Claimed(r, claim_token[r] + 1)
  <2>1. next \in WorkerStates
    BY <1>1, RunsAssumption DEF WorkerStates, Claimed, Pcs, Codes, TypeOK
  <2>2. /\ next.pc = "gate" /\ next.run = r /\ next.token = claim_token[r] + 1
        /\ next.stage = 1 /\ next.chain = 1
    BY DEF Claimed
  <2>3. workers' = [workers EXCEPT ![w] = next]
    BY <1>1 DEF Claim, Step
  <2> HIDE DEF next
  <2>4. \A v \in Worker : workers'[v] = IF v = w THEN next ELSE workers[v]
    BY <2>3 DEF TypeOK
  <2>5. TypeOK'
    BY <1>1, <2>1, <2>3 DEF Claim, Delivered, TypeOK, Statuses
  <2>6. ASSUME NEW q \in Run PROVE RowOK(q)'
    <3>1. /\ RowOK(q)
          /\ status'[q] = IF q = r THEN "running" ELSE status[q]
          /\ claim_count'[q] = IF q = r THEN claim_count[q] + 1 ELSE claim_count[q]
          /\ UNCHANGED <<attempts, results>>
      BY <1>1 DEF Claim, TypeOK
    <3>2. q = r => status[q] = "queued" /\ claim_count[q] < MaxClaims
      BY <1>1 DEF Claim, Claimable
    <3>3. /\ claim_count'[q] <= MaxClaims
          /\ status'[q] = "absent" => claim_count'[q] = 0
          /\ status'[q] = "queued" => claim_count'[q] < MaxClaims
      BY <3>1, <3>2, RunsAssumption DEF RowOK, TypeOK
    <3>4. results'[q] = IF status'[q] \in {"succeeded", "partial"} THEN 1 ELSE 0
      BY <3>1, <3>2 DEF RowOK
    <3>5. \E k \in Nat : attempts'[q] = 1..k
      BY <3>1 DEF RowOK
    <3> QED BY <3>3, <3>4, <3>5 DEF RowOK
  <2>7. \A q \in Run : claim_token'[q] >= claim_token[q]
    BY <1>1 DEF Claim, TypeOK
  <2>8. \A v \in Worker : WorkerOK(v)'
    <3> SUFFICES ASSUME NEW v \in Worker PROVE WorkerOK(v)'
      OBVIOUS
    <3>1. CASE v = w
      BY <1>1, <2>2, <2>4, <3>1 DEF Claim, WorkerOK, TypeOK
    <3>2. CASE v # w
      <4>1. WorkerOK(v) /\ workers'[v] = workers[v] /\ workers[v] \in WorkerStates
        BY <2>4, <3>2 DEF TypeOK
      <4>2. attempts' = attempts
        BY <1>1 DEF Claim
      <4>3. claim_token \in [Run -> Nat] /\ claim_token' \in [Run -> Nat]
        BY <2>5 DEF TypeOK
      <4> QED BY <2>7, <4>1, <4>2, <4>3 DEF WorkerOK, WorkerStates
    <3> QED BY <3>1, <3>2
  <2>9. \A u, v \in Worker : TokensDiffer(u, v)'
    <3> SUFFICES ASSUME NEW u \in Worker, NEW v \in Worker PROVE TokensDiffer(u, v)'
      OBVIOUS
    <3>1. \A x \in Worker : workers[x].pc # "idle" /\ workers[x].run = r
                              => workers[x].token # claim_token[r] + 1
      BY DEF WorkerOK, TypeOK, WorkerStates
    <3> QED BY <2>2, <2>4, <3>1 DEF TokensDiffer
  <2> QED BY <2>5, <2>6, <2>8, <2>9
<1>2. CASE ClaimRefused(w, r)
  <2>1. TypeOK'
    BY <1>2 DEF ClaimRefused, Delivered, TypeOK, Statuses, Terminal
  <2>2. ASSUME NEW q \in Run PROVE RowOK(q)'
    <3>1. /\ RowOK(q)
          /\ status'[q] = IF q = r THEN "failed" ELSE status[q]
          /\ UNCHANGED <<claim_count, attempts, results>>
      BY <1>2 DEF ClaimRefused, TypeOK
    <3>2. q = r => status[q] = "queued"
      BY <1>2 DEF ClaimRefused
    <3> QED BY <3>1, <3>2 DEF RowOK
  <2>3. \A v \in Worker : WorkerOK(v)'
    BY <1>2 DEF ClaimRefused, WorkerOK
  <2>4. \A u, v \in Worker : TokensDiffer(u, v)'
    BY <1>2 DEF ClaimRefused, TokensDiffer
  <2> QED BY <2>1, <2>2, <2>3, <2>4
<1>3. CASE Discard(w, r)
  BY <1>3, EnvironmentMoves DEF Discard, Delivered, TypeOK
<1> QED BY <1>1, <1>2, <1>3 DEF TakeMessage

\* Moving along the route without writing the run.
LEMMA RouteInv ==
  ASSUME IndInv, NEW w \in Worker,
         \/ Gate(w) \/ ClaimProbe(w) \/ RunStage(w) \/ Unexpected(w)
         \/ AbortFailure(w) \/ GiveUp(w) \/ Crash(w)
  PROVE  IndInv'
<1> DEFINE me == workers[w]
           KeepsRest == UNCHANGED <<runVars, queue, source, state>>
<1>1. TypeOK /\ WorkerOK(w) /\ me \in WorkerStates
  BY DEF IndInv, TypeOK
<1>2. ASSUME KeepsRest, Step(w, Idle)
      PROVE  IndInv'
  BY <1>1, <1>2, WorkerMoves, IdleType DEF TypeOK
<1>3. ASSUME me.pc # "idle", KeepsRest, NEW code \in Codes, FailStep(w, code)
      PROVE  IndInv'
  <2> DEFINE next == [me EXCEPT !.pc = "fail", !.code = code]
  <2>1. next \in WorkerStates
    BY <1>1 DEF WorkerStates, Pcs
  <2>2. /\ next.pc = "fail" /\ next.run = me.run /\ next.token = me.token
        /\ next.stage = me.stage /\ next.chain = me.chain
    BY <1>1 DEF WorkerStates
  <2>3. Step(w, next)
    BY <1>3 DEF FailStep
  <2>4. next.stage <= next.chain
    BY <1>1, <1>3, <2>2 DEF WorkerOK
  <2>5. /\ UNCHANGED runVars /\ queue' \in SUBSET Run
        /\ source' \in [Source -> {"active", "paused", "deleted"}]
        /\ state' \in [Source -> SourceStates]
    BY <1>1, <1>3 DEF TypeOK
  <2> HIDE DEF next
  <2> QED BY <1>1, <1>3, <2>1, <2>2, <2>3, <2>4, <2>5, WorkerMoves
<1>4. CASE Gate(w)
  <2>1. /\ me.pc = "gate" /\ me.stage = 1 /\ KeepsRest
        /\ queue \in SUBSET Run /\ state \in [Source -> SourceStates]
        /\ source \in [Source -> {"active", "paused", "deleted"}]
    BY <1>1, <1>4 DEF Gate, WorkerOK, TypeOK
  <2>2. CASE FailStep(w, "skipped")
    BY <1>3, <2>1, <2>2 DEF Codes
  <2>3. ASSUME NEW n \in 1..MaxStage,
               Step(w, [me EXCEPT !.pc = "stage", !.chain = n, !.gate = "closed"])
        PROVE  IndInv'
    <3> DEFINE next == [me EXCEPT !.pc = "stage", !.chain = n, !.gate = "closed"]
    <3>1. next \in WorkerStates
      BY <1>1 DEF WorkerStates, Pcs
    <3>2. /\ next.pc = "stage" /\ next.run = me.run /\ next.token = me.token
          /\ next.stage = me.stage /\ next.chain = n
      BY <1>1 DEF WorkerStates
    <3>3. Step(w, next)
      BY <2>3
    <3> HIDE DEF next
    <3>4. next.stage <= next.chain
      BY <2>1, <3>2
    <3>5. UNCHANGED runVars /\ queue' = queue /\ source' = source /\ state' = state
      BY <2>1
    <3> QED BY <2>1, <3>1, <3>2, <3>3, <3>4, <3>5, WorkerMoves
  <2>4. ASSUME NEW n \in 1..MaxStage,
               Step(w, [me EXCEPT !.pc = "probe", !.chain = n])
        PROVE  IndInv'
    <3> DEFINE next == [me EXCEPT !.pc = "probe", !.chain = n]
    <3>1. next \in WorkerStates
      BY <1>1 DEF WorkerStates, Pcs
    <3>2. /\ next.pc = "probe" /\ next.run = me.run /\ next.token = me.token
          /\ next.stage = me.stage /\ next.chain = n
      BY <1>1 DEF WorkerStates
    <3>3. Step(w, next)
      BY <2>4
    <3> HIDE DEF next
    <3>4. next.stage <= next.chain
      BY <2>1, <3>2
    <3>5. UNCHANGED runVars /\ queue' = queue /\ source' = source /\ state' = state
      BY <2>1
    <3> QED BY <2>1, <3>1, <3>2, <3>3, <3>4, <3>5, WorkerMoves
  <2> QED BY <1>4, <2>2, <2>3, <2>4 DEF Gate
<1>5. CASE ClaimProbe(w)
  <2>1. /\ me.pc = "probe" /\ me.stage <= me.chain /\ UNCHANGED <<runVars, queue, source>>
        /\ queue \in SUBSET Run /\ state \in [Source -> SourceStates]
        /\ source \in [Source -> {"active", "paused", "deleted"}]
    BY <1>1, <1>5 DEF ClaimProbe, WorkerOK, TypeOK
  <2>2. CASE FailStep(w, "skipped") /\ UNCHANGED state
    BY <1>3, <2>1, <2>2 DEF Codes
  <2>3. ASSUME state' = [state EXCEPT ![SourceOfWorker(w)].circuit = "open"],
               Step(w, [me EXCEPT !.pc = "stage", !.gate = "probe"])
        PROVE  IndInv'
    <3> DEFINE next == [me EXCEPT !.pc = "stage", !.gate = "probe"]
    <3>1. next \in WorkerStates
      BY <1>1 DEF WorkerStates, Pcs
    <3>2. /\ next.pc = "stage" /\ next.run = me.run /\ next.token = me.token
          /\ next.stage = me.stage /\ next.chain = me.chain
      BY <1>1 DEF WorkerStates
    <3>3. state' \in [Source -> SourceStates]
      BY <2>1, <2>3 DEF SourceStates, Circuits
    <3> HIDE DEF next
    <3> QED BY <2>1, <2>3, <3>1, <3>2, <3>3, WorkerMoves DEF next
  <2> QED BY <1>5, <2>2, <2>3 DEF ClaimProbe
<1>6. CASE RunStage(w)
  <2>1. /\ me.pc = "stage" /\ me.stage <= me.chain /\ KeepsRest
        /\ queue \in SUBSET Run /\ state \in [Source -> SourceStates]
        /\ source \in [Source -> {"active", "paused", "deleted"}]
    BY <1>1, <1>6 DEF RunStage, WorkerOK, TypeOK
  <2>2. ASSUME NEW code \in {"unsent", "neutral", "counted"}, FailStep(w, code)
        PROVE  IndInv'
    BY <1>3, <2>1, <2>2 DEF Codes
  <2>3. ASSUME NEW pc \in {"miss", "accept"}, pc = "miss" => me.stage # me.chain,
               Step(w, [me EXCEPT !.pc = pc])
        PROVE  IndInv'
    <3> DEFINE next == [me EXCEPT !.pc = pc]
    <3>1. next \in WorkerStates
      BY <1>1 DEF WorkerStates, Pcs
    <3>2. /\ next.pc = pc /\ next.run = me.run /\ next.token = me.token
          /\ next.stage = me.stage /\ next.chain = me.chain
      BY <1>1 DEF WorkerStates
    <3>3. next.pc = "miss" => next.stage < next.chain
      BY <1>1, <2>1, <2>3, <3>2 DEF WorkerStates
    <3> HIDE DEF next
    <3> QED BY <2>1, <2>3, <3>1, <3>2, <3>3, WorkerMoves DEF next
  <2> QED BY <1>6, <2>2, <2>3 DEF RunStage
<1>7. CASE Unexpected(w)
  BY <1>3, <1>7 DEF Unexpected, Codes
<1>8. CASE AbortFailure(w) \/ GiveUp(w) \/ Crash(w)
  BY <1>2, <1>8 DEF AbortFailure, GiveUp, Crash
<1> QED BY <1>4, <1>5, <1>6, <1>7, <1>8

\* The sources and the clock.
LEMMA EnvironmentInv ==
  ASSUME IndInv, NEW s \in Source,
         \/ WindowElapses(s)
         \/ \E target \in {"active", "paused", "deleted"} : SetSourceStatus(s, target)
  PROVE  IndInv'
<1>1. TypeOK
  BY DEF IndInv
<1>2. CASE WindowElapses(s)
  <2>1. state' \in [Source -> SourceStates]
    BY <1>1, <1>2 DEF WindowElapses, TypeOK, SourceStates, Circuits
  <2> QED BY <1>1, <1>2, <2>1, EnvironmentMoves DEF WindowElapses, TypeOK
<1>3. ASSUME NEW target \in {"active", "paused", "deleted"}, SetSourceStatus(s, target)
      PROVE  IndInv'
  <2>1. source' \in [Source -> {"active", "paused", "deleted"}]
    BY <1>1, <1>3 DEF SetSourceStatus, TypeOK
  <2> QED BY <1>1, <1>3, <2>1, EnvironmentMoves DEF SetSourceStatus, TypeOK
<1> QED BY <1>2, <1>3

LEMMA HeartbeatInv ==
  ASSUME IndInv, NEW w \in Worker, Heartbeat(w)
  PROVE  IndInv'
<1>1. TypeOK'
  BY DEF IndInv, Heartbeat, TypeOK
<1>2. \A r \in Run : RowOK(r)'
  BY DEF IndInv, Heartbeat, RowOK
<1>3. \A v \in Worker : WorkerOK(v)'
  BY DEF IndInv, Heartbeat, WorkerOK
<1>4. \A u, v \in Worker : TokensDiffer(u, v)'
  BY DEF IndInv, Heartbeat, TokensDiffer
<1> QED BY <1>1, <1>2, <1>3, <1>4 DEF IndInv

\* A stage that is recorded finds its predecessor recorded, so that its number
\* leaves no gap and the rows stay dense.
LEMMA RecordExtends ==
  ASSUME IndInv, NEW w \in Worker, workers[w].pc # "idle"
  PROVE  LET r == workers[w].run
             n == workers[w].stage
         IN  /\ r \in Run /\ n \in Nat /\ n >= 1
             /\ \E k \in Nat :
                  /\ attempts[r] = 1..k
                  /\ attempts[r] \cup {NextOrdinal(r, n)} = 1..(k + 1)
                  /\ n \in 1..(k + 1)
<1> DEFINE r == workers[w].run
           n == workers[w].stage
<1>1. /\ r \in Run /\ n \in Nat /\ n >= 1
      /\ n > 1 => n - 1 \in attempts[r]
  BY RunsAssumption DEF IndInv, WorkerOK, TypeOK, WorkerStates
<1>2. PICK k \in Nat : attempts[r] = 1..k
  BY <1>1 DEF IndInv, RowOK
<1> HIDE DEF r, n
<1>3. n <= k + 1
  BY <1>1, <1>2
<1>4. attempts[r] \cup {NextOrdinal(r, n)} = 1..(k + 1)
  BY <1>1, <1>2, <1>3, NextOrdinalExtends
<1>5. n \in 1..(k + 1)
  BY <1>1, <1>3
<1> QED BY <1>1, <1>2, <1>4, <1>5 DEF r, n

\* Rows of attempts are only added: what a worker knows of them stays true.
LEMMA WorkersKeep ==
  ASSUME IndInv, NEW w \in Worker, Step(w, Idle),
         UNCHANGED claim_token,
         \A q \in Run : attempts[q] \subseteq attempts'[q]
  PROVE  /\ workers' \in [Worker -> WorkerStates]
         /\ \A v \in Worker : WorkerOK(v)'
         /\ \A u, v \in Worker : TokensDiffer(u, v)'
<1>1. workers' \in [Worker -> WorkerStates]
  BY IdleType DEF IndInv, TypeOK, Step
<1>2. \A v \in Worker : workers'[v] = IF v = w THEN Idle ELSE workers[v]
  BY DEF Step, IndInv, TypeOK
<1>3. \A v \in Worker : WorkerOK(v)'
  BY <1>2, IdleType DEF IndInv, WorkerOK
<1>4. \A u, v \in Worker : TokensDiffer(u, v)'
  BY <1>2, IdleType DEF IndInv, TokensDiffer
<1> QED BY <1>1, <1>3, <1>4

LEMMA RecordMissInv ==
  ASSUME IndInv, NEW w \in Worker, RecordMiss(w)
  PROVE  IndInv'
<1> DEFINE me == workers[w]
           r == me.run
           n == me.stage
<1>1. /\ TypeOK /\ WorkerOK(w) /\ me \in WorkerStates /\ me.pc = "miss"
      /\ n < me.chain /\ n \in Nat /\ r \in Run
  BY RunsAssumption DEF IndInv, TypeOK, RecordMiss, WorkerOK, WorkerStates
<1>2. CASE FailStep(w, "counted") /\ UNCHANGED attempts
  <2> DEFINE next == [me EXCEPT !.pc = "fail", !.code = "counted"]
  <2>1. next \in WorkerStates
    BY <1>1 DEF WorkerStates, Pcs, Codes
  <2>2. /\ next.pc = "fail" /\ next.run = me.run /\ next.token = me.token
        /\ next.stage = me.stage /\ next.chain = me.chain
    BY <1>1 DEF WorkerStates
  <2>3. Step(w, next)
    BY <1>2 DEF FailStep
  <2>4. next.stage <= next.chain
    BY <1>1, <2>2 DEF WorkerOK
  <2>5. /\ UNCHANGED runVars /\ queue' \in SUBSET Run
        /\ source' \in [Source -> {"active", "paused", "deleted"}]
        /\ state' \in [Source -> SourceStates]
    BY <1>1, <1>2 DEF RecordMiss, runVars, TypeOK
  <2> HIDE DEF next
  <2> QED BY <1>1, <2>1, <2>2, <2>3, <2>4, <2>5, WorkerMoves
<1>3. ASSUME attempts' = [attempts EXCEPT ![r] = @ \cup {NextOrdinal(r, n)}],
             Step(w, [me EXCEPT !.pc = "stage", !.stage = n + 1])
      PROVE  IndInv'
  <2> DEFINE next == [me EXCEPT !.pc = "stage", !.stage = n + 1]
  <2>1. next \in WorkerStates
    <3>1. me.chain \in 1..MaxStage
      BY <1>1 DEF WorkerStates
    <3>2. n + 1 \in 1..MaxStage
      BY <1>1, <3>1, RunsAssumption
    <3> HIDE DEF n
    <3> QED BY <1>1, <3>2 DEF WorkerStates, Pcs
  <2>2. /\ next.pc = "stage" /\ next.run = r /\ next.token = me.token
        /\ next.stage = n + 1 /\ next.chain = me.chain
    BY <1>1 DEF WorkerStates
  <2>3. \A v \in Worker : workers'[v] = IF v = w THEN next ELSE workers[v]
    BY <1>1, <1>3 DEF Step, TypeOK
  <2>4. workers' \in [Worker -> WorkerStates]
    BY <1>1, <1>3, <2>1 DEF Step, TypeOK
  <2> HIDE DEF next
  <2>5. PICK k \in Nat :
          /\ attempts[r] = 1..k
          /\ attempts[r] \cup {NextOrdinal(r, n)} = 1..(k + 1)
          /\ n \in 1..(k + 1)
    BY <1>1, RecordExtends
  <2>6. \A q \in Run : attempts'[q] = IF q = r THEN 1..(k + 1) ELSE attempts[q]
    BY <1>1, <1>3, <2>5 DEF TypeOK
  <2>7. UNCHANGED <<status, claim_count, claim_token, expired, results, queue, source, state>>
    BY DEF RecordMiss
  <2>8. TypeOK'
    <3>1. attempts' \in [Run -> SUBSET (Nat \ {0})]
      BY <1>1, <1>3, <2>5 DEF TypeOK
    <3> QED BY <1>1, <2>4, <2>7, <3>1 DEF TypeOK
  <2>9. ASSUME NEW q \in Run PROVE RowOK(q)'
    <3>1. RowOK(q)
      BY DEF IndInv
    <3>2. \E j \in Nat : attempts'[q] = 1..j
      BY <2>6, <3>1 DEF RowOK
    <3> QED BY <2>7, <3>1, <3>2 DEF RowOK
  <2>10. \A q \in Run : attempts[q] \subseteq attempts'[q]
    BY <2>5, <2>6
  <2>11. ASSUME NEW v \in Worker PROVE WorkerOK(v)'
    <3>1. CASE v = w
      <4>1. n \in attempts'[r] /\ me.token <= claim_token'[r]
        BY <1>1, <2>5, <2>6, <2>7 DEF WorkerOK
      <4>2. /\ workers'[v].run = r /\ workers'[v].token = me.token
            /\ workers'[v].pc = "stage" /\ workers'[v].stage = n + 1
            /\ workers'[v].chain = me.chain
        BY <2>2, <2>3, <3>1
      <4>3. n + 1 <= me.chain /\ n + 1 - 1 = n
        BY <1>1 DEF WorkerStates
      <4> QED BY <1>1, <4>1, <4>2, <4>3 DEF WorkerOK
    <3>2. CASE v # w
      <4>1. WorkerOK(v) /\ workers'[v] = workers[v]
        BY <2>3, <3>2 DEF IndInv
      <4> QED BY <2>7, <2>10, <4>1 DEF WorkerOK
    <3> QED BY <3>1, <3>2
  <2>12. \A u, v \in Worker : TokensDiffer(u, v)'
    BY <1>1, <2>2, <2>3 DEF IndInv, TokensDiffer
  <2> QED BY <2>8, <2>9, <2>11, <2>12 DEF IndInv
<1> QED BY <1>2, <1>3 DEF RecordMiss

\* The outcome of the holder: one transaction that ends the run.
LEMMA FinishInv ==
  ASSUME IndInv, NEW w \in Worker, FinishSuccess(w) \/ FinishFailure(w)
  PROVE  IndInv'
<1> DEFINE r == workers[w].run
           n == workers[w].stage
<1>1. /\ TypeOK /\ workers[w].pc # "idle" /\ r \in Run
      /\ status[r] = "running" /\ Step(w, Idle)
      /\ UNCHANGED <<claim_count, claim_token, queue, source>>
  BY DEF IndInv, WorkerOK, FinishSuccess, FinishFailure, Holds
<1>2. PICK k \in Nat :
        /\ attempts[r] = 1..k
        /\ attempts[r] \cup {NextOrdinal(r, n)} = 1..(k + 1)
        /\ n \in 1..(k + 1)
  BY <1>1, RecordExtends
<1>3. SourceOf[r] \in Source /\ expired' \in SUBSET Run
  BY <1>1, RunsAssumption DEF TypeOK, FinishSuccess, FinishFailure
<1> HIDE DEF r, n
<1>4. PICK j \in Nat : /\ attempts[r] \subseteq 1..j
                       /\ attempts' = [attempts EXCEPT ![r] = 1..j]
  <2>1. k + 1 \in Nat /\ attempts[r] \subseteq 1..(k + 1)
    BY <1>2
  <2>2. CASE attempts' = [attempts EXCEPT ![r] = 1..(k + 1)]
    BY <2>1, <2>2
  <2>3. CASE attempts' = [attempts EXCEPT ![r] = 1..k]
    BY <1>2, <2>3
  <2>4. CASE FinishSuccess(w)
    BY <1>2, <2>2, <2>4 DEF FinishSuccess, r, n
  <2>5. CASE FinishFailure(w) /\ RowNeeded(w)
    <3>1. n \notin attempts[r]
      BY <2>5 DEF FinishFailure, Collides, r, n
    <3>2. NextOrdinal(r, n) = n
      BY <3>1 DEF NextOrdinal
    <3> QED BY <1>2, <2>2, <2>5, <3>2 DEF FinishFailure, r, n
  <2>6. CASE FinishFailure(w) /\ ~RowNeeded(w)
    BY <1>2, <2>3, <2>6 DEF FinishFailure, r
  <2> QED BY <2>4, <2>5, <2>6
<1>5. PICK end \in Terminal :
        /\ results' = IF end \in {"succeeded", "partial"}
                        THEN [results EXCEPT ![r] = @ + 1] ELSE results
        /\ status' = [status EXCEPT ![r] = end]
        /\ state' \in [Source -> SourceStates]
  <2>1. CASE FinishSuccess(w)
    <3>1. PICK end \in {"succeeded", "partial"} : status' = [status EXCEPT ![r] = end]
      BY <2>1 DEF FinishSuccess, r
    <3>2. results' = [results EXCEPT ![r] = @ + 1]
      BY <2>1 DEF FinishSuccess, r
    <3>3. state' \in [Source -> SourceStates]
      BY <1>1, <1>3, <2>1, SourceStateTypes DEF FinishSuccess, TypeOK, r
    <3>4. end \in Terminal
      BY DEF Terminal
    <3> QED BY <3>1, <3>2, <3>3, <3>4
  <2>2. CASE FinishFailure(w)
    <3>1. status' = [status EXCEPT ![r] = "failed"] /\ "failed" \in Terminal
      BY <2>2 DEF FinishFailure, Terminal, r
    <3>2. results' = results
      BY <2>2 DEF FinishFailure
    <3>3. state' \in [Source -> SourceStates]
      <4>1. AfterFailure(state[SourceOf[r]], workers[w].code = "counted") \in SourceStates
        BY <1>1, <1>3, SourceStateTypes DEF TypeOK
      <4> QED BY <1>1, <1>3, <2>2, <4>1 DEF FinishFailure, TypeOK, r
    <3> QED BY <3>1, <3>2, <3>3
  <2> QED BY <2>1, <2>2
<1>6. \A q \in Run :
        /\ attempts'[q] = IF q = r THEN 1..j ELSE attempts[q]
        /\ results'[q] = IF q = r /\ end \in {"succeeded", "partial"}
                          THEN results[q] + 1 ELSE results[q]
        /\ status'[q] = IF q = r THEN end ELSE status[q]
  BY <1>1, <1>4, <1>5 DEF TypeOK
<1>7. \A q \in Run : attempts[q] \subseteq attempts'[q]
  BY <1>4, <1>6
<1>8. /\ workers' \in [Worker -> WorkerStates]
      /\ \A v \in Worker : WorkerOK(v)'
      /\ \A u, v \in Worker : TokensDiffer(u, v)'
  BY <1>1, <1>7, WorkersKeep
<1>9. TypeOK'
  <2>1. status' \in [Run -> Statuses] /\ results' \in [Run -> Nat]
    BY <1>1, <1>5 DEF TypeOK, Statuses
  <2>2. attempts' \in [Run -> SUBSET (Nat \ {0})]
    BY <1>1, <1>4 DEF TypeOK
  <2> QED BY <1>1, <1>3, <1>5, <1>8, <2>1, <2>2 DEF TypeOK
<1>10. ASSUME NEW q \in Run PROVE RowOK(q)'
  <2>1. RowOK(q)
    BY DEF IndInv
  <2>2. results'[q] = IF status'[q] \in {"succeeded", "partial"} THEN 1 ELSE 0
    BY <1>1, <1>5, <1>6, <2>1 DEF RowOK
  <2>3. \E i \in Nat : attempts'[q] = 1..i
    BY <1>6, <2>1 DEF RowOK
  <2>4. status'[q] \in {"absent", "queued"} => status'[q] = status[q]
    BY <1>6 DEF Terminal
  <2> QED BY <1>1, <2>1, <2>2, <2>3, <2>4 DEF RowOK
<1> QED BY <1>8, <1>9, <1>10 DEF IndInv

LEMMA NextInv == ASSUME IndInv, [Next]_vars PROVE IndInv'
<1>1. CASE UNCHANGED vars
  BY <1>1, EnvironmentMoves DEF vars, IndInv, TypeOK
<1>2. ASSUME NEW r \in Run,
             Create(r) \/ Dispatch(r) \/ LoseMessage(r) \/ LeaseExpires(r) \/ Recover(r)
      PROVE  IndInv'
  BY <1>2, RowStepInv
<1>3. ASSUME NEW w \in Worker, NEW r \in Run, TakeMessage(w, r)
      PROVE  IndInv'
  BY <1>3, TakeMessageInv
<1>4. ASSUME NEW w \in Worker, WorkerStep(w) \/ Heartbeat(w) \/ Crash(w)
      PROVE  IndInv'
  BY <1>4, RouteInv, RecordMissInv, FinishInv, HeartbeatInv DEF WorkerStep
<1>5. ASSUME NEW s \in Source,
             \/ WindowElapses(s)
             \/ \E target \in {"active", "paused", "deleted"} : SetSourceStatus(s, target)
      PROVE  IndInv'
  BY <1>5, EnvironmentInv
<1> QED BY <1>1, <1>2, <1>3, <1>4, <1>5 DEF Next

--------------------------------------------------------------------------------
(* The theorems.                                                              *)

\* The inductive invariant holds in every reachable state.
THEOREM Inductive == Spec => []IndInv
<1>1. Init => IndInv
  BY InitInv
<1>2. IndInv /\ [Next]_vars => IndInv'
  BY NextInv
<1> QED BY <1>1, <1>2, PTL DEF Spec

\* Every variable keeps its type.
THEOREM TypeCorrect == Spec => []TypeOK
<1>1. IndInv => TypeOK
  BY DEF IndInv
<1> QED BY <1>1, Inductive, PTL

\* However many workers claim and lose a run, at most one passes the claim
\* filter of the guarded writes.
THEOREM OneHolder == Spec => []SoleHolder
<1>1. IndInv => SoleHolder
  BY DEF IndInv, TokensDiffer, SoleHolder, Holds
<1> QED BY <1>1, Inductive, PTL

\* A run's evidence is committed exactly when it ends well, and once.
THEOREM PublishedOnce == Spec => []ResultsOnce
<1>1. IndInv => ResultsOnce
  BY DEF IndInv, RowOK, ResultsOnce
<1> QED BY <1>1, Inductive, PTL

\* A run is claimed at most MaxClaims times, and a queued one has a claim left.
THEOREM BoundedClaims == Spec => []ClaimsBounded
<1>1. IndInv => ClaimsBounded
  BY DEF IndInv, RowOK, ClaimsBounded
<1> QED BY <1>1, Inductive, PTL

\* Attempt rows are numbered without a gap over all the claims of a run.
THEOREM DenseAttempts == Spec => []AttemptsDense
<1>1. IndInv => AttemptsDense
  <2> SUFFICES ASSUME IndInv, NEW r \in Run
               PROVE  attempts[r] = 1..Cardinality(attempts[r])
    BY DEF AttemptsDense
  <2>1. PICK k \in Nat : attempts[r] = 1..k
    BY DEF IndInv, RowOK
  <2>2. Cardinality(1..k) = k
    BY FS_Interval
  <2> QED BY <2>1, <2>2
<1> QED BY <1>1, Inductive, PTL

--------------------------------------------------------------------------------
(* Action properties.                                                         *)

\* Which steps write the attempts or the results, and under which claim.
LEMMA Writers ==
  ASSUME IndInv, [Next]_vars
  PROVE  \/ UNCHANGED <<attempts, results>>
         \/ \E w \in Worker :
              /\ Holds(w)
              /\ workers'[w] # workers[w]
              /\ \A q \in Run : q # workers[w].run =>
                   attempts'[q] = attempts[q] /\ results'[q] = results[q]
<1>1. ASSUME NEW w \in Worker, RecordMiss(w), ~ UNCHANGED attempts
      PROVE  /\ Holds(w) /\ workers'[w] # workers[w]
             /\ \A q \in Run : q # workers[w].run =>
                  attempts'[q] = attempts[q] /\ results'[q] = results[q]
  <2>1. /\ Holds(w) /\ workers[w].pc = "miss" /\ UNCHANGED results
        /\ Step(w, [workers[w] EXCEPT !.pc = "stage", !.stage = workers[w].stage + 1])
        /\ attempts' = [attempts EXCEPT ![workers[w].run] =
                          @ \cup {NextOrdinal(workers[w].run, workers[w].stage)}]
    BY <1>1 DEF RecordMiss
  <2>2. workers'[w].pc = "stage"
    BY <2>1 DEF Step, IndInv, TypeOK, WorkerStates
  <2>3. \A q \in Run : q # workers[w].run => attempts'[q] = attempts[q]
    BY <2>1 DEF IndInv, TypeOK
  <2> QED BY <2>1, <2>2, <2>3
<1>2. ASSUME NEW w \in Worker, FinishSuccess(w) \/ FinishFailure(w)
      PROVE  /\ Holds(w) /\ workers'[w] # workers[w]
             /\ \A q \in Run : q # workers[w].run =>
                  attempts'[q] = attempts[q] /\ results'[q] = results[q]
  <2>1. Holds(w) /\ Step(w, Idle)
    BY <1>2 DEF FinishSuccess, FinishFailure
  <2>2. workers'[w].pc = "idle"
    BY <2>1, IdleType DEF Step, IndInv, TypeOK
  <2>3. \A q \in Run : q # workers[w].run =>
          attempts'[q] = attempts[q] /\ results'[q] = results[q]
    BY <1>2 DEF IndInv, TypeOK, FinishSuccess, FinishFailure
  <2> QED BY <2>1, <2>2, <2>3 DEF Holds
<1>3. CASE UNCHANGED vars
  BY <1>3 DEF vars, runVars
<1>4. ASSUME NEW r \in Run,
             Create(r) \/ Dispatch(r) \/ LoseMessage(r) \/ LeaseExpires(r) \/ Recover(r)
      PROVE  UNCHANGED <<attempts, results>>
  BY <1>4 DEF Create, Dispatch, LoseMessage, LeaseExpires, Recover, runVars
<1>5. ASSUME NEW w \in Worker, NEW r \in Run, TakeMessage(w, r)
      PROVE  UNCHANGED <<attempts, results>>
  BY <1>5 DEF TakeMessage, Claim, ClaimRefused, Discard, runVars
<1>6. ASSUME NEW w \in Worker,
             \/ Gate(w) \/ ClaimProbe(w) \/ RunStage(w) \/ Unexpected(w)
             \/ AbortFailure(w) \/ GiveUp(w) \/ Heartbeat(w) \/ Crash(w)
      PROVE  UNCHANGED <<attempts, results>>
  BY <1>6 DEF Gate, ClaimProbe, RunStage, Unexpected, AbortFailure, GiveUp,
              Heartbeat, Crash, runVars
<1>7. ASSUME NEW w \in Worker, RecordMiss(w)
      PROVE  UNCHANGED results
  BY <1>7 DEF RecordMiss
<1>8. ASSUME NEW s \in Source,
             \/ WindowElapses(s)
             \/ \E target \in {"active", "paused", "deleted"} : SetSourceStatus(s, target)
      PROVE  UNCHANGED <<attempts, results>>
  BY <1>8 DEF WindowElapses, SetSourceStatus, runVars
<1> QED BY <1>1, <1>2, <1>3, <1>4, <1>5, <1>6, <1>7, <1>8 DEF Next, WorkerStep

\* Attempts and results are written by the worker that holds the run.
THEOREM HolderWrites == Spec => OnlyHolderWrites
<1>1. ASSUME IndInv, [Next]_vars
      PROVE  [\A r \in Run :
               (attempts'[r] # attempts[r] \/ results'[r] # results[r]) =>
                 \E w \in Worker : /\ Holds(w)
                                   /\ workers[w].run = r
                                   /\ workers'[w] # workers[w]]_vars
  BY <1>1, Writers
<1> QED BY <1>1, Inductive, PTL DEF Spec, OnlyHolderWrites

--------------------------------------------------------------------------------
(* Refinement of the contract, and finality.                                  *)

\* Every step changes the row of at most one run, in one of the ways the
\* contract allows.
RowStep(r) ==
  \/ /\ status[r] = "absent"
     /\ status' = [status EXCEPT ![r] = "queued"]
     /\ UNCHANGED <<claim_count, results>>
  \/ /\ status[r] = "queued" /\ claim_count[r] < MaxClaims
     /\ status' = [status EXCEPT ![r] = "running"]
     /\ claim_count' = [claim_count EXCEPT ![r] = @ + 1]
     /\ UNCHANGED results
  \/ /\ status[r] = "running" /\ claim_count[r] < MaxClaims
     /\ status' = [status EXCEPT ![r] = "queued"]
     /\ UNCHANGED <<claim_count, results>>
  \/ /\ status[r] = "running"
     /\ \E end \in {"succeeded", "partial"} : status' = [status EXCEPT ![r] = end]
     /\ results' = [results EXCEPT ![r] = @ + 1]
     /\ UNCHANGED claim_count
  \/ /\ status[r] \in {"queued", "running"}
     /\ status' = [status EXCEPT ![r] = "failed"]
     /\ UNCHANGED <<claim_count, results>>

LEMMA RowSteps ==
  ASSUME IndInv, [Next]_vars
  PROVE  \/ UNCHANGED <<status, claim_count, results>>
         \/ \E r \in Run : RowStep(r)
<1>1. CASE UNCHANGED vars
  BY <1>1 DEF vars, runVars
<1>2. ASSUME NEW r \in Run, Create(r)
      PROVE  RowStep(r)
  BY <1>2 DEF Create, RowStep
<1>3. ASSUME NEW r \in Run, Dispatch(r) \/ LoseMessage(r) \/ LeaseExpires(r)
      PROVE  UNCHANGED <<status, claim_count, results>>
  BY <1>3 DEF Dispatch, LoseMessage, LeaseExpires, runVars
<1>4. ASSUME NEW r \in Run, Recover(r)
      PROVE  RowStep(r)
  <2>1. /\ status[r] = "running" /\ UNCHANGED <<claim_count, results>>
        /\ status' = [status EXCEPT ![r] =
                        IF claim_count[r] >= MaxClaims THEN "failed" ELSE "queued"]
        /\ claim_count[r] \in Nat
    BY <1>4 DEF Recover, IndInv, TypeOK
  <2>2. CASE claim_count[r] >= MaxClaims
    BY <2>1, <2>2 DEF RowStep
  <2>3. CASE claim_count[r] < MaxClaims
    BY <2>1, <2>3, RunsAssumption DEF RowStep
  <2> QED BY <2>1, <2>2, <2>3, RunsAssumption
<1>5. ASSUME NEW w \in Worker, NEW r \in Run, Claim(w, r)
      PROVE  RowStep(r)
  BY <1>5 DEF Claim, Claimable, RowStep
<1>6. ASSUME NEW w \in Worker, NEW r \in Run, ClaimRefused(w, r)
      PROVE  RowStep(r)
  BY <1>6 DEF ClaimRefused, RowStep
<1>7. ASSUME NEW w \in Worker, NEW r \in Run, Discard(w, r)
      PROVE  UNCHANGED <<status, claim_count, results>>
  BY <1>7 DEF Discard, runVars
<1>8. ASSUME NEW w \in Worker,
             \/ Gate(w) \/ ClaimProbe(w) \/ RunStage(w) \/ RecordMiss(w)
             \/ Unexpected(w) \/ AbortFailure(w) \/ GiveUp(w)
             \/ Heartbeat(w) \/ Crash(w)
      PROVE  UNCHANGED <<status, claim_count, results>>
  BY <1>8 DEF Gate, ClaimProbe, RunStage, RecordMiss, Unexpected, AbortFailure,
              GiveUp, Heartbeat, Crash, runVars
<1>9. ASSUME NEW w \in Worker, FinishSuccess(w)
      PROVE  \E r \in Run : RowStep(r)
  <2>1. workers[w].run \in Run
    BY <1>9 DEF FinishSuccess, IndInv, WorkerOK
  <2>2. RowStep(workers[w].run)
    BY <1>9 DEF FinishSuccess, Holds, RowStep
  <2> QED BY <2>1, <2>2
<1>10. ASSUME NEW w \in Worker, FinishFailure(w)
       PROVE  \E r \in Run : RowStep(r)
  <2>1. workers[w].run \in Run
    BY <1>10 DEF FinishFailure, IndInv, WorkerOK
  <2>2. RowStep(workers[w].run)
    BY <1>10 DEF FinishFailure, Holds, RowStep
  <2> QED BY <2>1, <2>2
<1>11. ASSUME NEW s \in Source,
              \/ WindowElapses(s)
              \/ \E target \in {"active", "paused", "deleted"} : SetSourceStatus(s, target)
       PROVE  UNCHANGED <<status, claim_count, results>>
  BY <1>11 DEF WindowElapses, SetSourceStatus, runVars
<1> QED BY <1>1, <1>2, <1>3, <1>4, <1>5, <1>6, <1>7, <1>8, <1>9, <1>10, <1>11
        DEF Next, TakeMessage, WorkerStep

\* A run that has ended keeps its status, its attempts and its results.
THEOREM EndIsFinal == Spec => EndedIsFinal
<1>1. ASSUME IndInv, [Next]_vars
      PROVE  [\A r \in Run : status[r] \in Terminal =>
                /\ status'[r] = status[r]
                /\ attempts'[r] = attempts[r]
                /\ results'[r] = results[r]]_vars
  <2> SUFFICES ASSUME NEW r \in Run, status[r] \in Terminal
               PROVE  /\ status'[r] = status[r]
                      /\ attempts'[r] = attempts[r]
                      /\ results'[r] = results[r]
    OBVIOUS
  <2>1. status[r] \notin {"absent", "queued", "running"}
    BY DEF Terminal
  <2>2. status'[r] = status[r]
    BY <1>1, <2>1, RowSteps DEF RowStep, IndInv, TypeOK
  <2>3. attempts'[r] = attempts[r] /\ results'[r] = results[r]
    BY <1>1, <2>1, Writers DEF Holds
  <2> QED BY <2>2, <2>3
<1> QED BY <1>1, Inductive, PTL DEF Spec, EndedIsFinal

\* The detailed runs implement the contract: every step is a step of RunContract
\* or leaves phase, tries and published alone.
THEOREM Implements == Spec => ContractSafety
<1>1. Init => Contract!Init
  BY DEF Init, Contract!Init, Phase
<1>2. ASSUME IndInv, [Next]_vars
      PROVE  [Contract!Next]_(Contract!contractVars)
  <2>1. CASE UNCHANGED <<status, claim_count, results>>
    BY <2>1 DEF Contract!contractVars
  <2>2. ASSUME NEW r \in Run, RowStep(r)
        PROVE  Contract!Next
    <3> DEFINE ph == [q \in Run |-> Phase(status[q])]
    <3>1. ASSUME NEW st \in Statuses, status' = [status EXCEPT ![r] = st]
          PROVE  ph' = [ph EXCEPT ![r] = Phase(st)]
      BY <1>2, <3>1 DEF IndInv, TypeOK
    <3>2. CASE /\ status[r] = "absent"
               /\ status' = [status EXCEPT ![r] = "queued"]
               /\ UNCHANGED <<claim_count, results>>
      BY <3>1, <3>2 DEF Contract!Next, Contract!Submit, Phase, Statuses
    <3>3. CASE /\ status[r] = "queued" /\ claim_count[r] < MaxClaims
               /\ status' = [status EXCEPT ![r] = "running"]
               /\ claim_count' = [claim_count EXCEPT ![r] = @ + 1]
               /\ UNCHANGED results
      BY <3>1, <3>3 DEF Contract!Next, Contract!Start, Phase, Statuses
    <3>4. CASE /\ status[r] = "running" /\ claim_count[r] < MaxClaims
               /\ status' = [status EXCEPT ![r] = "queued"]
               /\ UNCHANGED <<claim_count, results>>
      BY <3>1, <3>4 DEF Contract!Next, Contract!Requeue, Phase, Statuses
    <3>5. CASE /\ status[r] = "running"
               /\ \E end \in {"succeeded", "partial"} : status' = [status EXCEPT ![r] = end]
               /\ results' = [results EXCEPT ![r] = @ + 1]
               /\ UNCHANGED claim_count
      BY <3>1, <3>5 DEF Contract!Next, Contract!Publish, Phase, Statuses, Terminal
    <3>6. CASE /\ status[r] \in {"queued", "running"}
               /\ status' = [status EXCEPT ![r] = "failed"]
               /\ UNCHANGED <<claim_count, results>>
      BY <3>1, <3>6 DEF Contract!Next, Contract!Fail, Phase, Statuses, Terminal
    <3> QED BY <2>2, <3>2, <3>3, <3>4, <3>5, <3>6 DEF RowStep
  <2> QED BY <1>2, <2>1, <2>2, RowSteps
<1> QED BY <1>1, <1>2, Inductive, PTL DEF Spec, ContractSafety, Contract!Spec

--------------------------------------------------------------------------------
(* The row of a source and its runs.                                          *)

\* What a step does to the row of a source and to the runs it is about.
WindowMoves(s) ==
  /\ UNCHANGED status
  /\ state[s].circuit # "closed"
  /\ \E circuit \in {"open", "elapsed"} : state' = [state EXCEPT ![s].circuit = circuit]

Proceeds(r) ==
  /\ status[r] \notin Terminal
  /\ \E st \in {"queued", "running"} : status' = [status EXCEPT ![r] = st]
  /\ UNCHANGED state

Succeeds(r) ==
  /\ status[r] = "running"
  /\ \E end \in {"succeeded", "partial"} : status' = [status EXCEPT ![r] = end]
  /\ state' = [state EXCEPT ![SourceOf[r]] = AfterSuccess(@)]

Fails(r) ==
  /\ status[r] \in {"queued", "running"}
  /\ status' = [status EXCEPT ![r] = "failed"]
  /\ \/ UNCHANGED state
     \/ \E counted \in BOOLEAN :
          state' = [state EXCEPT ![SourceOf[r]] = AfterFailure(@, counted)]

LEMMA SourceSteps ==
  ASSUME IndInv, [Next]_vars
  PROVE  \/ UNCHANGED <<status, state>>
         \/ \E s \in Source : WindowMoves(s)
         \/ \E r \in Run : Proceeds(r) \/ Succeeds(r) \/ Fails(r)
<1>1. CASE UNCHANGED vars
  BY <1>1 DEF vars, runVars
<1>2. ASSUME NEW r \in Run, Create(r)
      PROVE  Proceeds(r)
  BY <1>2 DEF Create, Proceeds, Terminal
<1>3. ASSUME NEW r \in Run, Dispatch(r) \/ LoseMessage(r) \/ LeaseExpires(r)
      PROVE  UNCHANGED <<status, state>>
  BY <1>3 DEF Dispatch, LoseMessage, LeaseExpires, runVars
<1>4. ASSUME NEW r \in Run, Recover(r)
      PROVE  Proceeds(r) \/ Fails(r)
  <2>1. /\ status[r] = "running" /\ UNCHANGED state
        /\ status' = [status EXCEPT ![r] =
                        IF claim_count[r] >= MaxClaims THEN "failed" ELSE "queued"]
    BY <1>4 DEF Recover
  <2>2. CASE claim_count[r] >= MaxClaims
    BY <2>1, <2>2 DEF Fails
  <2>3. CASE ~(claim_count[r] >= MaxClaims)
    BY <2>1, <2>3 DEF Proceeds, Terminal
  <2> QED BY <2>2, <2>3
<1>5. ASSUME NEW w \in Worker, NEW r \in Run, TakeMessage(w, r)
      PROVE  UNCHANGED <<status, state>> \/ Proceeds(r) \/ Fails(r)
  <2>1. CASE Claim(w, r)
    BY <2>1 DEF Claim, Claimable, Proceeds, Terminal
  <2>2. CASE ClaimRefused(w, r)
    BY <2>2 DEF ClaimRefused, Fails
  <2>3. CASE Discard(w, r)
    BY <2>3 DEF Discard, runVars
  <2> QED BY <1>5, <2>1, <2>2, <2>3 DEF TakeMessage
<1>6. ASSUME NEW w \in Worker,
             \/ Gate(w) \/ RunStage(w) \/ RecordMiss(w) \/ Unexpected(w)
             \/ AbortFailure(w) \/ GiveUp(w) \/ Heartbeat(w) \/ Crash(w)
      PROVE  UNCHANGED <<status, state>>
  BY <1>6 DEF Gate, RunStage, RecordMiss, Unexpected, AbortFailure, GiveUp, Heartbeat,
              Crash, runVars
<1>7. ASSUME NEW w \in Worker, ClaimProbe(w)
      PROVE  UNCHANGED <<status, state>> \/ \E s \in Source : WindowMoves(s)
  <2>1. SourceOfWorker(w) \in Source
    BY <1>7, RunsAssumption DEF ClaimProbe, SourceOfWorker, IndInv, WorkerOK
  <2>2. UNCHANGED <<status, state>> \/ WindowMoves(SourceOfWorker(w))
    BY <1>7 DEF ClaimProbe, WindowMoves, runVars
  <2> QED BY <2>1, <2>2
<1>8. ASSUME NEW w \in Worker, FinishSuccess(w)
      PROVE  \E r \in Run : Succeeds(r)
  <2>1. workers[w].run \in Run
    BY <1>8 DEF FinishSuccess, IndInv, WorkerOK
  <2>2. Succeeds(workers[w].run)
    BY <1>8 DEF FinishSuccess, Holds, Succeeds
  <2> QED BY <2>1, <2>2
<1>9. ASSUME NEW w \in Worker, FinishFailure(w)
      PROVE  \E r \in Run : Fails(r)
  <2> DEFINE r == workers[w].run
  <2>1. r \in Run
    BY <1>9 DEF FinishFailure, IndInv, WorkerOK
  <2>2. /\ status[r] = "running"
        /\ status' = [status EXCEPT ![r] = "failed"]
        /\ state' = [state EXCEPT ![SourceOf[r]] =
                       IF workers[w].code = "skipped" THEN @
                       ELSE AfterFailure(@, workers[w].code = "counted")]
    BY <1>9 DEF FinishFailure, Holds
  <2>3. CASE workers[w].code = "skipped"
    <3>1. state' = state
      BY <2>2, <2>3 DEF IndInv, TypeOK
    <3> QED BY <2>1, <2>2, <3>1 DEF Fails
  <2>4. CASE workers[w].code # "skipped"
    <3>1. PICK counted \in BOOLEAN : counted = (workers[w].code = "counted")
      OBVIOUS
    <3>2. state' = [state EXCEPT ![SourceOf[r]] = AfterFailure(@, counted)]
      BY <2>2, <2>4, <3>1
    <3> QED BY <2>1, <2>2, <3>2 DEF Fails
  <2> QED BY <2>3, <2>4
<1>10. ASSUME NEW s \in Source, WindowElapses(s)
       PROVE  WindowMoves(s)
  BY <1>10 DEF WindowElapses, WindowMoves, runVars
<1>11. ASSUME NEW s \in Source,
              \E target \in {"active", "paused", "deleted"} : SetSourceStatus(s, target)
       PROVE  UNCHANGED <<status, state>>
  BY <1>11 DEF SetSourceStatus, runVars
<1> QED BY <1>1, <1>2, <1>3, <1>4, <1>5, <1>6, <1>7, <1>8, <1>9, <1>10, <1>11
        DEF Next, WorkerStep

\* The row of a source in which streak, circuit and health agree.
Agrees(st) ==
  /\ (st.circuit # "closed") <=> (st.consecutive >= FailureThreshold)
  /\ (st.health = "circuit_open") <=> (st.circuit # "closed")
  /\ st.consecutive <= st.failed

LEMMA OutcomesAgree ==
  ASSUME NEW st \in SourceStates, Agrees(st)
  PROVE  /\ Agrees(AfterSuccess(st))
         /\ \A counted \in BOOLEAN : Agrees(AfterFailure(st, counted))
<1>1. Agrees(AfterSuccess(st))
  BY ThresholdAssumption DEF Agrees, AfterSuccess, SourceStates
<1>2. ASSUME NEW counted \in BOOLEAN PROVE Agrees(AfterFailure(st, counted))
  <2> DEFINE n == st.consecutive + (IF counted THEN 1 ELSE 0)
  <2>1. n \in Nat /\ n <= st.failed + 1 /\ n >= st.consecutive
    BY DEF Agrees, SourceStates
  <2>2. /\ AfterFailure(st, counted).consecutive = n
        /\ AfterFailure(st, counted).failed = st.failed + 1
        /\ AfterFailure(st, counted).health = HealthAfter(n)
        /\ AfterFailure(st, counted).circuit =
             IF n >= FailureThreshold THEN "open" ELSE st.circuit
    BY DEF AfterFailure
  <2> HIDE DEF n
  <2>3. st.consecutive \in Nat
    BY DEF SourceStates
  <2> QED BY <2>1, <2>2, <2>3, ThresholdAssumption DEF Agrees, HealthAfter
<1> QED BY <1>1, <1>2

\* Streak, circuit and health agree through any outcomes, probes and windows.
\* (_update_source_state, _health_for)
THEOREM CircuitIsConsistent == Spec => []CircuitAgrees
<1> DEFINE Inv == \A s \in Source : Agrees(state[s])
<1>1. Init => Inv
  BY ThresholdAssumption DEF Init, FreshState, Agrees
<1>2. ASSUME IndInv, Inv, [Next]_vars PROVE Inv'
  <2> SUFFICES ASSUME NEW s \in Source PROVE Agrees(state'[s])
    BY DEF Agrees
  <2>1. state \in [Source -> SourceStates] /\ state[s] \in SourceStates /\ Agrees(state[s])
    BY <1>2 DEF IndInv, TypeOK
  <2>2. CASE state' = state
    BY <2>1, <2>2
  <2>3. ASSUME NEW q \in Source, WindowMoves(q) PROVE Agrees(state'[s])
    <3>1. CASE q = s
      <4>1. /\ state[s].circuit # "closed" /\ state'[s].circuit # "closed"
            /\ state'[s].consecutive = state[s].consecutive
            /\ state'[s].failed = state[s].failed
            /\ state'[s].health = state[s].health
        BY <2>1, <2>3, <3>1 DEF WindowMoves, SourceStates
      <4> QED BY <2>1, <4>1 DEF Agrees
    <3>2. CASE q # s
      <4>1. state'[s] = state[s]
        BY <2>1, <2>3, <3>2 DEF WindowMoves
      <4> QED BY <2>1, <4>1
    <3> QED BY <3>1, <3>2
  <2>4. ASSUME NEW r \in Run, Succeeds(r) PROVE Agrees(state'[s])
    <3>1. state'[s] = state[s] \/ state'[s] = AfterSuccess(state[s])
      BY <2>1, <2>4 DEF Succeeds
    <3> QED BY <2>1, <3>1, OutcomesAgree
  <2>5. ASSUME NEW r \in Run, Fails(r) PROVE Agrees(state'[s])
    <3>1. \/ state'[s] = state[s]
          \/ \E counted \in BOOLEAN : state'[s] = AfterFailure(state[s], counted)
      BY <2>1, <2>5 DEF Fails
    <3> QED BY <2>1, <3>1, OutcomesAgree
  <2> QED BY <1>2, <2>2, <2>3, <2>4, <2>5, SourceSteps DEF Proceeds
<1>3. IndInv /\ Inv => CircuitAgrees
  BY DEF CircuitAgrees, Agrees
<1> HIDE DEF Inv
<1> QED BY <1>1, <1>2, <1>3, Inductive, PTL DEF Spec

\* The runs of a source that have ended in one of these ways.
Ended(s, S) == {r \in Run : SourceOf[r] = s /\ status[r] \in S}

Started == {r \in Run : status[r] # "absent"}

\* One run of all moves on to st.
LEMMA OneRunMoves ==
  ASSUME IndInv, IsFiniteSet(Started), NEW r \in Run, NEW st \in Statuses,
         status[r] \notin Terminal, status' = [status EXCEPT ![r] = st], st # "absent"
  PROVE  /\ IsFiniteSet(Started')
         /\ \A s \in Source, S \in SUBSET Terminal :
              /\ Cardinality(Ended(s, S)) \in Nat
              /\ Cardinality(Ended(s, S)') =
                   Cardinality(Ended(s, S)) + IF SourceOf[r] = s /\ st \in S THEN 1 ELSE 0
<1>1. \A q \in Run : status'[q] = IF q = r THEN st ELSE status[q]
  BY DEF IndInv, TypeOK
<1>2. Started' = Started \cup {r}
  BY <1>1 DEF Started
<1>3. IsFiniteSet(Started')
  BY <1>2, FS_AddElement
<1>4. ASSUME NEW s \in Source, NEW S \in SUBSET Terminal
      PROVE  /\ Cardinality(Ended(s, S)) \in Nat
             /\ Cardinality(Ended(s, S)') =
                  Cardinality(Ended(s, S)) + IF SourceOf[r] = s /\ st \in S THEN 1 ELSE 0
  <2>1. PICK old, new : old = Ended(s, S) /\ new = Ended(s, S)'
    OBVIOUS
  <2>2. old \in SUBSET Started
    BY <2>1 DEF Ended, Started, Terminal
  <2>3. IsFiniteSet(old)
    BY <2>2, FS_Subset
  <2>4. Cardinality(old) \in Nat
    BY <2>3, FS_CardinalityType
  <2>5. r \notin old
    BY <2>1 DEF Ended
  <2>6. CASE SourceOf[r] = s /\ st \in S
    <3>1. new = old \cup {r}
      BY <1>1, <2>1, <2>6 DEF Ended
    <3>2. Cardinality(new) = Cardinality(old) + 1
      BY <2>3, <2>5, <3>1, FS_AddElement
    <3> QED BY <2>1, <2>4, <2>6, <3>2
  <2>7. CASE ~(SourceOf[r] = s /\ st \in S)
    <3>1. new = old
      BY <1>1, <2>1, <2>5, <2>7 DEF Ended
    <3>2. Cardinality(new) = Cardinality(old) + 0
      BY <2>4, <3>1
    <3> QED BY <2>1, <2>4, <2>7, <3>2
  <2> QED BY <2>6, <2>7
<1> QED BY <1>3, <1>4

\* The counters of a source are those of its runs, however many workers report
\* one run. (_update_source_state, mark_failed, persist_success)
THEOREM CountersAreExact == Spec => []CountersMatchRuns
<1> DEFINE Good == {"succeeded", "partial"}
           Bad == {"failed"}
           Counts(s) == /\ state[s].succeeded = Cardinality(Ended(s, Good))
                        /\ state[s].failed <= Cardinality(Ended(s, Bad))
           Inv == IsFiniteSet(Started) /\ \A s \in Source : Counts(s)
<1>1. Init => Inv
  <2> SUFFICES ASSUME Init PROVE Inv
    OBVIOUS
  <2>1. Started = {} /\ \A s \in Source : Ended(s, Good) = {} /\ Ended(s, Bad) = {}
    BY DEF Init, Started, Ended
  <2>2. \A s \in Source : state[s].succeeded = 0 /\ state[s].failed = 0
    BY DEF Init, FreshState
  <2> QED BY <2>1, <2>2, FS_EmptySet
<1>2. ASSUME IndInv, Inv, [Next]_vars PROVE Inv'
  <2>1. /\ state \in [Source -> SourceStates]
        /\ \A s \in Source : state[s].succeeded \in Nat /\ state[s].failed \in Nat
    BY <1>2 DEF IndInv, TypeOK, SourceStates
  <2>2. Good \in SUBSET Terminal /\ Bad \in SUBSET Terminal
    BY DEF Terminal
  <2>3. CASE /\ status' = status
             /\ \A s \in Source : /\ state'[s].succeeded = state[s].succeeded
                                  /\ state'[s].failed = state[s].failed
    <3>1. Started' = Started /\ \A s \in Source : \A S : Ended(s, S)' = Ended(s, S)
      BY <2>3 DEF Started, Ended
    <3> QED BY <1>2, <2>3, <3>1
  <2>4. ASSUME NEW q \in Source, WindowMoves(q) PROVE Inv'
    <3>1. \A s \in Source : /\ state'[s].succeeded = state[s].succeeded
                            /\ state'[s].failed = state[s].failed
      BY <2>1, <2>4 DEF WindowMoves, SourceStates
    <3> QED BY <2>3, <2>4, <3>1 DEF WindowMoves
  <2>5. ASSUME NEW r \in Run, Proceeds(r) PROVE Inv'
    <3>1. PICK st \in {"queued", "running"} : status' = [status EXCEPT ![r] = st]
      BY <2>5 DEF Proceeds
    <3>2. /\ IsFiniteSet(Started')
          /\ \A s \in Source, S \in SUBSET Terminal :
               /\ Cardinality(Ended(s, S)) \in Nat
               /\ Cardinality(Ended(s, S)') =
                    Cardinality(Ended(s, S)) + IF SourceOf[r] = s /\ st \in S THEN 1 ELSE 0
      <4>1. st \in Statuses /\ st # "absent" /\ status[r] \notin Terminal
        BY <2>5 DEF Proceeds, Statuses
      <4> QED BY <1>2, <3>1, <4>1, OneRunMoves
    <3>3. state' = state /\ st \notin Good /\ st \notin Bad
      BY <2>5 DEF Proceeds
    <3>4. ASSUME NEW s \in Source PROVE Counts(s)'
      BY <1>2, <2>2, <3>2, <3>3
    <3> QED BY <3>2, <3>4
  <2>6. ASSUME NEW r \in Run, Succeeds(r) PROVE Inv'
    <3>1. PICK st \in Good : status' = [status EXCEPT ![r] = st]
      BY <2>6 DEF Succeeds
    <3>2. /\ IsFiniteSet(Started')
          /\ \A s \in Source, S \in SUBSET Terminal :
               /\ Cardinality(Ended(s, S)) \in Nat
               /\ Cardinality(Ended(s, S)') =
                    Cardinality(Ended(s, S)) + IF SourceOf[r] = s /\ st \in S THEN 1 ELSE 0
      <4>1. st \in Statuses /\ st # "absent" /\ status[r] \notin Terminal
        BY <2>6 DEF Succeeds, Statuses, Terminal
      <4> QED BY <1>2, <3>1, <4>1, OneRunMoves
    <3>3. ASSUME NEW s \in Source
          PROVE  /\ state'[s].succeeded =
                      state[s].succeeded + IF SourceOf[r] = s THEN 1 ELSE 0
                 /\ state'[s].failed = state[s].failed
      <4>1. state'[s] = IF SourceOf[r] = s THEN AfterSuccess(state[s]) ELSE state[s]
        BY <2>1, <2>6 DEF Succeeds
      <4> QED BY <2>1, <4>1 DEF AfterSuccess
    <3>4. ASSUME NEW s \in Source PROVE Counts(s)'
      BY <1>2, <2>2, <3>1, <3>2, <3>3
    <3> QED BY <3>2, <3>4
  <2>7. ASSUME NEW r \in Run, Fails(r) PROVE Inv'
    <3>1. PICK st \in Bad : status' = [status EXCEPT ![r] = st] /\ status[r] \notin Terminal
      BY <2>7 DEF Fails, Terminal
    <3>2. /\ IsFiniteSet(Started')
          /\ \A s \in Source, S \in SUBSET Terminal :
               /\ Cardinality(Ended(s, S)) \in Nat
               /\ Cardinality(Ended(s, S)') =
                    Cardinality(Ended(s, S)) + IF SourceOf[r] = s /\ st \in S THEN 1 ELSE 0
      <4>1. st \in Statuses /\ st # "absent"
        BY <3>1 DEF Statuses, Terminal
      <4> QED BY <1>2, <3>1, <4>1, OneRunMoves
    <3>3. ASSUME NEW s \in Source
          PROVE  /\ state'[s].succeeded = state[s].succeeded
                 /\ state'[s].failed \in Nat
                 /\ state'[s].failed <= state[s].failed + IF SourceOf[r] = s THEN 1 ELSE 0
      <4>1. CASE state' = state
        BY <2>1, <4>1
      <4>2. ASSUME NEW counted \in BOOLEAN,
                   state' = [state EXCEPT ![SourceOf[r]] = AfterFailure(@, counted)]
            PROVE  /\ state'[s].succeeded = state[s].succeeded
                   /\ state'[s].failed \in Nat
                   /\ state'[s].failed <= state[s].failed + IF SourceOf[r] = s THEN 1 ELSE 0
        <5>1. state'[s] = IF SourceOf[r] = s THEN AfterFailure(state[s], counted) ELSE state[s]
          BY <2>1, <4>2
        <5> QED BY <2>1, <5>1 DEF AfterFailure
      <4> QED BY <2>7, <4>1, <4>2 DEF Fails
    <3>4. ASSUME NEW s \in Source PROVE Counts(s)'
      BY <1>2, <2>1, <2>2, <3>1, <3>2, <3>3
    <3> QED BY <3>2, <3>4
  <2> QED BY <1>2, <2>3, <2>4, <2>5, <2>6, <2>7, SourceSteps
<1>3. Inv => CountersMatchRuns
  BY DEF CountersMatchRuns, Ended
<1> HIDE DEF Inv
<1> QED BY <1>1, <1>2, <1>3, Inductive, PTL DEF Spec

--------------------------------------------------------------------------------
(* How many attempts a run may leave, and the one way for a failure report to *)
(* find its ordinal taken.                                                    *)

\* The attempt rows that n claims can leave without ending the run: each records
\* the stages it missed, and no claim misses the last stage of its route.
MissesOf(n) == n * (MaxStage - 1)

RowFits(r) ==
  attempts[r] \subseteq
    1..(MissesOf(claim_count[r]) + IF status[r] \in Terminal THEN 1 ELSE 0)

\* The holder has added to the rows of the earlier claims those of the stages
\* before its own.
HolderFits(w) ==
  Holds(w) =>
    /\ claim_count[workers[w].run] >= 1
    /\ attempts[workers[w].run] \subseteq
         1..(MissesOf(claim_count[workers[w].run] - 1) + workers[w].stage - 1)

FitInv ==
  /\ \A r \in Run : RowFits(r)
  /\ \A w \in Worker : HolderFits(w)

\* The attempt rows of a run, over all its claims.
AttemptsBounded ==
  \A r \in Run : Cardinality(attempts[r]) <= MissesOf(MaxClaims) + 1

\* The report of a run's first claim never finds its ordinal taken.
FirstReportFits ==
  \A w \in Worker :
    workers[w].pc = "fail" /\ Holds(w) /\ claim_count[workers[w].run] = 1 => ~Collides(w)

LEMMA MissesGrow ==
  ASSUME NEW n \in Nat
  PROVE  /\ MissesOf(n) \in Nat
         /\ MissesOf(n + 1) = MissesOf(n) + (MaxStage - 1)
         /\ \A m \in Nat : m <= n => MissesOf(m) <= MissesOf(n)
<1> DEFINE k == MaxStage - 1
<1>1. k \in Nat
  BY RunsAssumption
<1> HIDE DEF k
<1>2. n * k \in Nat /\ (n + 1) * k = n * k + k
  BY <1>1
<1>3. ASSUME NEW m \in Nat, m <= n PROVE m * k <= n * k
  <2>1. PICK d \in Nat : n = m + d
    <3>1. n - m \in Nat /\ n = m + (n - m)
      BY <1>3
    <3> QED BY <3>1
  <2>2. n * k = m * k + d * k /\ d * k \in Nat /\ m * k \in Nat
    BY <1>1, <2>1
  <2> QED BY <2>2
<1> QED BY <1>2, <1>3 DEF MissesOf, k

\* Nothing is claimed or recorded, and whoever holds a run held it before, at
\* the same stage.
LEMMA FitStays ==
  ASSUME IndInv, FitInv, UNCHANGED <<attempts, claim_count>>,
         \A r \in Run : status[r] \in Terminal => status'[r] \in Terminal,
         \A w \in Worker : Holds(w)' =>
           /\ Holds(w)
           /\ workers'[w].run = workers[w].run
           /\ workers'[w].stage = workers[w].stage
  PROVE  FitInv'
<1>1. ASSUME NEW r \in Run PROVE RowFits(r)'
  <2>1. RowFits(r) /\ claim_count[r] \in Nat
    BY DEF FitInv, IndInv, TypeOK
  <2>2. MissesOf(claim_count[r]) \in Nat
    BY <2>1, MissesGrow
  <2> QED BY <2>1, <2>2 DEF RowFits
<1>2. ASSUME NEW w \in Worker PROVE HolderFits(w)'
  <2>1. HolderFits(w)
    BY DEF FitInv
  <2> QED BY <2>1 DEF HolderFits
<1> QED BY <1>1, <1>2 DEF FitInv

\* A worker moves along its route or stops, and nothing else happens to the runs.
LEMMA FitMoves ==
  ASSUME IndInv, FitInv, NEW w \in Worker, NEW next, Step(w, next),
         UNCHANGED <<attempts, claim_count, status, claim_token>>,
         \/ next.pc = "idle"
         \/ /\ workers[w].pc # "idle"
            /\ next.run = workers[w].run /\ next.token = workers[w].token
            /\ next.stage = workers[w].stage
  PROVE  FitInv'
<1>1. \A v \in Worker : workers'[v] = IF v = w THEN next ELSE workers[v]
  BY DEF Step, IndInv, TypeOK
<1>2. ASSUME NEW v \in Worker, Holds(v)'
      PROVE  /\ Holds(v) /\ workers'[v].run = workers[v].run
             /\ workers'[v].stage = workers[v].stage
  BY <1>1, <1>2 DEF Holds
<1> QED BY <1>2, FitStays

\* The worker that claims a run finds the rows of all the claims before.
LEMMA FitClaim ==
  ASSUME IndInv, FitInv, NEW w \in Worker, NEW r \in Run, Claim(w, r)
  PROVE  FitInv'
<1> DEFINE c == claim_count[r]
<1>1. /\ c \in Nat /\ claim_token[r] \in Nat /\ status[r] = "queued"
      /\ attempts' = attempts
      /\ \A q \in Run : claim_count'[q] = IF q = r THEN c + 1 ELSE claim_count[q]
      /\ \A q \in Run : claim_token'[q] =
           IF q = r THEN claim_token[r] + 1 ELSE claim_token[q]
      /\ \A q \in Run : status'[q] = IF q = r THEN "running" ELSE status[q]
  BY DEF Claim, Claimable, IndInv, TypeOK
<1>2. /\ workers'[w] = Claimed(r, claim_token[r] + 1)
      /\ \A v \in Worker \ {w} : workers'[v] = workers[v]
  BY DEF Claim, Step, IndInv, TypeOK
<1>3. /\ MissesOf(c) \in Nat /\ MissesOf(c + 1) \in Nat
      /\ MissesOf(c) <= MissesOf(c + 1)
      /\ attempts[r] \subseteq 1..MissesOf(c)
  <2>1. attempts[r] \subseteq 1..(MissesOf(c) + 0)
    BY <1>1 DEF FitInv, RowFits, Terminal
  <2>2. c + 1 \in Nat /\ c <= c + 1
    BY <1>1
  <2> QED BY <1>1, <2>1, <2>2, MissesGrow
<1>4. ASSUME NEW q \in Run PROVE RowFits(q)'
  <2>1. CASE q = r
    BY <1>1, <1>3, <2>1 DEF RowFits, Terminal
  <2>2. CASE q # r
    <3>1. RowFits(q)
      BY DEF FitInv
    <3> QED BY <1>1, <2>2, <3>1 DEF RowFits
  <2> QED BY <2>1, <2>2
<1>5. ASSUME NEW v \in Worker, Holds(v)' PROVE HolderFits(v)'
  <2>1. CASE v = w
    <3>1. workers'[v].run = r /\ workers'[v].stage = 1
      BY <1>2, <2>1 DEF Claimed
    <3>2. /\ claim_count'[r] >= 1 /\ claim_count'[r] - 1 = c
          /\ attempts'[r] \subseteq 1..MissesOf(c)
          /\ MissesOf(c) + 1 - 1 = MissesOf(c)
      BY <1>1, <1>3
    <3> QED BY <3>1, <3>2 DEF HolderFits
  <2>2. CASE v # w
    <3>1. workers'[v] = workers[v] /\ workers[v].pc # "idle"
      BY <1>2, <1>5, <2>2 DEF Holds
    <3>2. /\ workers[v].run \in Run /\ workers[v].token \in Nat
          /\ workers[v].token <= claim_token[workers[v].run]
          /\ claim_token[workers[v].run] \in Nat
      BY <3>1 DEF IndInv, WorkerOK, TypeOK, WorkerStates
    <3>3. workers[v].run # r
      BY <1>1, <1>5, <3>1, <3>2 DEF Holds
    <3>4. Holds(v)
      BY <1>1, <1>5, <3>1, <3>2, <3>3 DEF Holds
    <3> QED BY <1>1, <3>1, <3>2, <3>3, <3>4 DEF FitInv, HolderFits
  <2> QED BY <2>1, <2>2
<1> QED BY <1>4, <1>5 DEF FitInv, HolderFits

\* The rows of the holder's run are 1..k for a k within its share.
LEMMA HolderShare ==
  ASSUME IndInv, FitInv, NEW w \in Worker, Holds(w)
  PROVE  LET r == workers[w].run
             c == claim_count[r]
             n == workers[w].stage
         IN  /\ r \in Run /\ c \in Nat /\ c >= 1 /\ n \in Nat /\ n >= 1
             /\ n <= workers[w].chain /\ workers[w].chain <= MaxStage
             /\ MissesOf(c - 1) \in Nat
             /\ MissesOf(c) = MissesOf(c - 1) + (MaxStage - 1)
             /\ \E k \in Nat :
                  /\ k <= MissesOf(c - 1) + n - 1
                  /\ attempts[r] = 1..k
                  /\ attempts[r] \cup {NextOrdinal(r, n)} = 1..(k + 1)
                  /\ n \in 1..(k + 1)
<1> DEFINE r == workers[w].run
           c == claim_count[r]
           n == workers[w].stage
<1>1. /\ workers[w].pc # "idle" /\ r \in Run /\ c \in Nat /\ c >= 1
      /\ n \in Nat /\ n >= 1 /\ n <= workers[w].chain /\ workers[w].chain <= MaxStage
      /\ attempts[r] \subseteq 1..(MissesOf(c - 1) + n - 1)
  BY RunsAssumption DEF IndInv, WorkerOK, TypeOK, WorkerStates, Holds, FitInv, HolderFits
<1>2. PICK k \in Nat :
        /\ attempts[r] = 1..k
        /\ attempts[r] \cup {NextOrdinal(r, n)} = 1..(k + 1)
        /\ n \in 1..(k + 1)
  BY <1>1, RecordExtends
<1> HIDE DEF r, c, n
<1>3. /\ MissesOf(c - 1) \in Nat
      /\ MissesOf(c) = MissesOf(c - 1) + (MaxStage - 1)
  <2>1. c - 1 \in Nat /\ (c - 1) + 1 = c
    BY <1>1
  <2> QED BY <2>1, MissesGrow
<1>4. k <= MissesOf(c - 1) + n - 1
  <2>1. CASE k = 0
    BY <1>1, <1>3, <2>1
  <2>2. CASE k # 0
    <3>1. k \in attempts[r]
      BY <1>2, <2>2
    <3> QED BY <1>1, <3>1
  <2> QED BY <2>1, <2>2
<1> QED BY <1>1, <1>2, <1>3, <1>4 DEF r, c, n

\* A worker that holds the run has nobody beside it.
LEMMA FitMiss ==
  ASSUME IndInv, FitInv, NEW w \in Worker, RecordMiss(w), Holds(w)
  PROVE  FitInv'
<1> DEFINE me == workers[w]
           r == me.run
           n == me.stage
           c == claim_count[r]
           next == [me EXCEPT !.pc = "stage", !.stage = n + 1]
<1>1. /\ me \in WorkerStates /\ me.pc = "miss" /\ n < me.chain
      /\ attempts' = [attempts EXCEPT ![r] = @ \cup {NextOrdinal(r, n)}]
      /\ Step(w, next) /\ status[r] = "running"
      /\ UNCHANGED <<status, claim_count, claim_token>>
  BY DEF IndInv, TypeOK, WorkerOK, RecordMiss, Holds
<1>2. next.pc = "stage" /\ next.run = r /\ next.token = me.token /\ next.stage = n + 1
  BY <1>1 DEF WorkerStates
<1> HIDE DEF next
<1>3. \A v \in Worker : workers'[v] = IF v = w THEN next ELSE workers[v]
  BY <1>1 DEF Step, IndInv, TypeOK
<1>4. /\ r \in Run /\ c \in Nat /\ c >= 1 /\ n \in Nat /\ n >= 1
      /\ me.chain \in Nat /\ me.chain <= MaxStage /\ MaxStage \in Nat
      /\ MissesOf(c - 1) \in Nat
      /\ MissesOf(c) = MissesOf(c - 1) + (MaxStage - 1)
  BY <1>1, HolderShare, RunsAssumption DEF WorkerStates
<1>5. PICK k \in Nat : /\ k <= MissesOf(c - 1) + n - 1
                       /\ attempts[r] \cup {NextOrdinal(r, n)} = 1..(k + 1)
  BY HolderShare
<1>6. \A q \in Run : attempts'[q] = IF q = r THEN 1..(k + 1) ELSE attempts[q]
  BY <1>1, <1>4, <1>5 DEF IndInv, TypeOK
<1> HIDE DEF r, n, c
<1>7. ASSUME NEW q \in Run PROVE RowFits(q)'
  <2>1. CASE q = r
    <3>1. k + 1 <= MissesOf(c)
      BY <1>1, <1>4, <1>5
    <3>2. attempts'[r] \subseteq 1..(MissesOf(c) + 0)
      BY <1>4, <1>6, <3>1
    <3>3. status'[r] \notin Terminal /\ claim_count'[r] = c
      BY <1>1 DEF Terminal, c
    <3> QED BY <2>1, <3>2, <3>3 DEF RowFits
  <2>2. CASE q # r
    <3>1. RowFits(q)
      BY DEF FitInv
    <3> QED BY <1>1, <1>6, <2>2, <3>1 DEF RowFits
  <2> QED BY <2>1, <2>2
<1>8. ASSUME NEW v \in Worker, Holds(v)' PROVE HolderFits(v)'
  <2>1. CASE v = w
    <3>1. k + 1 <= MissesOf(c - 1) + (n + 1) - 1
      BY <1>4, <1>5
    <3>2. attempts'[r] \subseteq 1..(MissesOf(c - 1) + (n + 1) - 1)
      BY <1>4, <1>6, <3>1
    <3>3. /\ workers'[v].run = r /\ workers'[v].stage = n + 1
          /\ claim_count'[r] = c
      BY <1>1, <1>2, <1>3, <2>1 DEF c
    <3> QED BY <1>4, <3>2, <3>3 DEF HolderFits
  <2>2. CASE v # w
    <3>1. workers'[v] = workers[v] /\ Holds(v)
      BY <1>1, <1>3, <1>8, <2>2 DEF Holds
    <3>2. workers[v].run # r /\ workers[v].run \in Run
      BY <2>2, <3>1 DEF Holds, IndInv, TokensDiffer, WorkerOK, r
    <3> QED BY <1>1, <1>6, <3>1, <3>2 DEF FitInv, HolderFits
  <2> QED BY <2>1, <2>2
<1> QED BY <1>7, <1>8 DEF FitInv, HolderFits

\* The row of the outcome is the last one.
LEMMA FitFinish ==
  ASSUME IndInv, FitInv, NEW w \in Worker, FinishSuccess(w) \/ FinishFailure(w)
  PROVE  FitInv'
<1> DEFINE r == workers[w].run
           n == workers[w].stage
           c == claim_count[r]
<1>1. /\ Holds(w) /\ Step(w, Idle) /\ UNCHANGED <<claim_count, claim_token>>
      /\ \E end \in Terminal : status' = [status EXCEPT ![r] = end]
  BY DEF FinishSuccess, FinishFailure, Terminal
<1>2. /\ r \in Run /\ c \in Nat /\ c >= 1 /\ n \in Nat /\ n <= MaxStage
      /\ MaxStage \in Nat
      /\ MissesOf(c - 1) \in Nat
      /\ MissesOf(c) = MissesOf(c - 1) + (MaxStage - 1)
  <2>1. workers[w].chain \in Nat
    BY DEF IndInv, TypeOK, WorkerStates
  <2> HIDE DEF r, c, n
  <2> QED BY <1>1, <2>1, HolderShare, RunsAssumption DEF r, c, n
<1>3. PICK k \in Nat : /\ k <= MissesOf(c - 1) + n - 1
                       /\ attempts[r] = 1..k
                       /\ attempts[r] \cup {NextOrdinal(r, n)} = 1..(k + 1)
                       /\ n \in 1..(k + 1)
  BY <1>1, HolderShare
<1>4. /\ \A q \in Run \ {r} : attempts'[q] = attempts[q]
      /\ attempts'[r] \subseteq 1..(k + 1)
  BY <1>2, <1>3 DEF FinishSuccess, FinishFailure, IndInv, TypeOK
<1>5. \A v \in Worker : workers'[v] = IF v = w THEN Idle ELSE workers[v]
  BY <1>1 DEF Step, IndInv, TypeOK
<1>6. /\ status'[r] \in Terminal
      /\ \A q \in Run \ {r} : status'[q] = status[q]
  BY <1>1, <1>2 DEF IndInv, TypeOK
<1> HIDE DEF r, n, c
<1>7. ASSUME NEW q \in Run PROVE RowFits(q)'
  <2>1. CASE q = r
    <3>1. k + 1 <= MissesOf(c) + 1
      BY <1>2, <1>3
    <3>2. attempts'[r] \subseteq 1..(MissesOf(c) + 1)
      BY <1>2, <1>4, <3>1
    <3> QED BY <1>1, <1>6, <2>1, <3>2 DEF RowFits, c
  <2>2. CASE q # r
    <3>1. RowFits(q)
      BY DEF FitInv
    <3> QED BY <1>1, <1>4, <1>6, <2>2, <3>1 DEF RowFits
  <2> QED BY <2>1, <2>2
<1>8. ASSUME NEW v \in Worker, Holds(v)' PROVE HolderFits(v)'
  <2>1. v # w
    BY <1>5, <1>8, IdleType DEF Holds
  <2>2. workers'[v] = workers[v] /\ workers[v].pc # "idle"
    BY <1>5, <1>8, <2>1 DEF Holds
  <2>3. workers[v].run \in Run
    BY <2>2 DEF IndInv, WorkerOK
  <2>4. workers[v].run # r
    BY <1>6, <1>8, <2>2 DEF Holds, Terminal
  <2>5. Holds(v)
    BY <1>1, <1>6, <1>8, <2>2, <2>3, <2>4 DEF Holds
  <2> QED BY <1>1, <1>4, <2>2, <2>3, <2>4, <2>5 DEF FitInv, HolderFits
<1> QED BY <1>7, <1>8 DEF FitInv, HolderFits

LEMMA FitNext ==
  ASSUME IndInv, FitInv, [Next]_vars
  PROVE  FitInv'
<1>1. ASSUME NEW r \in Run,
             \/ Create(r) \/ Dispatch(r) \/ LoseMessage(r)
             \/ LeaseExpires(r) \/ Recover(r)
      PROVE  FitInv'
  <2>1. /\ UNCHANGED <<attempts, claim_count, claim_token, workers>>
        /\ \A q \in Run : status[q] \in Terminal => status'[q] \in Terminal
        /\ \A q \in Run : status'[q] = "running" => status[q] = "running"
    BY <1>1 DEF Create, Dispatch, LoseMessage, LeaseExpires, Recover, runVars,
                IndInv, TypeOK, Terminal
  <2>2. ASSUME NEW w \in Worker, Holds(w)' PROVE Holds(w)
    <3>1. workers[w].pc # "idle"
      BY <2>1, <2>2 DEF Holds
    <3>2. workers[w].run \in Run
      BY <3>1 DEF IndInv, WorkerOK
    <3> QED BY <2>1, <2>2, <3>2 DEF Holds
  <2> QED BY <2>1, <2>2, FitStays
<1>2. ASSUME NEW w \in Worker, NEW r \in Run, ClaimRefused(w, r) \/ Discard(w, r)
      PROVE  FitInv'
  <2>1. /\ UNCHANGED <<attempts, claim_count, claim_token, workers>>
        /\ \A q \in Run : status[q] \in Terminal => status'[q] \in Terminal
        /\ \A q \in Run : status'[q] = "running" => status[q] = "running"
    BY <1>2 DEF ClaimRefused, Discard, runVars, IndInv, TypeOK, Terminal
  <2>2. ASSUME NEW v \in Worker, Holds(v)' PROVE Holds(v)
    <3>1. workers[v].pc # "idle"
      BY <2>1, <2>2 DEF Holds
    <3>2. workers[v].run \in Run
      BY <3>1 DEF IndInv, WorkerOK
    <3> QED BY <2>1, <2>2, <3>2 DEF Holds
  <2> QED BY <2>1, <2>2, FitStays
<1>3. ASSUME NEW w \in Worker, NEW next, Step(w, next), workers[w].pc # "idle",
             UNCHANGED <<attempts, claim_count, status, claim_token>>,
             \/ next.pc = "idle"
             \/ /\ next.run = workers[w].run /\ next.token = workers[w].token
                /\ next.stage = workers[w].stage
      PROVE  FitInv'
  BY <1>3, FitMoves
<1>4. ASSUME NEW w \in Worker
      PROVE  workers[w] \in WorkerStates
  BY DEF IndInv, TypeOK
<1>5. ASSUME NEW w \in Worker, NEW code, FailStep(w, code), workers[w].pc # "idle",
             UNCHANGED <<attempts, claim_count, status, claim_token>>
      PROVE  FitInv'
  <2> DEFINE next == [workers[w] EXCEPT !.pc = "fail", !.code = code]
  <2>1. /\ next.run = workers[w].run /\ next.token = workers[w].token
        /\ next.stage = workers[w].stage
    BY <1>4 DEF WorkerStates
  <2>2. Step(w, next)
    BY <1>5 DEF FailStep
  <2> HIDE DEF next
  <2> QED BY <1>3, <1>5, <2>1, <2>2
<1>6. ASSUME NEW w \in Worker, Gate(w) PROVE FitInv'
  <2>1. /\ workers[w].pc = "gate"
        /\ UNCHANGED <<attempts, claim_count, status, claim_token>>
    BY <1>6 DEF Gate, runVars
  <2>2. CASE FailStep(w, "skipped")
    BY <1>5, <2>1, <2>2
  <2>3. ASSUME NEW n \in 1..MaxStage,
               Step(w, [workers[w] EXCEPT !.pc = "stage", !.chain = n, !.gate = "closed"])
        PROVE  FitInv'
    <3> DEFINE next == [workers[w] EXCEPT !.pc = "stage", !.chain = n, !.gate = "closed"]
    <3>1. /\ next.run = workers[w].run /\ next.token = workers[w].token
          /\ next.stage = workers[w].stage
      BY <1>4 DEF WorkerStates
    <3>2. Step(w, next)
      BY <2>3
    <3> HIDE DEF next
    <3> QED BY <1>3, <2>1, <3>1, <3>2
  <2>4. ASSUME NEW n \in 1..MaxStage,
               Step(w, [workers[w] EXCEPT !.pc = "probe", !.chain = n])
        PROVE  FitInv'
    <3> DEFINE next == [workers[w] EXCEPT !.pc = "probe", !.chain = n]
    <3>1. /\ next.run = workers[w].run /\ next.token = workers[w].token
          /\ next.stage = workers[w].stage
      BY <1>4 DEF WorkerStates
    <3>2. Step(w, next)
      BY <2>4
    <3> HIDE DEF next
    <3> QED BY <1>3, <2>1, <3>1, <3>2
  <2> QED BY <1>6, <2>2, <2>3, <2>4 DEF Gate
<1>7. ASSUME NEW w \in Worker, ClaimProbe(w) PROVE FitInv'
  <2> DEFINE next == [workers[w] EXCEPT !.pc = "stage", !.gate = "probe"]
  <2>1. /\ workers[w].pc = "probe"
        /\ UNCHANGED <<attempts, claim_count, status, claim_token>>
        /\ FailStep(w, "skipped") \/ Step(w, next)
    BY <1>7 DEF ClaimProbe, runVars
  <2>2. /\ next.run = workers[w].run /\ next.token = workers[w].token
        /\ next.stage = workers[w].stage
    BY <1>4 DEF WorkerStates
  <2> HIDE DEF next
  <2> QED BY <1>3, <1>5, <2>1, <2>2
<1>8. ASSUME NEW w \in Worker, RunStage(w) PROVE FitInv'
  <2> DEFINE missed == [workers[w] EXCEPT !.pc = "miss"]
             accepted == [workers[w] EXCEPT !.pc = "accept"]
  <2>1. /\ workers[w].pc = "stage"
        /\ UNCHANGED <<attempts, claim_count, status, claim_token>>
        /\ \/ \E code \in Codes : FailStep(w, code)
           \/ Step(w, missed) \/ Step(w, accepted)
    BY <1>8 DEF RunStage, runVars, Codes
  <2>2. /\ missed.run = workers[w].run /\ missed.token = workers[w].token
        /\ missed.stage = workers[w].stage
        /\ accepted.run = workers[w].run /\ accepted.token = workers[w].token
        /\ accepted.stage = workers[w].stage
    BY <1>4 DEF WorkerStates
  <2> HIDE DEF missed, accepted
  <2> QED BY <1>3, <1>5, <2>1, <2>2
<1>9. ASSUME NEW w \in Worker, RecordMiss(w) PROVE FitInv'
  <2>1. CASE Holds(w)
    BY <1>9, <2>1, FitMiss
  <2>2. CASE ~Holds(w)
    BY <1>5, <1>9, <2>2 DEF RecordMiss
  <2> QED BY <2>1, <2>2
<1>10. ASSUME NEW w \in Worker, Unexpected(w) PROVE FitInv'
  BY <1>5, <1>10 DEF Unexpected, runVars
<1>11. ASSUME NEW w \in Worker, AbortFailure(w) \/ GiveUp(w) \/ Crash(w) PROVE FitInv'
  <2>1. /\ workers[w].pc # "idle" /\ Step(w, Idle)
        /\ UNCHANGED <<attempts, claim_count, status, claim_token>>
    BY <1>11 DEF AbortFailure, GiveUp, Crash, runVars
  <2> QED BY <1>3, <2>1, IdleType
<1>12. ASSUME NEW w \in Worker, Heartbeat(w) PROVE FitInv'
  BY <1>12, FitStays DEF Heartbeat, Holds
<1>13. CASE \/ \E s \in Source : WindowElapses(s)
            \/ \E s \in Source, target \in {"active", "paused", "deleted"} :
                 SetSourceStatus(s, target)
            \/ UNCHANGED vars
  BY <1>13, FitStays DEF WindowElapses, SetSourceStatus, vars, runVars, Holds
<1> QED
  BY <1>1, <1>2, <1>6, <1>7, <1>8, <1>9, <1>10, <1>11, <1>12, <1>13, FitClaim, FitFinish
     DEF Next, TakeMessage, WorkerStep

LEMMA FitInit == Init => FitInv
<1> SUFFICES ASSUME Init PROVE FitInv
  OBVIOUS
<1>1. \A w \in Worker : ~Holds(w)
  BY IdleType DEF Init, Holds
<1> QED BY <1>1 DEF Init, FitInv, RowFits, HolderFits

LEMMA FitInductive == Spec => []FitInv
<1>1. IndInv /\ FitInv /\ [Next]_vars => FitInv'
  BY FitNext
<1> QED BY <1>1, FitInit, Inductive, PTL DEF Spec

\* A run leaves at most MaxClaims * (MaxStage - 1) + 1 attempt rows, whoever
\* claims and loses it: every claim can miss all the stages of its route but the
\* last, and the outcome is recorded once.
THEOREM AttemptsAreBounded == Spec => []AttemptsBounded
<1>1. IndInv /\ FitInv => AttemptsBounded
  <2> SUFFICES ASSUME IndInv, FitInv, NEW r \in Run
               PROVE  Cardinality(attempts[r]) <= MissesOf(MaxClaims) + 1
    BY DEF AttemptsBounded
  <2>1. /\ claim_count[r] \in Nat /\ claim_count[r] <= MaxClaims /\ MaxClaims \in Nat
    BY RunsAssumption DEF IndInv, TypeOK, RowOK
  <2>2. /\ MissesOf(claim_count[r]) \in Nat /\ MissesOf(MaxClaims) \in Nat
        /\ MissesOf(claim_count[r]) <= MissesOf(MaxClaims)
    BY <2>1, MissesGrow
  <2>3. PICK k \in Nat : attempts[r] = 1..k
    BY DEF IndInv, RowOK
  <2>4. Cardinality(attempts[r]) = k
    BY <2>3, FS_Interval
  <2>5. attempts[r] \subseteq 1..(MissesOf(claim_count[r]) + 1)
    BY <2>2 DEF FitInv, RowFits
  <2>6. k <= MissesOf(claim_count[r]) + 1
    <3>1. CASE k = 0
      BY <2>2, <3>1
    <3>2. CASE k # 0
      <4>1. k \in attempts[r]
        BY <2>3, <3>2
      <4> QED BY <2>2, <2>5, <4>1
    <3> QED BY <3>1, <3>2
  <2> QED BY <2>2, <2>4, <2>6
<1> QED BY <1>1, Inductive, FitInductive, PTL

\* The failure report finds its ordinal taken only in a run that was claimed
\* before: the first claim has recorded the stages before its own and no other.
\* (finish_failure, and the unique index it runs into)
THEOREM FirstClaimReports == Spec => []FirstReportFits
<1>1. IndInv /\ FitInv => FirstReportFits
  <2> SUFFICES ASSUME IndInv, FitInv, NEW w \in Worker, Holds(w),
                      claim_count[workers[w].run] = 1
               PROVE  workers[w].stage \notin attempts[workers[w].run]
    BY DEF FirstReportFits, Collides
  <2>1. attempts[workers[w].run] \subseteq 1..(MissesOf(0) + workers[w].stage - 1)
    BY DEF FitInv, HolderFits
  <2>2. MissesOf(0) = 0 /\ workers[w].stage \in Nat
    BY RunsAssumption DEF MissesOf, IndInv, TypeOK, WorkerStates
  <2> QED BY <2>1, <2>2
<1> QED BY <1>1, Inductive, FitInductive, PTL

--------------------------------------------------------------------------------
(* Half-open probes.                                                          *)

\* A probe is over before the window it opened, 60 s long, has passed.
ProbesInTime ==
  [][\A s \in Source : WindowElapses(s) =>
       \A w \in Worker : workers[w].gate = "probe" => SourceOfWorker(w) # s]_vars

ProbeInv ==
  /\ OneProbeAtATime
  /\ \A w \in Worker : workers[w].gate = "probe" =>
       /\ workers[w].run \in Run
       /\ state[SourceOfWorker(w)].circuit # "elapsed"

\* No worker becomes a probe and no window elapses.
LEMMA ProbesStay ==
  ASSUME IndInv, ProbeInv,
         \A w \in Worker : workers'[w].gate = "probe" =>
           workers[w].gate = "probe" /\ workers'[w].run = workers[w].run,
         \A s \in Source : state'[s].circuit = "elapsed" => state[s].circuit = "elapsed"
  PROVE  ProbeInv'
<1>1. OneProbeAtATime'
  BY DEF ProbeInv, OneProbeAtATime, SourceOfWorker
<1>2. ASSUME NEW w \in Worker, workers'[w].gate = "probe"
      PROVE  /\ workers'[w].run \in Run
             /\ state'[SourceOf[workers'[w].run]].circuit # "elapsed"
  <2>1. workers[w].gate = "probe" /\ workers'[w].run = workers[w].run
    BY <1>2
  <2>2. workers[w].run \in Run /\ state[SourceOf[workers[w].run]].circuit # "elapsed"
    BY <2>1 DEF ProbeInv, SourceOfWorker
  <2>3. SourceOf[workers[w].run] \in Source
    BY <2>2, RunsAssumption
  <2> QED BY <2>1, <2>2, <2>3
<1> QED BY <1>1, <1>2 DEF ProbeInv, SourceOfWorker

\* One worker steps without becoming a probe.
LEMMA ProbesStayBut ==
  ASSUME IndInv, ProbeInv, NEW w \in Worker, NEW next, Step(w, next),
         next.gate = "probe" => workers[w].gate = "probe" /\ next.run = workers[w].run,
         \A s \in Source : state'[s].circuit = "elapsed" => state[s].circuit = "elapsed"
  PROVE  ProbeInv'
<1>1. \A v \in Worker : workers'[v] = IF v = w THEN next ELSE workers[v]
  BY DEF Step, IndInv, TypeOK
<1> QED BY <1>1, ProbesStay

LEMMA ProbeNext ==
  ASSUME IndInv, ProbeInv, [Next]_vars,
         [\A s \in Source : WindowElapses(s) =>
            \A w \in Worker : workers[w].gate = "probe" => SourceOfWorker(w) # s]_vars
  PROVE  ProbeInv'
<1>1. ASSUME NEW w \in Worker
      PROVE  workers[w] \in WorkerStates
  BY DEF IndInv, TypeOK
<1>2. state \in [Source -> SourceStates]
  BY DEF IndInv, TypeOK
<1>3. ASSUME NEW w \in Worker, NEW next, Step(w, next), state' = state,
             next.gate = "probe" => workers[w].gate = "probe" /\ next.run = workers[w].run
      PROVE  ProbeInv'
  BY <1>3, ProbesStayBut
<1>4. ASSUME UNCHANGED <<workers, state>> PROVE ProbeInv'
  BY <1>4, ProbesStay
<1>5. ASSUME NEW w \in Worker, NEW code, FailStep(w, code), state' = state
      PROVE  ProbeInv'
  <2> DEFINE next == [workers[w] EXCEPT !.pc = "fail", !.code = code]
  <2>1. next.gate = workers[w].gate /\ next.run = workers[w].run
    BY <1>1 DEF WorkerStates
  <2>2. Step(w, next)
    BY <1>5 DEF FailStep
  <2> HIDE DEF next
  <2> QED BY <1>3, <1>5, <2>1, <2>2
<1>6. ASSUME NEW r \in Run,
             \/ Create(r) \/ Dispatch(r) \/ LoseMessage(r)
             \/ LeaseExpires(r) \/ Recover(r)
      PROVE  ProbeInv'
  BY <1>4, <1>6 DEF Create, Dispatch, LoseMessage, LeaseExpires, Recover
<1>7. ASSUME NEW w \in Worker, NEW r \in Run, TakeMessage(w, r) PROVE ProbeInv'
  <2>1. CASE Claim(w, r)
    <3> DEFINE next == Claimed(r, claim_token[r] + 1)
    <3>1. next.gate = "none"
      BY DEF Claimed
    <3>2. Step(w, next) /\ state' = state
      BY <2>1 DEF Claim
    <3> HIDE DEF next
    <3> QED BY <1>3, <3>1, <3>2
  <2> QED BY <1>4, <1>7, <2>1 DEF TakeMessage, ClaimRefused, Discard
<1>8. ASSUME NEW w \in Worker, Gate(w) PROVE ProbeInv'
  <2>1. state' = state /\ workers[w].pc = "gate"
    BY <1>8 DEF Gate
  <2>2. ASSUME NEW n,
               Step(w, [workers[w] EXCEPT !.pc = "stage", !.chain = n, !.gate = "closed"])
        PROVE  ProbeInv'
    <3> DEFINE next == [workers[w] EXCEPT !.pc = "stage", !.chain = n, !.gate = "closed"]
    <3>1. next.gate = "closed"
      BY <1>1 DEF WorkerStates
    <3>2. Step(w, next)
      BY <2>2
    <3> HIDE DEF next
    <3> QED BY <1>3, <2>1, <3>1, <3>2
  <2>3. ASSUME NEW n, Step(w, [workers[w] EXCEPT !.pc = "probe", !.chain = n])
        PROVE  ProbeInv'
    <3> DEFINE next == [workers[w] EXCEPT !.pc = "probe", !.chain = n]
    <3>1. next.gate = workers[w].gate /\ next.run = workers[w].run
      BY <1>1 DEF WorkerStates
    <3>2. Step(w, next)
      BY <2>3
    <3> HIDE DEF next
    <3> QED BY <1>3, <2>1, <3>1, <3>2
  <2> QED BY <1>5, <1>8, <2>1, <2>2, <2>3 DEF Gate
<1>9. ASSUME NEW w \in Worker, ClaimProbe(w) PROVE ProbeInv'
  <2> DEFINE s == SourceOf[workers[w].run]
             next == [workers[w] EXCEPT !.pc = "stage", !.gate = "probe"]
  <2>1. CASE state[s].circuit # "elapsed" /\ FailStep(w, "skipped") /\ UNCHANGED state
    BY <1>5, <2>1
  <2>2. CASE /\ state[s].circuit = "elapsed"
             /\ state' = [state EXCEPT ![s].circuit = "open"]
             /\ Step(w, next)
    <3>1. workers[w].run \in Run /\ s \in Source
      BY <1>9, RunsAssumption DEF ClaimProbe, IndInv, WorkerOK
    <3>2. next.gate = "probe" /\ next.run = workers[w].run
      BY <1>1 DEF WorkerStates
    <3> HIDE DEF next
    <3>3. \A v \in Worker : workers'[v] = IF v = w THEN next ELSE workers[v]
      BY <2>2 DEF Step, IndInv, TypeOK
    <3>4. /\ state'[s].circuit = "open"
          /\ \A q \in Source \ {s} : state'[q] = state[q]
      BY <1>2, <2>2, <3>1 DEF SourceStates
    <3>5. ASSUME NEW v \in Worker \ {w}, workers[v].gate = "probe"
          PROVE  workers[v].run \in Run /\ SourceOf[workers[v].run] \in Source \ {s}
      <4>1. workers[v].run \in Run /\ state[SourceOf[workers[v].run]].circuit # "elapsed"
        BY <3>5 DEF ProbeInv, SourceOfWorker
      <4> QED BY <2>2, <4>1, RunsAssumption
    <3>6. OneProbeAtATime'
      <4> SUFFICES ASSUME NEW u \in Worker, NEW v \in Worker,
                          workers'[u].gate = "probe", workers'[v].gate = "probe",
                          SourceOf[workers'[u].run] = SourceOf[workers'[v].run]
                   PROVE  u = v
        BY DEF OneProbeAtATime, SourceOfWorker
      <4> HIDE DEF s
      <4>1. CASE u # w /\ v # w
        BY <3>3, <4>1 DEF ProbeInv, OneProbeAtATime, SourceOfWorker
      <4>2. CASE u = w /\ v # w
        <5>1. SourceOf[workers'[u].run] = s
          BY <3>2, <3>3, <4>2 DEF s
        <5>2. SourceOf[workers'[v].run] # s
          BY <3>3, <3>5, <4>2
        <5> QED BY <5>1, <5>2
      <4>3. CASE u # w /\ v = w
        <5>1. SourceOf[workers'[v].run] = s
          BY <3>2, <3>3, <4>3 DEF s
        <5>2. SourceOf[workers'[u].run] # s
          BY <3>3, <3>5, <4>3
        <5> QED BY <5>1, <5>2
      <4> QED BY <4>1, <4>2, <4>3
    <3>7. ASSUME NEW v \in Worker, workers'[v].gate = "probe"
          PROVE  /\ workers'[v].run \in Run
                 /\ state'[SourceOf[workers'[v].run]].circuit # "elapsed"
      <4>1. CASE v = w
        BY <3>1, <3>2, <3>3, <3>4, <4>1
      <4>2. CASE v # w
        <5>1. workers'[v] = workers[v] /\ workers[v].gate = "probe"
          BY <3>3, <3>7, <4>2
        <5>2. state[SourceOf[workers[v].run]].circuit # "elapsed"
          BY <5>1 DEF ProbeInv, SourceOfWorker
        <5> QED BY <3>4, <3>5, <4>2, <5>1, <5>2
      <4> QED BY <4>1, <4>2
    <3> QED BY <3>6, <3>7 DEF ProbeInv, SourceOfWorker
  <2> QED BY <1>9, <2>1, <2>2 DEF ClaimProbe, SourceOfWorker
<1>10. ASSUME NEW w \in Worker, RunStage(w) PROVE ProbeInv'
  <2> DEFINE missed == [workers[w] EXCEPT !.pc = "miss"]
             accepted == [workers[w] EXCEPT !.pc = "accept"]
  <2>1. /\ state' = state
        /\ \/ \E code \in Codes : FailStep(w, code)
           \/ Step(w, missed) \/ Step(w, accepted)
    BY <1>10 DEF RunStage, Codes
  <2>2. /\ missed.run = workers[w].run /\ missed.gate = workers[w].gate
        /\ accepted.run = workers[w].run /\ accepted.gate = workers[w].gate
    BY <1>1 DEF WorkerStates
  <2> HIDE DEF missed, accepted
  <2> QED BY <1>3, <1>5, <2>1, <2>2
<1>11. ASSUME NEW w \in Worker, RecordMiss(w) PROVE ProbeInv'
  <2> DEFINE next == [workers[w] EXCEPT !.pc = "stage", !.stage = workers[w].stage + 1]
  <2>1. state' = state /\ (FailStep(w, "counted") \/ Step(w, next))
    BY <1>11 DEF RecordMiss
  <2>2. next.run = workers[w].run /\ next.gate = workers[w].gate
    BY <1>1 DEF WorkerStates
  <2> HIDE DEF next
  <2> QED BY <1>3, <1>5, <2>1, <2>2
<1>12. ASSUME NEW w \in Worker, Unexpected(w) PROVE ProbeInv'
  BY <1>5, <1>12 DEF Unexpected
<1>13. Idle.gate = "none"
  BY DEF Idle
<1>14. ASSUME NEW w \in Worker, AbortFailure(w) \/ GiveUp(w) \/ Crash(w) PROVE ProbeInv'
  <2>1. Step(w, Idle) /\ state' = state
    BY <1>14 DEF AbortFailure, GiveUp, Crash
  <2> QED BY <1>3, <1>13, <2>1
<1>15. ASSUME NEW w \in Worker, FinishSuccess(w) \/ FinishFailure(w) PROVE ProbeInv'
  <2> DEFINE s == SourceOf[workers[w].run]
             st == state[s]
  <2>1. Step(w, Idle) /\ workers[w].run \in Run /\ s \in Source
    BY <1>15, RunsAssumption DEF FinishSuccess, FinishFailure, Holds, IndInv, WorkerOK
  <2>2. AfterSuccess(st).circuit = "closed"
    BY DEF AfterSuccess
  <2>3. \A counted : AfterFailure(st, counted).circuit \in {"open", st.circuit}
    BY DEF AfterFailure
  <2>4. PICK new : /\ state' = [state EXCEPT ![s] = new]
                   /\ new.circuit = "elapsed" => st.circuit = "elapsed"
    <3>1. CASE FinishSuccess(w)
      <4>1. state' = [state EXCEPT ![s] = AfterSuccess(st)]
        BY <3>1 DEF FinishSuccess
      <4> QED BY <2>2, <4>1
    <3>2. CASE FinishFailure(w)
      <4> DEFINE counted == workers[w].code = "counted"
                 new == IF workers[w].code = "skipped" THEN st ELSE AfterFailure(st, counted)
      <4>1. state' = [state EXCEPT ![s] = new]
        BY <3>2 DEF FinishFailure
      <4>2. AfterFailure(st, counted).circuit \in {"open", st.circuit}
        BY <2>3
      <4>3. new.circuit = "elapsed" => st.circuit = "elapsed"
        BY <4>2
      <4> HIDE DEF new
      <4> QED BY <4>1, <4>3
    <3> QED BY <1>15, <3>1, <3>2
  <2>5. \A q \in Source : state'[q].circuit = "elapsed" => state[q].circuit = "elapsed"
    BY <1>2, <2>1, <2>4
  <2> QED BY <1>13, <2>1, <2>5, ProbesStayBut
<1>16. ASSUME NEW w \in Worker, Heartbeat(w) PROVE ProbeInv'
  BY <1>4, <1>16 DEF Heartbeat
<1>17. ASSUME NEW s \in Source, WindowElapses(s) PROVE ProbeInv'
  <2>1. /\ state' = [state EXCEPT ![s].circuit = "elapsed"] /\ workers' = workers
        /\ state[s].circuit = "open"
    BY <1>17 DEF WindowElapses
  <2>2. \A q \in Source \ {s} : state'[q] = state[q]
    BY <1>2, <2>1
  <2>3. state' # state
    BY <1>2, <2>1 DEF SourceStates
  <2>4. \A w \in Worker : workers[w].gate = "probe" => SourceOfWorker(w) # s
    BY <1>17, <2>3 DEF vars
  <2>5. OneProbeAtATime'
    BY <2>1 DEF ProbeInv, OneProbeAtATime, SourceOfWorker
  <2>6. ASSUME NEW w \in Worker, workers'[w].gate = "probe"
        PROVE  /\ workers'[w].run \in Run
               /\ state'[SourceOf[workers'[w].run]].circuit # "elapsed"
    <3>1. workers[w].run \in Run /\ SourceOf[workers[w].run] # s
      BY <2>1, <2>4, <2>6 DEF ProbeInv, SourceOfWorker
    <3>2. SourceOf[workers[w].run] \in Source \ {s}
      BY <3>1, RunsAssumption
    <3> QED BY <2>1, <2>2, <2>6, <3>1, <3>2 DEF ProbeInv, SourceOfWorker
  <2> QED BY <2>5, <2>6 DEF ProbeInv, SourceOfWorker
<1>18. CASE \/ \E s \in Source, target \in {"active", "paused", "deleted"} :
                 SetSourceStatus(s, target)
            \/ UNCHANGED vars
  BY <1>4, <1>18 DEF SetSourceStatus, vars
<1> QED
  BY <1>6, <1>7, <1>8, <1>9, <1>10, <1>11, <1>12, <1>14, <1>15, <1>16, <1>17, <1>18
     DEF Next, WorkerStep

\* The cause of a second probe, and all of it: as long as every probe is over
\* before its window has passed, at most one run of a source probes at a time.
\* (acquisition_route.py:206-208)
THEOREM TimelyProbesAreAlone ==
  Spec /\ ProbesInTime => []OneProbeAtATime
<1> DEFINE InTime == \A s \in Source : WindowElapses(s) =>
             \A w \in Worker : workers[w].gate = "probe" => SourceOfWorker(w) # s
<1>1. Init => ProbeInv
  BY DEF Init, Idle, ProbeInv, OneProbeAtATime
<1>2. IndInv /\ ProbeInv /\ [Next]_vars /\ [InTime]_vars => ProbeInv'
  BY ProbeNext
<1>3. ProbeInv => OneProbeAtATime
  BY DEF ProbeInv
<1> QED BY <1>1, <1>2, <1>3, Inductive, PTL DEF Spec, ProbesInTime

================================================================================
