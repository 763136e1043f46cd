-------------------------- MODULE DiscoveryCrawl_proofs --------------------------
(******************************************************************************)
(* The crawl's document stays sound and typed, only a worker entitled by its  *)
(* claim and by the crawl lease writes it, and as long as no acquisition has  *)
(* replaced a document it had not read, no URL is forgotten and the records   *)
(* of every URL agree with the document.  All of it for any number of         *)
(* workers, runs and URLs, and any caps.                                      *)
(******************************************************************************)
EXTENDS DiscoveryCrawl, Frontier_proofs

--------------------------------------------------------------------------------
(* The inductive invariant: what every worker carries between its steps.      *)

\* Documents that could be stored, a finite plan, a run once it is busy, and a
\* page that the document it read has an entry for.
Carries(me) ==
  /\ Document(me.doc)
  /\ Document(me.next)
  /\ IsFiniteSet(me.entries)
  /\ me.pc # "idle" => me.run \in Run
  /\ me.pc = "page" => me.url \in me.doc.frontier

\* The pending document is the one the worker read, changed for its purpose.
Prepared(me) ==
  \/ me.purpose = "acquire" /\ Grown(me.doc, me.next) /\ me.next.lease = me.run
  \/ me.purpose = "release" /\ Grown(me.doc, me.next) /\ me.next.lease = NoRun
  \/ /\ me.purpose = "crawled" /\ me.url \in me.doc.frontier
     /\ Consumed(me.doc, me.url, me.next)
  \/ /\ me.purpose = "failed" /\ me.url \in me.doc.frontier
     /\ Missed(me.doc, me.url, me.next)

\* The worker has the crawl lease, or had it when it last looked.
Acquired(me) ==
  \/ me.pc \in {"loop", "page"}
  \/ me.pc \in {"cas", "reread"} /\ me.purpose # "acquire"

\* What a worker saw of the version and of the lease: it still holds while the
\* version is the one it read.
Sees(me) ==
  /\ me.version <= version
  /\ Acquired(me) => me.doc.lease = me.run
  /\ Acquired(me) /\ me.pc # "reread" /\ me.version = version => doc.lease = me.run
  /\ me.pc = "cas" /\ me.purpose = "acquire" /\ me.version = version
       => ~HeldElsewhere(me.run)

WorkerOK(me) ==
  /\ Carries(me)
  /\ me.pc \in {"cas", "reread"} => Prepared(me)
  /\ Sees(me)

IndInv ==
  /\ TypeOK
  /\ Document(doc)
  /\ \A w \in Worker : WorkerOK(workers[w])

--------------------------------------------------------------------------------
(* Lemmas about the workers.                                                  *)

\* A worker that is idle, or on its way to report, is in order.
LEMMA LeavingIsOK ==
  ASSUME TypeOK, NEW r \in Run, NEW t \in Nat
  PROVE  LET me == [Idle EXCEPT !.pc = "finish", !.run = r, !.token = t] IN
         me \in WorkerStates /\ WorkerOK(me) /\ Idle \in WorkerStates /\ WorkerOK(Idle)
<1> DEFINE me == [Idle EXCEPT !.pc = "finish", !.run = r, !.token = t]
<1>1. Document(EmptyDocument) /\ EmptyDocument \in Documents /\ IsFiniteSet({})
  BY EmptyDocumentIsDocument, FS_EmptySet DEF Document
<1>2. 0 \in 0..CasTries
  BY CrawlAssumption
<1>3. me \in WorkerStates /\ Idle \in WorkerStates
  BY <1>1, <1>2, CrawlAssumption DEF Idle, WorkerStates, Pcs, Purposes
<1>4. WorkerOK(me) /\ WorkerOK(Idle)
  BY <1>1 DEF Idle, WorkerOK, Carries, Sees, Acquired, TypeOK
<1> QED BY <1>3, <1>4

\* The invariant is about the worker that steps when the document stays.
LEMMA OneWorkerSteps ==
  ASSUME IndInv, NEW w \in Worker, NEW next \in WorkerStates,
         Step(w, next), WorkerOK(next),
         UNCHANGED crawlVars, UNCHANGED ghostVars,
         status' \in [Run -> {"queued", "running", "ended"}],
         claims' \in [Run -> Nat]
  PROVE  IndInv'
<1>1. /\ workers' \in [Worker -> WorkerStates]
      /\ workers'[w] = next
      /\ \A v \in Worker \ {w} : workers'[v] = workers[v]
  BY DEF IndInv, TypeOK, Step
<1>2. TypeOK'
  BY <1>1 DEF IndInv, TypeOK, crawlVars, ghostVars
<1>3. Document(doc)'
  BY DEF IndInv, crawlVars
<1>4. ASSUME NEW v \in Worker PROVE WorkerOK(workers[v])'
  <2>1. WorkerOK(workers'[v])
    BY <1>1 DEF IndInv
  <2>2. doc' = doc /\ version' = version /\ expired' = expired
    BY DEF crawlVars
  <2> QED BY <2>1, <2>2 DEF WorkerOK, Sees, HeldElsewhere
<1> QED BY <1>2, <1>3, <1>4 DEF IndInv

\* A pending write is in order when its document is.
LEMMA PendingIsOK ==
  ASSUME IndInv, NEW w \in Worker, NEW d, Document(d),
         NEW purpose \in {"crawled", "failed", "release"},
         Acquired(workers[w]), workers[w].pc # "reread",
         purpose = "release" => Grown(workers[w].doc, d) /\ d.lease = NoRun,
         purpose # "release" => workers[w].url \in workers[w].doc.frontier,
         purpose = "crawled" => Consumed(workers[w].doc, workers[w].url, d),
         purpose = "failed" => Missed(workers[w].doc, workers[w].url, d)
  PROVE  /\ Pending(w, d, purpose) \in WorkerStates
         /\ WorkerOK(Pending(w, d, purpose))
<1> DEFINE me == workers[w]
           next == Pending(w, d, purpose)
<1>1. me \in WorkerStates /\ WorkerOK(me) /\ me.run \in Run
  BY DEF IndInv, TypeOK, WorkerOK, Carries, Acquired
<1>2. 1 \in 0..CasTries /\ d \in Documents
  BY CrawlAssumption DEF Document
<1>3. next \in WorkerStates
  BY <1>1, <1>2 DEF Pending, WorkerStates, Pcs, Purposes
<1>4. /\ next.pc = "cas" /\ next.run = me.run /\ next.entries = me.entries
      /\ next.doc = me.doc /\ next.version = me.version /\ next.next = d
      /\ next.purpose = purpose /\ next.url = me.url
  BY <1>1 DEF Pending, WorkerStates
<1> HIDE DEF next
<1>5. Carries(next)
  BY <1>1, <1>4 DEF WorkerOK, Carries
<1>6. Prepared(next)
  BY <1>4 DEF Prepared
<1>7. Sees(next)
  BY <1>1, <1>4 DEF WorkerOK, Sees, Acquired
<1> QED BY <1>3, <1>5, <1>6, <1>7 DEF WorkerOK, next

--------------------------------------------------------------------------------
(* Every step keeps the invariant.                                            *)

\* Leaving the crawl writes nothing.
LEMMA ToFinishKeeps ==
  ASSUME IndInv, NEW w \in Worker, workers[w].pc # "idle", ToFinish(w),
         UNCHANGED <<status, claims, crawlVars, ghostVars>>
  PROVE  IndInv'
<1>1. workers[w].run \in Run /\ workers[w].token \in Nat
  BY DEF IndInv, TypeOK, WorkerStates, WorkerOK, Carries
<1> QED BY <1>1, LeavingIsOK, OneWorkerSteps DEF IndInv, TypeOK, ToFinish

LEMMA ClaimKeeps ==
  ASSUME IndInv, NEW w \in Worker, NEW r \in Run, Claim(w, r)
  PROVE  IndInv'
<1> DEFINE next == [Idle EXCEPT !.pc = "plan", !.run = r, !.token = claims[r] + 1]
<1>1. Document(EmptyDocument) /\ EmptyDocument \in Documents /\ IsFiniteSet({})
  BY EmptyDocumentIsDocument, FS_EmptySet DEF Document
<1>2. 0 \in 0..CasTries /\ claims[r] + 1 \in Nat
  BY CrawlAssumption DEF IndInv, TypeOK
<1>3. next \in WorkerStates
  BY <1>1, <1>2, CrawlAssumption DEF Idle, WorkerStates, Pcs, Purposes
<1>4. WorkerOK(next)
  BY <1>1 DEF Idle, WorkerOK, Carries, Sees, Acquired, IndInv, TypeOK
<1>5. /\ status' \in [Run -> {"queued", "running", "ended"}]
      /\ claims' \in [Run -> Nat]
  BY <1>2 DEF Claim, IndInv, TypeOK
<1>6. Step(w, next) /\ UNCHANGED crawlVars /\ UNCHANGED ghostVars
  BY DEF Claim
<1> HIDE DEF next
<1> QED BY <1>3, <1>4, <1>5, <1>6, OneWorkerSteps

LEMMA RecoverKeeps ==
  ASSUME IndInv, NEW r \in Run, Recover(r)
  PROVE  IndInv'
<1>1. TypeOK'
  BY DEF IndInv, TypeOK, Recover, crawlVars, ghostVars
<1>2. workers' = workers /\ doc' = doc /\ version' = version /\ expired' = expired
  BY DEF Recover, crawlVars
<1> QED BY <1>1, <1>2 DEF IndInv, WorkerOK, Sees, HeldElsewhere

LEMMA CrashKeeps ==
  ASSUME IndInv, NEW w \in Worker, Crash(w)
  PROVE  IndInv'
<1>1. workers[w].run \in Run /\ workers[w].token \in Nat
  BY DEF IndInv, TypeOK, WorkerStates, WorkerOK, Carries, Crash
<1>2. Idle \in WorkerStates /\ WorkerOK(Idle)
  BY <1>1, LeavingIsOK DEF IndInv
<1> QED BY <1>2, OneWorkerSteps DEF IndInv, TypeOK, Crash

\* An expired lease holds nobody off.
LEMMA CrawlLeaseExpiresKeeps ==
  ASSUME IndInv, CrawlLeaseExpires
  PROVE  IndInv'
<1>1. TypeOK'
  BY DEF IndInv, TypeOK, CrawlLeaseExpires, ghostVars
<1>2. /\ workers' = workers /\ doc' = doc /\ version' = version /\ expired' = TRUE
  BY DEF CrawlLeaseExpires
<1> QED BY <1>1, <1>2 DEF IndInv, WorkerOK, Sees, HeldElsewhere

LEMMA FinishKeeps ==
  ASSUME IndInv, NEW w \in Worker, Finish(w)
  PROVE  IndInv'
<1>1. /\ workers[w].run \in Run /\ workers[w].token \in Nat
  BY DEF IndInv, TypeOK, WorkerStates, WorkerOK, Carries, Finish
<1>2. Idle \in WorkerStates /\ WorkerOK(Idle)
  BY <1>1, LeavingIsOK DEF IndInv
<1>3. /\ workers' \in [Worker -> WorkerStates]
      /\ workers'[w] = Idle
      /\ \A v \in Worker \ {w} : workers'[v] = workers[v]
  BY <1>2 DEF IndInv, TypeOK, Finish, Step
<1>4. /\ doc' = doc /\ expired' = expired
      /\ version' = version \/ version' = version + 1
      /\ version \in Nat
  BY DEF Finish, IndInv, TypeOK
<1>5. TypeOK'
  BY <1>3, <1>4 DEF IndInv, TypeOK, Finish, ghostVars
<1>6. ASSUME NEW v \in Worker PROVE WorkerOK(workers[v])'
  <2>1. WorkerOK(workers'[v]) /\ workers'[v].version \in Nat
    BY <1>2, <1>3 DEF IndInv, WorkerStates
  <2> QED BY <1>4, <2>1 DEF WorkerOK, Sees, HeldElsewhere
<1> QED BY <1>4, <1>5, <1>6 DEF IndInv

\* The plan of the seed page is finite.
LEMMA PlanSeedKeeps ==
  ASSUME IndInv, NEW w \in Worker, PlanSeed(w)
  PROVE  IndInv'
<1> DEFINE me == workers[w]
<1>1. PICK links \in SeedContents :
        Step(w, [me EXCEPT !.pc = "base", !.entries = Planned(doc, links)])
  BY DEF PlanSeed
<1> DEFINE next == [me EXCEPT !.pc = "base", !.entries = Planned(doc, links)]
<1>2. Planned(doc, links) \in SUBSET Url /\ IsFiniteSet(Planned(doc, links))
  BY PlannedFits, CrawlAssumption DEF IndInv
<1>3. me \in WorkerStates /\ me.pc = "plan" /\ WorkerOK(me)
  BY DEF IndInv, TypeOK, PlanSeed
<1>4. next \in WorkerStates
  BY <1>2, <1>3 DEF WorkerStates, Pcs
<1>5. /\ next.pc = "base" /\ next.run = me.run /\ next.doc = me.doc
      /\ next.next = me.next /\ next.entries = Planned(doc, links)
      /\ next.version = me.version
  BY <1>3 DEF WorkerStates
<1>6. Step(w, next) /\ UNCHANGED <<status, claims, crawlVars, ghostVars>>
  BY <1>1 DEF PlanSeed
<1> HIDE DEF next
<1>7. WorkerOK(next)
  BY <1>2, <1>3, <1>5 DEF WorkerOK, Carries, Sees, Acquired
<1> QED BY <1>4, <1>6, <1>7, OneWorkerSteps DEF IndInv, TypeOK

\* The merged document is the stored one, grown, with the run's lease.
LEMMA ReadBaseKeeps ==
  ASSUME IndInv, NEW w \in Worker, ReadBase(w)
  PROVE  IndInv'
<1> DEFINE me == workers[w]
           merged == Merge(doc, me.entries)
           d == SetLease(merged, me.run)
           next == [Pending(w, d, "acquire") EXCEPT !.doc = doc, !.version = version]
<1>1. /\ me \in WorkerStates /\ me.pc = "base" /\ WorkerOK(me) /\ me.run \in Run
      /\ me.entries \in SUBSET Url /\ IsFiniteSet(me.entries) /\ Document(doc)
      /\ version \in Nat
  BY DEF IndInv, TypeOK, WorkerStates, WorkerOK, Carries, ReadBase
<1>2. CASE HeldElsewhere(me.run) /\ ToFinish(w)
  BY <1>1, <1>2, ToFinishKeeps DEF ReadBase
<1>3. CASE ~HeldElsewhere(me.run) /\ Step(w, next)
  <2>1. Document(merged) /\ Grown(doc, merged)
    BY <1>1, MergeKeepsDocument
  <2>2. Document(d) /\ Grown(doc, d) /\ d.lease = me.run
    <3> HIDE DEF merged
    <3> QED BY <1>1, <2>1, SetLeaseKeepsDocument DEF Grown
  <2> HIDE DEF d
  <2>3. 1 \in 0..CasTries /\ d \in Documents /\ doc \in Documents
    BY <1>1, <2>2, CrawlAssumption DEF Document
  <2>4. next \in WorkerStates
    BY <1>1, <2>3 DEF Pending, WorkerStates, Pcs, Purposes
  <2>5. /\ next.pc = "cas" /\ next.run = me.run /\ next.entries = me.entries
        /\ next.doc = doc /\ next.version = version /\ next.next = d
        /\ next.purpose = "acquire"
    BY <1>1 DEF Pending, WorkerStates
  <2> HIDE DEF next
  <2>6. WorkerOK(next)
    BY <1>1, <1>3, <2>2, <2>5 DEF WorkerOK, Carries, Prepared, Sees, Acquired
  <2> QED BY <1>3, <2>4, <2>6, OneWorkerSteps DEF IndInv, TypeOK, ReadBase
<1> QED BY <1>2, <1>3 DEF ReadBase

\* What a commit does to the stored document and to the worker: the others are
\* left with a version that has passed.
LEMMA CommitKeeps ==
  ASSUME IndInv, NEW w \in Worker, Commit(w)
  PROVE  IndInv'
<1> DEFINE me == workers[w]
           onward == [me EXCEPT !.pc = "loop", !.doc = me.next, !.url = NoUrl,
                                !.version = version + 1, !.next = EmptyDocument,
                                !.entries = {}, !.tries = 0]
           gone == [Idle EXCEPT !.pc = "finish", !.run = me.run, !.token = me.token]
<1>1. /\ me \in WorkerStates /\ me.pc = "cas" /\ WorkerOK(me) /\ me.run \in Run
      /\ me.token \in Nat /\ me.version = version /\ version \in Nat
      /\ Document(me.next) /\ me.next \in Documents
  BY DEF IndInv, TypeOK, WorkerStates, WorkerOK, Carries, Commit, Committable, Document
<1>2. Document(EmptyDocument) /\ EmptyDocument \in Documents /\ IsFiniteSet({})
  BY EmptyDocumentIsDocument, FS_EmptySet DEF Document
<1>3. doc' = me.next /\ version' = version + 1
  BY DEF Commit
<1>4. \/ me.purpose = "release" /\ Step(w, gone)
      \/ me.purpose # "release" /\ Step(w, onward)
  BY DEF Commit, ToFinish
<1> DEFINE next == IF me.purpose = "release" THEN gone ELSE onward
<1>5. Step(w, next)
  BY <1>4
<1>6. onward \in WorkerStates
  <2>1. 0 \in 0..CasTries /\ version + 1 \in Nat
    BY <1>1, CrawlAssumption
  <2> QED BY <1>1, <1>2, <2>1 DEF WorkerStates, Pcs
<1>7. gone \in WorkerStates /\ WorkerOK(gone)
  BY <1>1, LeavingIsOK DEF IndInv
<1>8. /\ workers' \in [Worker -> WorkerStates]
      /\ workers'[w] = next
      /\ \A v \in Worker \ {w} : workers'[v] = workers[v]
  BY <1>5, <1>6, <1>7 DEF IndInv, TypeOK, Step
<1>9. TypeOK'
  <2>1. /\ status' = status /\ claims' = claims
        /\ doc' \in Documents /\ version' \in Nat /\ expired' \in BOOLEAN
        /\ overwritten' \in BOOLEAN
    BY <1>1, <1>3 DEF Commit, IndInv, TypeOK
  <2>2. fetched' \in [Url -> Nat] /\ failures' \in [Url -> Nat]
    BY DEF Commit, IndInv, TypeOK
  <2> QED BY <1>8, <2>1, <2>2 DEF IndInv, TypeOK
<1>10. WorkerOK(workers[w])'
  <2>1. CASE me.purpose = "release"
    <3>1. /\ gone.pc = "finish" /\ gone.version = 0 /\ Carries(gone)
      BY <1>7 DEF WorkerOK, Idle
    <3>2. workers'[w] = gone
      BY <1>8, <2>1
    <3> HIDE DEF gone
    <3> QED BY <1>1, <1>3, <3>1, <3>2 DEF WorkerOK, Sees, Acquired
  <2>2. CASE me.purpose # "release"
    <3>1. /\ onward.pc = "loop" /\ onward.doc = me.next /\ onward.run = me.run
          /\ onward.version = version + 1 /\ onward.next = EmptyDocument
          /\ onward.entries = {}
      BY <1>1 DEF WorkerStates
    <3>2. workers'[w] = onward /\ me.purpose # "release"
      BY <1>5, <1>8, <2>2
    <3>3. me.next.lease = me.run
      BY <1>1, <3>2 DEF WorkerOK, Prepared, Consumed, Missed, Sees, Acquired
    <3> HIDE DEF onward
    <3>4. Carries(onward)
      BY <1>1, <1>2, <3>1 DEF Carries
    <3> QED BY <1>1, <1>3, <3>1, <3>2, <3>3, <3>4 DEF WorkerOK, Sees, Acquired
  <2> QED BY <2>1, <2>2
<1>11. ASSUME NEW v \in Worker \ {w} PROVE WorkerOK(workers[v])'
  <2>1. workers'[v] = workers[v] /\ WorkerOK(workers[v]) /\ workers[v].version \in Nat
    BY <1>8 DEF IndInv, TypeOK, WorkerStates
  <2> QED BY <1>1, <1>3, <2>1 DEF WorkerOK, Sees
<1> QED BY <1>1, <1>3, <1>9, <1>10, <1>11 DEF IndInv

LEMMA CommitMissedKeeps ==
  ASSUME IndInv, NEW w \in Worker, CommitMissed(w)
  PROVE  IndInv'
<1> DEFINE me == workers[w]
           next == [me EXCEPT !.pc = "reread"]
<1>1. me \in WorkerStates /\ me.pc = "cas" /\ WorkerOK(me)
  BY DEF IndInv, TypeOK, CommitMissed
<1>2. next \in WorkerStates
  BY <1>1 DEF WorkerStates, Pcs
<1>3. /\ next.pc = "reread" /\ next.run = me.run /\ next.entries = me.entries
      /\ next.doc = me.doc /\ next.version = me.version /\ next.next = me.next
      /\ next.purpose = me.purpose /\ next.url = me.url
  BY <1>1 DEF WorkerStates
<1> HIDE DEF next
<1>4. WorkerOK(next)
  BY <1>1, <1>3 DEF WorkerOK, Carries, Prepared, Sees, Acquired
<1> QED BY <1>2, <1>4, OneWorkerSteps DEF IndInv, TypeOK, CommitMissed, next

\* A retry has looked at the lease under the version it will compare.
LEMMA RereadKeeps ==
  ASSUME IndInv, NEW w \in Worker, Reread(w)
  PROVE  IndInv'
<1> DEFINE me == workers[w]
           next == [me EXCEPT !.pc = "cas", !.version = version, !.tries = @ + 1]
<1>1. me \in WorkerStates /\ me.pc = "reread" /\ WorkerOK(me) /\ version \in Nat
  BY DEF IndInv, TypeOK, Reread
<1>2. CASE ToFinish(w)
  BY <1>1, <1>2, ToFinishKeeps DEF Reread
<1>3. CASE MayRetry(w) /\ Step(w, next)
  <2>1. me.tries + 1 \in 0..CasTries
    <3>1. me.tries \in 0..CasTries /\ me.tries < CasTries /\ CasTries \in Nat
      BY <1>1, <1>3, CrawlAssumption DEF MayRetry, WorkerStates
    <3> QED BY <3>1
  <2>2. next \in WorkerStates
    BY <1>1, <2>1 DEF WorkerStates, Pcs
  <2>3. /\ next.pc = "cas" /\ next.run = me.run /\ next.entries = me.entries
        /\ next.doc = me.doc /\ next.version = version /\ next.next = me.next
        /\ next.purpose = me.purpose /\ next.url = me.url
    BY <1>1 DEF WorkerStates
  <2> HIDE DEF next
  <2>4. WorkerOK(next)
    BY <1>1, <1>3, <2>3 DEF MayRetry, WorkerOK, Carries, Prepared, Sees, Acquired
  <2> QED BY <1>3, <2>2, <2>4, OneWorkerSteps DEF IndInv, TypeOK, Reread
<1> QED BY <1>2, <1>3 DEF Reread

\* The lease is given back on the document the worker has.
LEMMA ReleaseKeeps ==
  ASSUME IndInv, NEW w \in Worker, workers[w].pc = "loop", Release(w),
         UNCHANGED <<status, claims, crawlVars, ghostVars>>
  PROVE  IndInv'
<1> DEFINE me == workers[w]
           d == SetLease(me.doc, NoRun)
<1>1. Document(me.doc) /\ Acquired(me) /\ me.pc # "reread"
  BY DEF IndInv, WorkerOK, Carries, Acquired
<1>2. Document(d) /\ Grown(me.doc, d) /\ d.lease = NoRun
  BY <1>1, SetLeaseKeepsDocument DEF Grown
<1>3. Step(w, Pending(w, d, "release"))
  BY DEF Release
<1> HIDE DEF d
<1>4. Pending(w, d, "release") \in WorkerStates /\ WorkerOK(Pending(w, d, "release"))
  BY <1>1, <1>2, PendingIsOK
<1> QED BY <1>3, <1>4, OneWorkerSteps DEF IndInv, TypeOK

LEMMA LoopKeeps ==
  ASSUME IndInv, NEW w \in Worker, Loop(w)
  PROVE  IndInv'
<1> DEFINE me == workers[w]
           u == NextTarget(me.doc, me.skipped)
           skips == [me EXCEPT !.skipped = @ \cup {u}]
           turns == [me EXCEPT !.pc = "page", !.url = u]
<1>1. /\ me \in WorkerStates /\ me.pc = "loop" /\ WorkerOK(me)
      /\ me.doc \in Documents /\ me.skipped \in SUBSET Url
      /\ UNCHANGED <<status, claims, crawlVars, ghostVars>>
  BY DEF IndInv, TypeOK, Loop, WorkerStates
<1>2. CASE Release(w)
  BY <1>1, <1>2, ReleaseKeeps
<1>3. CASE ToFinish(w)
  BY <1>1, <1>3, ToFinishKeeps
<1>4. HasTarget(me.doc, me.skipped) => u \in me.doc.frontier /\ u \in Url
  BY <1>1, TargetIsEntry DEF Documents
<1> HIDE DEF u
<1>5. CASE HasTarget(me.doc, me.skipped) /\ Step(w, skips)
  <2>1. skips \in WorkerStates
    BY <1>1, <1>4, <1>5 DEF WorkerStates
  <2>2. /\ skips.pc = "loop" /\ skips.run = me.run /\ skips.entries = me.entries
        /\ skips.doc = me.doc /\ skips.version = me.version /\ skips.next = me.next
    BY <1>1 DEF WorkerStates
  <2> HIDE DEF skips
  <2>3. WorkerOK(skips)
    BY <1>1, <2>2 DEF WorkerOK, Carries, Sees, Acquired
  <2> QED BY <1>1, <1>5, <2>1, <2>3, OneWorkerSteps DEF IndInv, TypeOK
<1>6. CASE HasTarget(me.doc, me.skipped) /\ Step(w, turns)
  <2>1. turns \in WorkerStates
    BY <1>1, <1>4, <1>6 DEF WorkerStates, Pcs
  <2>2. /\ turns.pc = "page" /\ turns.run = me.run /\ turns.entries = me.entries
        /\ turns.doc = me.doc /\ turns.version = me.version /\ turns.next = me.next
        /\ turns.url = u
    BY <1>1 DEF WorkerStates
  <2> HIDE DEF turns
  <2>3. WorkerOK(turns)
    BY <1>1, <1>4, <1>6, <2>2 DEF WorkerOK, Carries, Sees, Acquired
  <2> QED BY <1>1, <1>6, <2>1, <2>3, OneWorkerSteps DEF IndInv, TypeOK
<1> QED BY <1>2, <1>3, <1>5, <1>6 DEF Loop, u

LEMMA FetchPageKeeps ==
  ASSUME IndInv, NEW w \in Worker, FetchPage(w)
  PROVE  IndInv'
<1> DEFINE me == workers[w]
<1>1. /\ me.pc = "page" /\ Document(me.doc) /\ me.url \in me.doc.frontier
      /\ me.url \in Url /\ Acquired(me)
  BY DEF IndInv, WorkerOK, Carries, FetchPage, Acquired, Document, Documents
<1>2. PICK links \in Contents[me.url] \cup {{}} :
        Step(w, Pending(w, PageCrawled(me.doc, me.url, links), "crawled"))
  BY DEF FetchPage
<1> DEFINE d == PageCrawled(me.doc, me.url, links)
<1>3. links \in SUBSET Url /\ IsFiniteSet(links)
  BY <1>1, CrawlAssumption, FS_EmptySet
<1>4. Document(d) /\ Consumed(me.doc, me.url, d)
  BY <1>1, <1>3, PageCrawledKeepsDocument
<1>5. Step(w, Pending(w, d, "crawled"))
  BY <1>2
<1> HIDE DEF d
<1>6. Pending(w, d, "crawled") \in WorkerStates /\ WorkerOK(Pending(w, d, "crawled"))
  BY <1>1, <1>4, PendingIsOK
<1> QED BY <1>5, <1>6, OneWorkerSteps DEF IndInv, TypeOK, FetchPage

LEMMA FetchFailsKeeps ==
  ASSUME IndInv, NEW w \in Worker, FetchFails(w)
  PROVE  IndInv'
<1> DEFINE me == workers[w]
           d == PageFailed(me.doc, me.url)
           p == Pending(w, d, "failed")
           next == [p EXCEPT !.skipped = @ \cup {me.url}]
<1>1. /\ me.pc = "page" /\ Document(me.doc) /\ me.url \in me.doc.frontier
      /\ me.url \in Url /\ Acquired(me)
  BY DEF IndInv, WorkerOK, Carries, FetchFails, Acquired, Document, Documents
<1>2. Document(d) /\ Missed(me.doc, me.url, d)
  BY <1>1, PageFailedKeepsDocument
<1>3. Step(w, next)
  BY DEF FetchFails
<1> HIDE DEF d
<1>4. p \in WorkerStates /\ WorkerOK(p)
  BY <1>1, <1>2, PendingIsOK
<1> HIDE DEF p
<1>5. next \in WorkerStates
  BY <1>1, <1>4 DEF WorkerStates
<1>6. /\ next.pc = p.pc /\ next.run = p.run /\ next.entries = p.entries
      /\ next.doc = p.doc /\ next.version = p.version /\ next.next = p.next
      /\ next.purpose = p.purpose /\ next.url = p.url
  BY <1>4 DEF WorkerStates
<1> HIDE DEF next
<1>7. WorkerOK(next)
  BY <1>4, <1>6 DEF WorkerOK, Carries, Prepared, Sees, Acquired
<1> QED BY <1>3, <1>5, <1>7, OneWorkerSteps DEF IndInv, TypeOK, FetchFails

--------------------------------------------------------------------------------
(* The invariant, and what it gives.                                          *)

LEMMA InitIsOK == Init => IndInv
<1> SUFFICES ASSUME Init PROVE IndInv
  OBVIOUS
<1>1. Document(EmptyDocument) /\ EmptyDocument \in Documents /\ IsFiniteSet({})
  BY EmptyDocumentIsDocument, FS_EmptySet DEF Document
<1>2. 0 \in 0..CasTries
  BY CrawlAssumption
<1>3. Idle \in WorkerStates
  BY <1>1, <1>2, CrawlAssumption DEF Idle, WorkerStates, Pcs, Purposes
<1>4. TypeOK
  BY <1>1, <1>3 DEF Init, TypeOK
<1>5. WorkerOK(Idle)
  BY <1>1 DEF Idle, WorkerOK, Carries, Sees, Acquired, Init
<1> QED BY <1>1, <1>4, <1>5 DEF Init, IndInv

LEMMA NextKeeps == IndInv /\ [Next]_vars => IndInv'
<1> SUFFICES ASSUME IndInv, [Next]_vars PROVE IndInv'
  OBVIOUS
<1>1. ASSUME NEW w \in Worker, CrawlStep(w) PROVE IndInv'
  BY <1>1, PlanSeedKeeps, ReadBaseKeeps, CommitKeeps, CommitMissedKeeps, RereadKeeps,
     LoopKeeps, FetchPageKeeps, FetchFailsKeeps, FinishKeeps DEF CrawlStep
<1>2. ASSUME NEW w \in Worker, CrawlRaises(w) PROVE IndInv'
  BY <1>2, ToFinishKeeps DEF CrawlRaises
<1>3. ASSUME NEW w \in Worker, Crash(w) PROVE IndInv'
  BY <1>3, CrashKeeps
<1>4. ASSUME NEW w \in Worker, NEW r \in Run, Claim(w, r) PROVE IndInv'
  BY <1>4, ClaimKeeps
<1>5. ASSUME NEW r \in Run, Recover(r) PROVE IndInv'
  BY <1>5, RecoverKeeps
<1>6. CASE CrawlLeaseExpires
  BY <1>6, CrawlLeaseExpiresKeeps
<1>7. CASE UNCHANGED vars
  BY <1>7 DEF vars, crawlVars, ghostVars, IndInv, TypeOK, WorkerOK, Sees, HeldElsewhere
<1> QED BY <1>1, <1>2, <1>3, <1>4, <1>5, <1>6, <1>7 DEF Next

THEOREM Inductive == Spec => []IndInv
BY InitIsOK, NextKeeps, PTL DEF Spec

\* Every reachable state is well typed.
THEOREM TypeCorrect == Spec => []TypeOK
<1>1. IndInv => TypeOK
  BY DEF IndInv
<1> QED BY <1>1, Inductive, PTL

\* The stored document is sound after every sequence of steps of any workers:
\* its frontier was seen and fits its cap, its counter counts what was seen.
THEOREM CheckpointIsSound == Spec => []CheckpointSound
<1>1. IndInv => CheckpointSound
  BY DEF IndInv, Document, CheckpointSound
<1> QED BY <1>1, Inductive, PTL

--------------------------------------------------------------------------------
(* Who writes the document, and what its writes keep.                         *)

\* A step that changes the document is a commit: it stores what the worker
\* prepared, under the version the worker had read.
LEMMA OnlyCommitsWrite ==
  ASSUME [Next]_vars, doc' # doc
  PROVE  \E w \in Worker : Commit(w)
BY DEF Next, vars, crawlVars, CrawlStep, Claim, Recover, Crash, CrawlLeaseExpires,
       Finish, PlanSeed, ReadBase, CommitMissed, Reread, Loop, FetchPage, FetchFails,
       CrawlRaises

\* The worker that writes the document holds its run, and while a crawl lease on
\* it is valid it is the lease of that run: the version it compares is one
\* under which it saw the lease.
THEOREM LeaseIsRespected == Spec => LeaseRespected
<1>1. ASSUME IndInv, [Next]_vars, doc' # doc
      PROVE  \E w \in Worker : /\ Holds(w)
                               /\ workers'[w] # workers[w]
                               /\ expired \/ doc.lease \in {NoRun, workers[w].run}
  <2>1. PICK w \in Worker : Commit(w)
    BY <1>1, OnlyCommitsWrite
  <2> DEFINE me == workers[w]
  <2>2. /\ me \in WorkerStates /\ WorkerOK(me) /\ me.pc = "cas" /\ Holds(w)
        /\ me.version = version
    BY <1>1, <2>1 DEF IndInv, TypeOK, Commit, Committable
  <2>3. workers'[w].pc \in {"finish", "loop"}
    <3>1. \A next : Step(w, next) => workers'[w] = next
      BY <1>1 DEF Step, IndInv, TypeOK
    <3>2. CASE me.purpose = "release"
      BY <2>1, <3>1, <3>2 DEF Commit, ToFinish, Idle
    <3>3. CASE me.purpose # "release"
      BY <2>1, <2>2, <3>1, <3>3 DEF Commit, WorkerStates
    <3> QED BY <3>2, <3>3
  <2>4. expired \/ doc.lease \in {NoRun, me.run}
    BY <2>2 DEF WorkerOK, Sees, Acquired, HeldElsewhere
  <2> QED BY <2>2, <2>3, <2>4
<1> QED BY <1>1, Inductive, PTL DEF Spec, LeaseRespected

\* A commit that overwrites nothing starts from the stored document.
LEMMA CommitFromStored ==
  ASSUME IndInv, NEW w \in Worker, Commit(w), ~overwritten'
  PROVE  /\ workers[w].doc = doc /\ doc' = workers[w].next
         /\ Prepared(workers[w]) /\ ~overwritten
BY DEF IndInv, WorkerOK, Commit

\* As long as no acquisition has replaced a document it had not read, a URL once
\* seen stays seen.
THEOREM NothingIsForgotten == Spec => NothingForgotten
<1>1. ASSUME IndInv, [Next]_vars, ~overwritten'
      PROVE  doc.seen \subseteq doc'.seen
  <2>1. CASE doc' = doc
    BY <2>1
  <2>2. CASE doc' # doc
    <3>1. PICK w \in Worker : Commit(w)
      BY <1>1, <2>2, OnlyCommitsWrite
    <3> QED BY <1>1, <3>1, CommitFromStored DEF Prepared, Grown, Consumed, Missed
  <2> QED BY <2>1, <2>2
<1> QED BY <1>1, Inductive, PTL DEF Spec, NothingForgotten

--------------------------------------------------------------------------------
(* The records of a URL agree with the document.                              *)

\* What FrontierExact says of one URL.
Exact(u) ==
  IF u \notin doc.seen THEN fetched[u] = 0 /\ failures[u] = 0
  ELSE IF u \in doc.frontier THEN fetched[u] = 0 /\ failures[u] = doc.tries[u]
  ELSE \/ fetched[u] = 1 /\ failures[u] < MaxAttempts
       \/ fetched[u] = 0 /\ failures[u] = MaxAttempts

\* The records a commit adds are those of the page it was prepared for.
LEMMA CommitRecords ==
  ASSUME IndInv, NEW w \in Worker, Commit(w), NEW u \in Url
  PROVE  /\ fetched'[u] = fetched[u] +
              IF workers[w].purpose = "crawled" /\ workers[w].url = u THEN 1 ELSE 0
         /\ failures'[u] = failures[u] +
              IF workers[w].purpose = "failed" /\ workers[w].url = u THEN 1 ELSE 0
         /\ fetched[u] \in Nat /\ failures[u] \in Nat
BY DEF IndInv, TypeOK, Commit

\* A commit that starts from the stored document keeps the records exact.
LEMMA CommitKeepsExact ==
  ASSUME IndInv, NEW w \in Worker, Commit(w), ~overwritten',
         NEW u \in Url, Exact(u)
  PROVE  Exact(u)'
<1> DEFINE me == workers[w]
<1>1. me.doc = doc /\ doc' = me.next /\ Prepared(me)
  BY CommitFromStored
<1>2. /\ doc.frontier \subseteq doc.seen /\ doc.tries[u] \in Nat
      /\ doc.tries[u] < MaxAttempts
      /\ doc.tries[u] > 0 => u \in doc.frontier
      /\ MaxAttempts \in Nat \ {0}
  BY FrontierAssumption DEF IndInv, Document, Documents, Sound
<1>3. CASE me.purpose \in {"acquire", "release"}
  <2>1. fetched'[u] = fetched[u] /\ failures'[u] = failures[u]
    BY <1>3, CommitRecords
  <2>2. Grown(doc, doc')
    BY <1>1, <1>3 DEF Prepared
  <2> QED BY <1>2, <2>1, <2>2 DEF Exact, Grown
<1>4. CASE me.purpose = "crawled"
  <2>1. /\ fetched'[u] = fetched[u] + IF me.url = u THEN 1 ELSE 0
        /\ failures'[u] = failures[u]
        /\ fetched[u] \in Nat /\ failures[u] \in Nat
    BY <1>4, CommitRecords
  <2>2. me.url \in doc.frontier /\ Consumed(doc, me.url, doc')
    BY <1>1, <1>4 DEF Prepared
  <2> QED BY <1>2, <2>1, <2>2 DEF Exact, Consumed
<1>5. CASE me.purpose = "failed"
  <2>1. /\ fetched'[u] = fetched[u]
        /\ failures'[u] = failures[u] + IF me.url = u THEN 1 ELSE 0
        /\ fetched[u] \in Nat /\ failures[u] \in Nat
    BY <1>5, CommitRecords
  <2>2. me.url \in doc.frontier /\ Missed(doc, me.url, doc')
    BY <1>1, <1>5 DEF Prepared
  <2> QED BY <1>2, <2>1, <2>2 DEF Exact, Missed
<1> QED BY <1>1, <1>3, <1>4, <1>5 DEF Prepared

\* Steps that are no commit add no record and overwrite nothing.
LEMMA OnlyCommitsRecord ==
  ASSUME [Next]_vars, ~\E w \in Worker : Commit(w)
  PROVE  doc' = doc /\ UNCHANGED ghostVars
BY DEF Next, vars, crawlVars, CrawlStep, Claim, Recover, Crash, CrawlLeaseExpires,
       Finish, PlanSeed, ReadBase, CommitMissed, Reread, Loop, FetchPage, FetchFails,
       CrawlRaises

\* As long as no acquisition has replaced a document it had not read, every URL
\* waits with as many attempts as failures were recorded, was fetched once, or
\* has failed for good: no page is recorded twice and none is lost, whatever
\* crashes, claims and conflicts there were.
THEOREM RecordsAreExact == Spec => []FrontierExact
<1>1. Init => FrontierExact
  BY DEF Init, FrontierExact, EmptyDocument
<1>2. IndInv /\ FrontierExact /\ [Next]_vars => FrontierExact'
  <2> SUFFICES ASSUME IndInv, FrontierExact, [Next]_vars, ~overwritten', NEW u \in Url
               PROVE  Exact(u)'
    BY DEF FrontierExact, Exact
  <2>1. CASE \E w \in Worker : Commit(w)
    <3>1. PICK w \in Worker : Commit(w)
      BY <2>1
    <3>2. Exact(u)
      BY <3>1, CommitFromStored DEF FrontierExact, Exact
    <3> QED BY <3>1, <3>2, CommitKeepsExact
  <2>2. CASE ~\E w \in Worker : Commit(w)
    <3>1. doc' = doc /\ UNCHANGED ghostVars
      BY <2>2, OnlyCommitsRecord
    <3> QED BY <3>1 DEF ghostVars, FrontierExact, Exact
  <2> QED BY <2>1, <2>2
<1> QED BY <1>1, <1>2, Inductive, PTL DEF Spec

--------------------------------------------------------------------------------
(* The document of a worker that still has its claim and its lease is the     *)
(* stored one.                                                                *)

SoleRun == \A r, s \in Run : r = s

\* A claim gives a token once: two busy workers of a run have different ones.
TokensOK ==
  /\ \A w \in Worker : workers[w].pc # "idle" => workers[w].token <= claims[workers[w].run]
  /\ \A v, w \in Worker :
       /\ v # w
       /\ workers[v].pc # "idle" /\ workers[w].pc # "idle"
       /\ workers[v].run = workers[w].run
       => workers[v].token # workers[w].token

\* The lease of its run keeps others from writing; so does having no other run.
Keeps(me) ==
  \/ Acquired(me) /\ doc.lease = me.run
  \/ SoleRun /\ me.pc \in {"cas", "reread", "loop", "page"}

OwnedOK == \A w \in Worker :
  Holds(w) /\ Keeps(workers[w]) => doc = workers[w].doc

OwnInv == IndInv /\ TokensOK /\ OwnedOK

\* A worker goes on with its run and its document, or has read the stored one,
\* or leaves.
LEMMA OwnWorkerSteps ==
  ASSUME OwnInv, NEW w \in Worker, NEW next \in WorkerStates, Step(w, next),
         UNCHANGED <<status, claims, crawlVars, ghostVars>>,
         \/ next.pc = "idle"
         \/ /\ workers[w].pc # "idle"
            /\ next.run = workers[w].run
            /\ next.token = workers[w].token
            /\ \/ next.pc = "finish"
               \/ next.pc = "base"
               \/ next.doc = doc
               \/ next.doc = workers[w].doc /\ (Keeps(next) => Keeps(workers[w]))
  PROVE  TokensOK' /\ OwnedOK'
<1>1. /\ workers'[w] = next
      /\ \A v \in Worker \ {w} : workers'[v] = workers[v]
      /\ doc' = doc /\ status' = status /\ claims' = claims
  BY DEF OwnInv, IndInv, TypeOK, Step, crawlVars
<1>2. TokensOK'
  BY <1>1 DEF OwnInv, TokensOK
<1>3. ASSUME NEW v \in Worker, Holds(v)', Keeps(workers[v])'
      PROVE  doc' = workers'[v].doc
  <2>1. Keeps(workers'[v])
    BY <1>1, <1>3 DEF Keeps, Acquired
  <2>2. CASE v # w
    <3>1. workers'[v] = workers[v]
      BY <1>1, <2>2
    <3>2. Holds(v)
      BY <1>1, <1>3, <3>1 DEF Holds
    <3> QED BY <1>1, <2>1, <3>1, <3>2 DEF OwnInv, OwnedOK
  <2>3. CASE v = w
    <3>1. next.pc \notin {"idle", "finish", "base"}
      BY <1>1, <2>1, <2>3 DEF Keeps, Acquired
    <3>2. Holds(w)
      BY <1>1, <1>3, <2>3, <3>1 DEF Holds
    <3> QED BY <1>1, <2>1, <2>3, <3>1, <3>2 DEF OwnInv, OwnedOK
  <2> QED BY <2>2, <2>3
<1> QED BY <1>2, <1>3 DEF OwnedOK

\* A claim makes the earlier tokens of its run worthless.
LEMMA OwnClaim ==
  ASSUME OwnInv, NEW w \in Worker, NEW r \in Run, Claim(w, r)
  PROVE  TokensOK' /\ OwnedOK'
<1>1. /\ workers'[w] = [Idle EXCEPT !.pc = "plan", !.run = r, !.token = claims[r] + 1]
      /\ \A v \in Worker \ {w} : workers'[v] = workers[v]
      /\ claims' = [claims EXCEPT ![r] = @ + 1]
      /\ status' = [status EXCEPT ![r] = "running"]
      /\ doc' = doc /\ claims[r] \in Nat /\ claims \in [Run -> Nat]
      /\ status \in [Run -> {"queued", "running", "ended"}] /\ status[r] = "queued"
  BY DEF Claim, OwnInv, IndInv, TypeOK, Step, crawlVars
<1>2. /\ workers'[w].pc = "plan" /\ workers'[w].run = r
      /\ workers'[w].token = claims[r] + 1
  BY <1>1 DEF Idle
<1>3. /\ \A s \in Run : claims'[s] = IF s = r THEN claims[r] + 1 ELSE claims[s]
      /\ \A s \in Run \ {r} : status'[s] = status[s]
  BY <1>1
<1>4. \A v \in Worker \ {w} : workers[v].pc # "idle" =>
        /\ workers[v].run \in Run
        /\ workers[v].token \in Nat
        /\ workers[v].token <= claims[workers[v].run]
        /\ claims[workers[v].run] \in Nat
  BY <1>1 DEF OwnInv, IndInv, TypeOK, WorkerStates, WorkerOK, Carries, TokensOK
<1>5. TokensOK'
  <2>1. ASSUME NEW v \in Worker, workers'[v].pc # "idle"
        PROVE  workers'[v].token <= claims'[workers'[v].run]
    <3>1. CASE v = w
      <4>1. claims'[workers'[v].run] = claims[r] + 1
        BY <1>2, <1>3, <3>1
      <4>2. workers'[v].token = claims[r] + 1
        BY <1>2, <3>1
      <4>3. claims[r] + 1 <= claims[r] + 1
        <5>1. claims[r] \in Nat
          BY <1>1
        <5> QED BY <5>1
      <4> QED BY <4>1, <4>2, <4>3
    <3>2. CASE v # w
      <4>1. workers'[v] = workers[v] /\ v \in Worker \ {w}
        BY <1>1, <3>2
      <4> QED BY <1>3, <1>4, <2>1, <4>1
    <3> QED BY <3>1, <3>2
  <2>2. ASSUME NEW v \in Worker, NEW x \in Worker, v # x,
               workers'[v].pc # "idle", workers'[x].pc # "idle",
               workers'[v].run = workers'[x].run
        PROVE  workers'[v].token # workers'[x].token
    <3>1. \A y \in Worker \ {w} :
            workers'[y].pc # "idle" /\ workers'[y].run = r
              => workers'[y].token # claims[r] + 1
      <4> SUFFICES ASSUME NEW y \in Worker \ {w}, workers'[y].pc # "idle",
                          workers'[y].run = r
                   PROVE  workers'[y].token # claims[r] + 1
        OBVIOUS
      <4>1. workers'[y] = workers[y]
        BY <1>1
      <4>2. /\ workers[y].token \in Nat /\ claims[r] \in Nat
            /\ workers[y].token <= claims[r]
        BY <1>4, <4>1
      <4> QED BY <4>1, <4>2
    <3>2. CASE v = w \/ x = w
      BY <1>2, <2>2, <3>1, <3>2
    <3>3. CASE v # w /\ x # w
      <4>1. workers'[v] = workers[v] /\ workers'[x] = workers[x]
        BY <1>1, <3>3
      <4> QED BY <2>2, <4>1 DEF OwnInv, TokensOK
    <3> QED BY <3>2, <3>3
  <2> QED BY <2>1, <2>2 DEF TokensOK
<1>6. ASSUME NEW v \in Worker, Holds(v)', Keeps(workers[v])'
      PROVE  doc' = workers'[v].doc
  <2>1. v # w
    BY <1>2, <1>6 DEF Keeps, Acquired
  <2>2. workers'[v] = workers[v] /\ workers[v].pc # "idle"
    BY <1>1, <1>6, <2>1 DEF Holds
  <2>3. workers[v].run # r
    BY <1>3, <1>4, <1>6, <2>1, <2>2 DEF Holds
  <2>4. Holds(v) /\ Keeps(workers[v])
    BY <1>1, <1>3, <1>4, <1>6, <2>1, <2>2, <2>3 DEF Holds, Keeps, Acquired
  <2> QED BY <1>1, <2>2, <2>4 DEF OwnInv, OwnedOK
<1> QED BY <1>5, <1>6 DEF OwnedOK

\* Nobody holds a run that is not running.
LEMMA OwnRowSteps ==
  ASSUME OwnInv, UNCHANGED <<claims, doc>>,
         \A r \in Run : status'[r] = "running" => status[r] = "running",
         \A v \in Worker : workers'[v] = workers[v] \/ workers'[v] = Idle
  PROVE  TokensOK' /\ OwnedOK'
<1>1. Idle.pc = "idle"
  BY DEF Idle
<1>2. TokensOK'
  BY <1>1 DEF OwnInv, TokensOK
<1>3. ASSUME NEW v \in Worker, Holds(v)', Keeps(workers[v])'
      PROVE  doc' = workers'[v].doc
  <2>1. workers'[v] = workers[v] /\ workers[v].pc # "idle"
    BY <1>1, <1>3 DEF Holds
  <2>2. workers[v].run \in Run
    BY <2>1 DEF OwnInv, IndInv, WorkerOK, Carries
  <2>3. Holds(v) /\ Keeps(workers[v])
    BY <1>3, <2>1, <2>2 DEF Holds, Keeps, Acquired
  <2> QED BY <2>1, <2>3 DEF OwnInv, OwnedOK
<1> QED BY <1>2, <1>3 DEF OwnedOK

\* After a commit the lease is the writer's or nobody's, so only the writer can
\* go on with its document.
LEMMA OwnCommit ==
  ASSUME OwnInv, NEW w \in Worker, Commit(w)
  PROVE  TokensOK' /\ OwnedOK'
<1> DEFINE me == workers[w]
<1>1. /\ me \in WorkerStates /\ WorkerOK(me) /\ me.pc = "cas" /\ me.run \in Run
      /\ Holds(w) /\ Prepared(me)
      /\ doc' = me.next /\ status' = status /\ claims' = claims
      /\ me.version = version
  BY DEF OwnInv, IndInv, TypeOK, WorkerOK, Carries, Commit, Committable
<1>2. \A next : Step(w, next) =>
        workers'[w] = next /\ \A v \in Worker \ {w} : workers'[v] = workers[v]
  BY DEF Step, OwnInv, IndInv, TypeOK
<1>3. \A v \in Worker \ {w} : workers'[v] = workers[v]
  BY <1>2 DEF Commit, ToFinish
<1>4. /\ workers'[w].run = me.run /\ workers'[w].token = me.token
      /\ \/ workers'[w].pc = "finish"
         \/ workers'[w].pc = "loop" /\ workers'[w].doc = me.next
  <2>1. CASE me.purpose = "release"
    <3> DEFINE gone == [Idle EXCEPT !.pc = "finish", !.run = me.run, !.token = me.token]
    <3>1. workers'[w] = gone
      BY <1>2, <2>1 DEF Commit, ToFinish
    <3>2. gone.pc = "finish" /\ gone.run = me.run /\ gone.token = me.token
      BY DEF Idle
    <3> QED BY <3>1, <3>2
  <2>2. CASE me.purpose # "release"
    <3> DEFINE onward == [me EXCEPT !.pc = "loop", !.doc = me.next, !.url = NoUrl,
                                    !.version = version + 1, !.next = EmptyDocument,
                                    !.entries = {}, !.tries = 0]
    <3>1. workers'[w] = onward
      BY <1>2, <2>2 DEF Commit
    <3>2. /\ onward.pc = "loop" /\ onward.run = me.run /\ onward.token = me.token
          /\ onward.doc = me.next
      BY <1>1 DEF WorkerStates
    <3> QED BY <3>1, <3>2
  <2> QED BY <2>1, <2>2
<1>5. TokensOK'
  BY <1>1, <1>3, <1>4 DEF OwnInv, TokensOK
<1>6. me.next.lease \in {me.run, NoRun}
  BY <1>1 DEF WorkerOK, Prepared, Consumed, Missed, Sees, Acquired
<1>7. ASSUME NEW v \in Worker, Holds(v)', Keeps(workers[v])'
      PROVE  doc' = workers'[v].doc
  <2>1. CASE v = w
    BY <1>1, <1>4, <1>7, <2>1 DEF Keeps, Acquired
  <2>2. CASE v # w
    <3>1. workers'[v] = workers[v] /\ Holds(v) /\ workers[v].pc # "idle"
      BY <1>1, <1>3, <1>7, <2>2 DEF Holds
    <3>2. workers[v].run \in Run
      BY <3>1 DEF OwnInv, IndInv, WorkerOK, Carries
    <3>3. workers[v].run # me.run
      BY <1>1, <2>2, <3>1 DEF Holds, OwnInv, TokensOK
    <3>4. ~SoleRun
      BY <1>1, <3>2, <3>3 DEF SoleRun
    <3>5. doc'.lease = workers[v].run
      BY <1>7, <3>1, <3>4 DEF Keeps
    <3> QED BY <1>1, <1>6, <3>2, <3>3, <3>5, FrontierAssumption
  <2> QED BY <2>1, <2>2
<1> QED BY <1>5, <1>7 DEF OwnedOK

\* What OwnWorkerSteps asks of a step that leaves the crawl.
LEMMA OwnToFinish ==
  ASSUME OwnInv, NEW w \in Worker, workers[w].pc # "idle", ToFinish(w),
         UNCHANGED <<status, claims, crawlVars, ghostVars>>
  PROVE  TokensOK' /\ OwnedOK'
<1> DEFINE me == workers[w]
           next == [Idle EXCEPT !.pc = "finish", !.run = me.run, !.token = me.token]
<1>1. me.run \in Run /\ me.token \in Nat
  BY DEF OwnInv, IndInv, TypeOK, WorkerStates, WorkerOK, Carries
<1>2. next \in WorkerStates
  BY <1>1, LeavingIsOK DEF OwnInv, IndInv
<1>3. next.pc = "finish" /\ next.run = me.run /\ next.token = me.token
  BY DEF Idle
<1>4. Step(w, next)
  BY DEF ToFinish
<1> HIDE DEF next
<1> QED BY <1>2, <1>3, <1>4, OwnWorkerSteps

\* The document read as the base of an acquisition is the stored one.
LEMMA OwnReadBase ==
  ASSUME OwnInv, NEW w \in Worker, ReadBase(w), IndInv'
  PROVE  TokensOK' /\ OwnedOK'
<1> DEFINE me == workers[w]
           d == SetLease(Merge(doc, me.entries), me.run)
           next == [Pending(w, d, "acquire") EXCEPT !.doc = doc, !.version = version]
<1>1. me \in WorkerStates /\ me.pc = "base"
  BY DEF OwnInv, IndInv, TypeOK, ReadBase
<1>2. CASE ToFinish(w)
  BY <1>1, <1>2, OwnToFinish DEF ReadBase
<1> HIDE DEF d
<1>3. CASE Step(w, next)
  <2>1. workers'[w] = next /\ workers'[w] \in WorkerStates
    BY <1>3 DEF OwnInv, IndInv, TypeOK, Step
  <2>2. next.pc = "cas" /\ next.run = me.run /\ next.token = me.token /\ next.doc = doc
    BY <1>1 DEF Pending, WorkerStates
  <2> HIDE DEF next
  <2> QED BY <1>1, <1>3, <2>1, <2>2, OwnWorkerSteps DEF ReadBase
<1> QED BY <1>2, <1>3 DEF ReadBase, d

\* The steps between two transactions keep the document the worker has.
LEMMA OwnPending ==
  ASSUME OwnInv, NEW w \in Worker, NEW d, NEW purpose,
         workers[w].pc \in {"loop", "page"}, Step(w, Pending(w, d, purpose)),
         UNCHANGED <<status, claims, crawlVars, ghostVars>>, IndInv'
  PROVE  TokensOK' /\ OwnedOK'
<1> DEFINE me == workers[w]
<1>1. me \in WorkerStates
  BY DEF OwnInv, IndInv, TypeOK
<1>2. workers'[w] = Pending(w, d, purpose)
  BY DEF OwnInv, IndInv, TypeOK, Step
<1>3. /\ workers'[w].pc = "cas" /\ workers'[w].run = me.run
      /\ workers'[w].token = me.token /\ workers'[w].doc = me.doc
  BY <1>1, <1>2 DEF Pending, WorkerStates
<1>4. workers'[w] \in WorkerStates
  BY DEF IndInv, TypeOK
<1>5. Step(w, workers'[w])
  BY <1>2 DEF Step, OwnInv, IndInv, TypeOK
<1>6. Keeps(workers'[w]) => Keeps(me)
  BY <1>3 DEF Keeps, Acquired
<1> QED BY <1>3, <1>4, <1>5, <1>6, OwnWorkerSteps

LEMMA OwnNext ==
  OwnInv /\ [Next]_vars => OwnInv'
<1> SUFFICES ASSUME OwnInv, [Next]_vars PROVE TokensOK' /\ OwnedOK'
  BY NextKeeps DEF OwnInv
<1>0. IndInv'
  BY NextKeeps DEF OwnInv
<1>1. ASSUME NEW w \in Worker, PlanSeed(w) PROVE TokensOK' /\ OwnedOK'
  <2>1. PICK links : Step(w, [workers[w] EXCEPT !.pc = "base", !.entries = Planned(doc, links)])
    BY <1>1 DEF PlanSeed
  <2> DEFINE next == [workers[w] EXCEPT !.pc = "base", !.entries = Planned(doc, links)]
  <2>2. workers[w] \in WorkerStates /\ workers[w].pc = "plan"
    BY <1>1 DEF OwnInv, IndInv, TypeOK, PlanSeed
  <2>3. workers'[w] = next /\ workers'[w] \in WorkerStates
    BY <1>0, <2>1 DEF OwnInv, IndInv, TypeOK, Step
  <2>4. next.pc = "base" /\ next.run = workers[w].run /\ next.token = workers[w].token
    BY <2>2 DEF WorkerStates
  <2> HIDE DEF next
  <2> QED BY <1>1, <2>1, <2>2, <2>3, <2>4, OwnWorkerSteps DEF PlanSeed, next
<1>2. ASSUME NEW w \in Worker, CommitMissed(w) PROVE TokensOK' /\ OwnedOK'
  <2> DEFINE next == [workers[w] EXCEPT !.pc = "reread"]
  <2>1. workers[w] \in WorkerStates /\ workers[w].pc = "cas" /\ Step(w, next)
    BY <1>2 DEF OwnInv, IndInv, TypeOK, CommitMissed
  <2>2. workers'[w] = next /\ workers'[w] \in WorkerStates
    BY <1>0, <2>1 DEF OwnInv, IndInv, TypeOK, Step
  <2>3. /\ next.pc = "reread" /\ next.run = workers[w].run
        /\ next.token = workers[w].token /\ next.doc = workers[w].doc
        /\ next.purpose = workers[w].purpose
    BY <2>1 DEF WorkerStates
  <2> HIDE DEF next
  <2>4. Keeps(next) => Keeps(workers[w])
    BY <2>1, <2>3 DEF Keeps, Acquired
  <2> QED BY <1>2, <2>1, <2>2, <2>3, <2>4, OwnWorkerSteps DEF CommitMissed
<1>3. ASSUME NEW w \in Worker, Reread(w) PROVE TokensOK' /\ OwnedOK'
  <2> DEFINE next == [workers[w] EXCEPT !.pc = "cas", !.version = version, !.tries = @ + 1]
  <2>1. workers[w] \in WorkerStates /\ workers[w].pc = "reread"
    BY <1>3 DEF OwnInv, IndInv, TypeOK, Reread
  <2>2. CASE ToFinish(w)
    BY <1>3, <2>1, <2>2, OwnToFinish DEF Reread
  <2>3. CASE Step(w, next)
    <3>1. workers'[w] = next /\ workers'[w] \in WorkerStates
      BY <1>0, <2>3 DEF OwnInv, IndInv, TypeOK, Step
    <3>2. /\ next.pc = "cas" /\ next.run = workers[w].run
          /\ next.token = workers[w].token /\ next.doc = workers[w].doc
          /\ next.purpose = workers[w].purpose
      BY <2>1 DEF WorkerStates
    <3> HIDE DEF next
    <3>3. Keeps(next) => Keeps(workers[w])
      BY <2>1, <3>2 DEF Keeps, Acquired
    <3> QED BY <1>3, <2>1, <2>3, <3>1, <3>2, <3>3, OwnWorkerSteps DEF Reread
  <2> QED BY <1>3, <2>2, <2>3 DEF Reread
<1>4. ASSUME NEW w \in Worker, Loop(w) PROVE TokensOK' /\ OwnedOK'
  <2> DEFINE me == workers[w]
             skips == [me EXCEPT !.skipped = @ \cup {NextTarget(me.doc, me.skipped)}]
             turns == [me EXCEPT !.pc = "page", !.url = NextTarget(me.doc, me.skipped)]
  <2>1. me \in WorkerStates /\ me.pc = "loop"
    BY <1>4 DEF OwnInv, IndInv, TypeOK, Loop
  <2>2. CASE ToFinish(w)
    BY <1>4, <2>1, <2>2, OwnToFinish DEF Loop
  <2>3. CASE Release(w)
    BY <1>0, <1>4, <2>1, <2>3, OwnPending DEF Loop, Release
  <2>4. CASE Step(w, skips) \/ Step(w, turns)
    <3>1. PICK next : (next = skips \/ next = turns) /\ Step(w, next)
      BY <2>4
    <3>2. workers'[w] = next /\ workers'[w] \in WorkerStates
      BY <1>0, <3>1 DEF OwnInv, IndInv, TypeOK, Step
    <3>3. /\ next.pc \in {"loop", "page"} /\ next.run = me.run
          /\ next.token = me.token /\ next.doc = me.doc
      BY <2>1, <3>1 DEF WorkerStates
    <3>4. Keeps(next) => Keeps(me)
      BY <2>1, <3>3 DEF Keeps, Acquired
    <3> QED BY <1>4, <2>1, <3>1, <3>2, <3>3, <3>4, OwnWorkerSteps DEF Loop
  <2> QED BY <1>4, <2>2, <2>3, <2>4 DEF Loop
<1>5. ASSUME NEW w \in Worker, FetchPage(w) PROVE TokensOK' /\ OwnedOK'
  BY <1>0, <1>5, OwnPending DEF FetchPage
<1>6. ASSUME NEW w \in Worker, FetchFails(w) PROVE TokensOK' /\ OwnedOK'
  <2> DEFINE d == PageFailed(workers[w].doc, workers[w].url)
             p == Pending(w, d, "failed")
             next == [p EXCEPT !.skipped = @ \cup {workers[w].url}]
  <2>1. /\ Step(w, next) /\ workers[w].pc = "page" /\ workers[w] \in WorkerStates
        /\ UNCHANGED <<status, claims, crawlVars, ghostVars>>
    BY <1>6 DEF FetchFails, OwnInv, IndInv, TypeOK
  <2>2. workers'[w] = next /\ workers'[w] \in WorkerStates
    BY <1>0, <2>1 DEF OwnInv, IndInv, TypeOK, Step
  <2> HIDE DEF d
  <2>3. /\ next.pc = "cas" /\ next.run = workers[w].run
        /\ next.token = workers[w].token /\ next.doc = workers[w].doc
    BY <2>1 DEF Pending, WorkerStates
  <2> HIDE DEF next
  <2>4. Keeps(next) => Keeps(workers[w])
    BY <2>1, <2>3 DEF Keeps, Acquired
  <2> QED BY <2>1, <2>2, <2>3, <2>4, OwnWorkerSteps
<1>7. ASSUME NEW w \in Worker, Finish(w) PROVE TokensOK' /\ OwnedOK'
  <2>1. \A v \in Worker : workers'[v] = workers[v] \/ workers'[v] = Idle
    BY <1>7 DEF OwnInv, IndInv, TypeOK, Finish, Step
  <2>2. \A r \in Run : status'[r] = "running" => status[r] = "running"
    BY <1>7 DEF OwnInv, IndInv, TypeOK, Finish
  <2> QED BY <1>7, <2>1, <2>2, OwnRowSteps DEF Finish
<1>8. ASSUME NEW w \in Worker, CrawlRaises(w) PROVE TokensOK' /\ OwnedOK'
  BY <1>8, OwnToFinish DEF CrawlRaises
<1>9. ASSUME NEW w \in Worker, Crash(w) PROVE TokensOK' /\ OwnedOK'
  <2>1. \A v \in Worker : workers'[v] = workers[v] \/ workers'[v] = Idle
    BY <1>9 DEF OwnInv, IndInv, TypeOK, Crash, Step
  <2> QED BY <1>9, <2>1, OwnRowSteps DEF Crash, crawlVars
<1>10. ASSUME NEW r \in Run, Recover(r) PROVE TokensOK' /\ OwnedOK'
  <2>1. \A s \in Run : status'[s] = "running" => status[s] = "running"
    BY <1>10 DEF OwnInv, IndInv, TypeOK, Recover
  <2> QED BY <1>10, <2>1, OwnRowSteps DEF Recover, crawlVars
<1>11. CASE CrawlLeaseExpires
  BY <1>11, OwnRowSteps DEF CrawlLeaseExpires
<1>12. CASE UNCHANGED vars
  BY <1>12, OwnRowSteps DEF vars, crawlVars
<1> QED
  BY <1>1, <1>2, <1>3, <1>4, <1>5, <1>6, <1>7, <1>8, <1>9, <1>10, <1>11, <1>12,
     OwnReadBase, OwnCommit, OwnClaim, <1>0 DEF Next, CrawlStep

LEMMA OwnInit == Init => OwnInv
<1> SUFFICES ASSUME Init PROVE TokensOK /\ OwnedOK
  BY InitIsOK DEF OwnInv
<1>1. \A w \in Worker : workers[w].pc = "idle"
  BY DEF Init, Idle
<1> QED BY <1>1 DEF TokensOK, OwnedOK, Holds

LEMMA OwnInductive == Spec => []OwnInv
BY OwnInit, OwnNext, PTL DEF Spec

\* A page record or a release that goes through replaces the document the crawl
\* committed last: the version it compares is one under which it saw its own
\* lease, and only the holder of the run writes under that lease.
THEOREM StepsReplaceWhatTheyRead == Spec => StepsBuildOnStored
<1>1. ASSUME OwnInv, NEW w \in Worker, Commit(w), workers[w].purpose # "acquire"
      PROVE  doc = workers[w].doc
  <2>1. /\ Holds(w) /\ workers[w].pc = "cas" /\ workers[w].version = version
        /\ WorkerOK(workers[w])
    BY <1>1 DEF Commit, Committable, OwnInv, IndInv
  <2>2. Keeps(workers[w])
    BY <1>1, <2>1 DEF Keeps, Acquired, WorkerOK, Sees
  <2> QED BY <1>1, <2>1, <2>2 DEF OwnInv, OwnedOK
<1>2. OwnInv => \A w \in Worker : Commit(w) /\ workers[w].purpose # "acquire"
                                    => doc = workers[w].doc
  BY <1>1
<1> QED BY <1>2, OwnInductive, PTL DEF Spec, StepsBuildOnStored

--------------------------------------------------------------------------------
(* A source with a single run keeps the contract.                             *)

\* With a single run nothing is ever overwritten: every commit is the work of
\* the holder, and nobody else wrote since it read the document.
LEMMA SoleRunOverwritesNothing ==
  ASSUME SoleRun
  PROVE  Spec => []~overwritten
<1>1. Init => ~overwritten
  BY DEF Init
<1>2. OwnInv /\ ~overwritten /\ [Next]_vars => ~overwritten'
  <2> SUFFICES ASSUME OwnInv, ~overwritten, [Next]_vars PROVE ~overwritten'
    OBVIOUS
  <2>1. CASE \E w \in Worker : Commit(w)
    <3>1. PICK w \in Worker : Commit(w)
      BY <2>1
    <3>2. Holds(w) /\ workers[w].pc = "cas"
      BY <3>1 DEF Commit, Committable
    <3>3. doc = workers[w].doc
      BY <3>2, SoleRun DEF Keeps, OwnInv, OwnedOK
    <3> QED BY <3>1, <3>3 DEF Commit
  <2>2. CASE ~\E w \in Worker : Commit(w)
    BY <2>2, OnlyCommitsRecord DEF ghostVars
  <2> QED BY <2>1, <2>2
<1> QED BY <1>1, <1>2, OwnInductive, PTL DEF Spec

\* The stage of a URL of which the records are exact.
LEMMA StageOfExact ==
  ASSUME NEW u \in Url, fetched[u] \in Nat, Exact(u), doc.frontier \subseteq doc.seen
  PROVE  /\ u \notin doc.seen => Stage(u) = "unknown"
         /\ u \in doc.frontier => Stage(u) = "waiting"
         /\ u \in doc.seen \ doc.frontier =>
              Stage(u) = IF fetched[u] > 0 THEN "fetched" ELSE "abandoned"
<1>1. CASE fetched[u] > 0
  BY <1>1 DEF Stage, Exact
<1>2. CASE ~(fetched[u] > 0)
  <2>1. fetched[u] = 0
    BY <1>2
  <2> QED BY <2>1 DEF Stage, Exact
<1> QED BY <1>1, <1>2

\* One step of the crawl is one step of the contract, or none.
LEMMA StepKeepsContract ==
  ASSUME IndInv, IndInv', FrontierExact, FrontierExact', ~overwritten, ~overwritten',
         [Next]_vars
  PROVE  [Contract!Next]_(Contract!contractVars)
<1> DEFINE stages == [u \in Url |-> Stage(u)]
           Grow == doc'.seen \ doc.seen
<1>1. \A u \in Url : Exact(u) /\ Exact(u)'
  BY DEF FrontierExact, Exact
<1>2. /\ doc.frontier \subseteq doc.seen /\ doc'.frontier \subseteq doc'.seen
      /\ doc.seen \subseteq Url /\ doc'.seen \subseteq Url
      /\ \A u \in Url : doc.tries[u] \in Nat /\ doc.tries[u] < MaxAttempts
      /\ MaxAttempts \in Nat \ {0}
  BY FrontierAssumption DEF IndInv, Document, Documents, Sound
<1>3. /\ fetched \in [Url -> Nat] /\ fetched' \in [Url -> Nat]
      /\ failures \in [Url -> Nat] /\ failures' \in [Url -> Nat]
  BY DEF IndInv, TypeOK
<1>4. \A u \in Url :
        /\ u \notin doc.seen => Stage(u) = "unknown"
        /\ u \in doc.frontier => Stage(u) = "waiting"
        /\ u \in doc.seen \ doc.frontier =>
             Stage(u) = IF fetched[u] > 0 THEN "fetched" ELSE "abandoned"
  BY <1>1, <1>2, <1>3, StageOfExact
<1>5. \A u \in Url :
        /\ u \notin doc'.seen => Stage(u)' = "unknown"
        /\ u \in doc'.frontier => Stage(u)' = "waiting"
        /\ u \in doc'.seen \ doc'.frontier =>
             Stage(u)' = IF fetched'[u] > 0 THEN "fetched" ELSE "abandoned"
  <2> SUFFICES ASSUME NEW u \in Url PROVE
        /\ u \notin doc'.seen => Stage(u)' = "unknown"
        /\ u \in doc'.frontier => Stage(u)' = "waiting"
        /\ u \in doc'.seen \ doc'.frontier =>
             Stage(u)' = IF fetched'[u] > 0 THEN "fetched" ELSE "abandoned"
    OBVIOUS
  <2>1. Exact(u)' /\ fetched'[u] \in Nat
    BY <1>1, <1>3
  <2>2. CASE fetched'[u] > 0
    BY <1>2, <2>1, <2>2 DEF Stage, Exact
  <2>3. CASE ~(fetched'[u] > 0)
    <3>1. fetched'[u] = 0
      BY <2>1, <2>3
    <3> QED BY <1>2, <2>1, <3>1 DEF Stage, Exact
  <2> QED BY <2>2, <2>3
<1>6. CASE ~\E w \in Worker : Commit(w)
  <2>1. doc' = doc /\ fetched' = fetched /\ failures' = failures
    BY <1>6, OnlyCommitsRecord DEF ghostVars
  <2>2. stages' = stages
    BY <2>1 DEF Stage
  <2> QED BY <2>1, <2>2 DEF Contract!contractVars
<1>7. ASSUME NEW w \in Worker, Commit(w) PROVE Contract!Next
  <2> DEFINE me == workers[w]
  <2>1. me.doc = doc /\ doc' = me.next /\ Prepared(me)
    BY <1>7, CommitFromStored
  <2>2. \A u \in Url :
          /\ fetched'[u] = fetched[u] +
               IF me.purpose = "crawled" /\ me.url = u THEN 1 ELSE 0
          /\ failures'[u] = failures[u] +
               IF me.purpose = "failed" /\ me.url = u THEN 1 ELSE 0
    BY <1>7, CommitRecords
  <2>3. Grow \in SUBSET Contract!Unknown
    BY <1>2, <1>4 DEF Contract!Unknown
  <2>4. CASE me.purpose \in {"acquire", "release"}
    <3>1. \A u \in Url : fetched'[u] = fetched[u] /\ failures'[u] = failures[u]
      BY <1>3, <2>2, <2>4
    <3>2. failures' = failures
      BY <1>3, <3>1
    <3>3. Grown(doc, doc')
      BY <2>1, <2>4 DEF Prepared
    <3>4. \A u \in Url : Stage(u)' = IF u \in Grow THEN "waiting" ELSE Stage(u)
      BY <1>2, <1>4, <1>5, <3>1, <3>3 DEF Grown
    <3>5. stages' = [u \in Url |-> IF u \in Grow THEN "waiting" ELSE stages[u]]
      BY <3>4
    <3>6. Contract!Discover
      BY <2>3, <3>2, <3>5 DEF Contract!Discover
    <3> QED BY <3>6 DEF Contract!Next
  <2>5. CASE me.purpose = "crawled"
    <3>0. PICK p \in Url : p = me.url
      BY <1>2, <2>1, <2>5 DEF Prepared
    <3>1. p \in doc.frontier /\ Consumed(doc, p, doc')
      BY <2>1, <2>5, <3>0 DEF Prepared
    <3>2. /\ \A u \in Url \ {p} : fetched'[u] = fetched[u]
          /\ \A u \in Url : failures'[u] = failures[u]
          /\ fetched'[p] = fetched[p] + 1
      BY <1>3, <2>2, <2>5, <3>0
    <3>3. failures' = failures
      BY <1>3, <3>2
    <3>4. \A u \in Url : Stage(u)' = IF u = p THEN "fetched"
                                     ELSE IF u \in Grow THEN "waiting" ELSE Stage(u)
      <4>1. Stage(p)' = "fetched"
        <5>1. fetched'[p] > 0
          BY <1>3, <3>1, <3>2
        <5> QED BY <5>1 DEF Stage
      <4>2. \A u \in Url \ {p} :
              Stage(u)' = IF u \in Grow THEN "waiting" ELSE Stage(u)
        BY <1>2, <1>4, <1>5, <3>1, <3>2 DEF Consumed
      <4> QED BY <4>1, <4>2
    <3>5. stages' = [u \in Url |-> IF u = p THEN "fetched"
                                   ELSE IF u \in Grow THEN "waiting" ELSE stages[u]]
      BY <3>4
    <3>6. stages[p] = "waiting"
      BY <1>4, <3>1
    <3>7. Contract!Fetch(p)
      BY <2>3, <3>3, <3>5, <3>6 DEF Contract!Fetch
    <3> QED BY <3>1, <3>7 DEF Contract!Next
  <2>6. CASE me.purpose = "failed"
    <3>0. PICK p \in Url : p = me.url
      BY <1>2, <2>1, <2>6 DEF Prepared
    <3>1. p \in doc.frontier /\ Missed(doc, p, doc')
      BY <2>1, <2>6, <3>0 DEF Prepared
    <3>2. /\ \A u \in Url : fetched'[u] = fetched[u]
          /\ \A u \in Url \ {p} : failures'[u] = failures[u]
          /\ failures'[p] = failures[p] + 1
      BY <1>3, <2>2, <2>6, <3>0
    <3>3. failures' = [failures EXCEPT ![p] = @ + 1]
      BY <1>3, <3>1, <3>2
    <3>4. fetched[p] = 0 /\ failures[p] = doc.tries[p]
      BY <1>1, <1>2, <3>1 DEF Exact
    <3>5. Stage(p)' = IF failures[p] + 1 = MaxAttempts
                           THEN "abandoned" ELSE "waiting"
      <4>1. fetched'[p] = 0 /\ doc'.seen = doc.seen
        BY <3>1, <3>2, <3>4 DEF Missed
      <4>2. CASE doc.tries[p] + 1 >= MaxAttempts
        <5>1. failures[p] + 1 = MaxAttempts
          BY <1>2, <3>1, <3>4, <4>2
        <5>2. p \in doc'.seen \ doc'.frontier
          BY <1>2, <3>1, <4>1, <4>2 DEF Missed
        <5> QED BY <1>5, <3>1, <4>1, <5>1, <5>2
      <4>3. CASE doc.tries[p] + 1 < MaxAttempts
        <5>1. failures[p] + 1 # MaxAttempts
          BY <1>2, <3>1, <3>4, <4>3
        <5>2. p \in doc'.frontier
          BY <1>2, <3>1, <4>3 DEF Missed
        <5> QED BY <1>5, <3>1, <5>1, <5>2
      <4> QED BY <1>2, <3>1, <4>2, <4>3
    <3>6. \A u \in Url \ {p} : Stage(u)' = Stage(u)
      BY <1>2, <1>4, <1>5, <3>1, <3>2 DEF Missed
    <3>7. stages' = [stages EXCEPT ![p] =
                       IF failures[p] + 1 = MaxAttempts
                       THEN "abandoned" ELSE "waiting"]
      BY <3>1, <3>5, <3>6
    <3>8. stages[p] = "waiting"
      BY <1>4, <3>1
    <3>9. Contract!Fail(p)
      BY <3>3, <3>7, <3>8 DEF Contract!Fail
    <3> QED BY <3>1, <3>9 DEF Contract!Next
  <2> QED BY <2>1, <2>4, <2>5, <2>6 DEF Prepared
<1> QED BY <1>6, <1>7

\* Several runs of a source keep the contract, URL by URL, until an acquisition
\* replaces a document it had not read: every step before that one, and whatever
\* it does to the document, is a step of FrontierContract. (crawl_frontier)
THEOREM ContractUntilOverwritten ==
  Spec => [][~overwritten' => [Contract!Next]_(Contract!contractVars)]_vars
<1>1. overwritten => overwritten' \/ ~[Next]_vars
  <2> SUFFICES ASSUME overwritten, [Next]_vars PROVE overwritten'
    OBVIOUS
  <2>1. CASE \E w \in Worker : Commit(w)
    BY <2>1 DEF Commit
  <2>2. CASE ~\E w \in Worker : Commit(w)
    BY <2>2, OnlyCommitsRecord DEF ghostVars
  <2> QED BY <2>1, <2>2
<1>2. /\ IndInv /\ IndInv' /\ FrontierExact /\ FrontierExact' /\ [Next]_vars
      => [~overwritten' => [Contract!Next]_(Contract!contractVars)]_vars
  BY <1>1, StepKeepsContract
<1> QED BY <1>2, Inductive, RecordsAreExact, PTL DEF Spec

\* What follows for behaviours in which that never happens.
LEMMA ContractUnlessOverwritten == Spec /\ []~overwritten => ContractSpec /\ []PagesOnce
<1>1. Init => Contract!Init
  <2> SUFFICES ASSUME Init PROVE Contract!Init
    OBVIOUS
  <2>1. \A u \in Url : Stage(u) = "unknown"
    BY DEF Init, EmptyDocument, Stage
  <2>2. [u \in Url |-> Stage(u)] = [u \in Url |-> "unknown"]
    BY <2>1
  <2> QED BY <2>2 DEF Init, Contract!Init
<1>2. /\ IndInv /\ IndInv' /\ FrontierExact /\ FrontierExact'
      /\ ~overwritten /\ ~overwritten' /\ [Next]_vars
      => [Contract!Next]_(Contract!contractVars)
  BY StepKeepsContract
<1>3. FrontierExact /\ ~overwritten => PagesOnce
  BY DEF FrontierExact, PagesOnce
<1> QED BY <1>1, <1>2, <1>3, Inductive, RecordsAreExact, PTL
        DEF Spec, ContractSpec, Contract!Spec

\* A source with a single run, claimed again and again by workers that may
\* overlap, crash and conflict, implements FrontierContract: every URL is
\* discovered once and fetched once or abandoned after MaxAttempts failures.
THEOREM SoleRunKeepsContract ==
  ASSUME SoleRun
  PROVE  Spec => ContractSpec
<1>1. Spec => []~overwritten
  BY SoleRun, SoleRunOverwritesNothing
<1> QED BY <1>1, ContractUnlessOverwritten, PTL

\* In particular a source whose runs do not overlap fetches no page twice: the
\* claim "a fetched URL is not fetched again" holds of it. (docs/61:74)
THEOREM SoleRunFetchesOnce ==
  ASSUME SoleRun
  PROVE  Spec => []PagesOnce
<1>1. Spec => []~overwritten
  BY SoleRun, SoleRunOverwritesNothing
<1> QED BY <1>1, ContractUnlessOverwritten, PTL

--------------------------------------------------------------------------------
(* Several runs overwrite each other's documents in one way only: the         *)
(* acquisition is tried again, after a conflict, with the document it had     *)
(* built on the one it read before.                                           *)

\* The acquisitions that go through do so at their first try.
AcquiresAtOnce ==
  [][\A w \in Worker :
       Commit(w) /\ workers[w].purpose = "acquire" => workers[w].tries = 1]_vars

\* A write is counted as tried, and an acquisition at its first try was built on
\* the document that has the version it compares.
Fresh(me) ==
  /\ me.pc \in {"cas", "reread"} => me.tries >= 1
  /\ me.pc = "cas" /\ me.purpose = "acquire" /\ me.tries = 1 /\ me.version = version
       => me.doc = doc

FreshOK == \A w \in Worker : Fresh(workers[w])

\* A worker steps and the others stay fresh: the version moves with the document.
LEMMA FreshStep ==
  ASSUME IndInv, FreshOK, NEW w \in Worker, NEW next, Step(w, next),
         \/ doc' = doc /\ version' = version
         \/ version' = version + 1,
         next.pc \in {"cas", "reread"} => next.tries >= 1,
         next.pc = "cas" /\ next.purpose = "acquire" =>
           \/ next.tries # 1
           \/ next.doc = doc /\ doc' = doc
  PROVE  FreshOK'
<1>1. /\ workers'[w] = next
      /\ \A v \in Worker \ {w} : workers'[v] = workers[v]
  BY DEF IndInv, TypeOK, Step
<1>2. Fresh(workers[w])'
  BY <1>1 DEF Fresh
<1>3. ASSUME NEW v \in Worker \ {w} PROVE Fresh(workers[v])'
  <2>1. /\ Fresh(workers[v]) /\ workers'[v] = workers[v]
        /\ workers[v].version =< version /\ version \in Nat
        /\ workers[v].version \in Nat
    BY <1>1 DEF FreshOK, IndInv, WorkerOK, Sees, TypeOK, WorkerStates
  <2>2. CASE doc' = doc /\ version' = version
    BY <2>1, <2>2 DEF Fresh
  <2>3. CASE version' = version + 1
    <3>1. workers[v].version # version'
      BY <2>1, <2>3
    <3> QED BY <2>1, <3>1 DEF Fresh
  <2> QED BY <2>2, <2>3
<1> QED BY <1>2, <1>3 DEF FreshOK

LEMMA FreshNext ==
  ASSUME IndInv, FreshOK, [Next]_vars
  PROVE  FreshOK'
<1>1. ASSUME NEW w \in Worker, NEW next, Step(w, next),
             doc' = doc, version' = version \/ version' = version + 1,
             next.pc \notin {"cas", "reread"}
      PROVE  FreshOK'
  BY <1>1, FreshStep
<1>2. ASSUME NEW w \in Worker, ToFinish(w),
             doc' = doc, version' = version
      PROVE  FreshOK'
  <2>1. [Idle EXCEPT !.pc = "finish", !.run = workers[w].run,
                     !.token = workers[w].token].pc = "finish"
    BY DEF Idle
  <2> QED BY <1>1, <1>2, <2>1 DEF ToFinish
<1>3. ASSUME NEW w \in Worker, NEW d, NEW purpose \in {"crawled", "failed", "release"},
             Step(w, Pending(w, d, purpose)), doc' = doc, version' = version
      PROVE  FreshOK'
  <2> DEFINE next == Pending(w, d, purpose)
  <2>1. next.pc = "cas" /\ next.tries = 1 /\ next.purpose = purpose
    BY DEF Pending, IndInv, TypeOK, WorkerStates
  <2> HIDE DEF next
  <2> QED BY <1>3, <2>1, FreshStep DEF next
<1>4. ASSUME NEW w \in Worker, NEW r \in Run, Claim(w, r) PROVE FreshOK'
  <2>1. [Idle EXCEPT !.pc = "plan", !.run = r, !.token = claims[r] + 1].pc = "plan"
    BY DEF Idle
  <2> QED BY <1>1, <1>4, <2>1 DEF Claim, crawlVars
<1>5. ASSUME NEW w \in Worker, Finish(w) \/ Crash(w) PROVE FreshOK'
  <2>1. Idle.pc = "idle"
    BY DEF Idle
  <2>2. Step(w, Idle) /\ doc' = doc /\ (version' = version \/ version' = version + 1)
    BY <1>5 DEF Finish, Crash, crawlVars
  <2> QED BY <1>1, <2>1, <2>2
<1>6. ASSUME NEW w \in Worker, PlanSeed(w) PROVE FreshOK'
  <2>1. PICK links : Step(w, [workers[w] EXCEPT !.pc = "base", !.entries = Planned(doc, links)])
    BY <1>6 DEF PlanSeed
  <2>2. workers[w] \in WorkerStates
    BY DEF IndInv, TypeOK
  <2>3. [workers[w] EXCEPT !.pc = "base", !.entries = Planned(doc, links)].pc = "base"
    BY <2>2 DEF WorkerStates
  <2> QED BY <1>1, <1>6, <2>1, <2>3 DEF PlanSeed, crawlVars
<1>7. ASSUME NEW w \in Worker, ReadBase(w) PROVE FreshOK'
  <2> DEFINE d == SetLease(Merge(doc, workers[w].entries), workers[w].run)
             next == [Pending(w, d, "acquire") EXCEPT !.doc = doc, !.version = version]
  <2>1. doc' = doc /\ version' = version /\ (ToFinish(w) \/ Step(w, next))
    BY <1>7 DEF ReadBase, crawlVars
  <2>2. CASE Step(w, next)
    <3> HIDE DEF d
    <3>1. next.pc = "cas" /\ next.tries = 1 /\ next.doc = doc
      BY DEF Pending, IndInv, TypeOK, WorkerStates
    <3> HIDE DEF next
    <3> QED BY <2>1, <2>2, <3>1, FreshStep
  <2> QED BY <1>2, <2>1, <2>2
<1>8. ASSUME NEW w \in Worker, Commit(w) PROVE FreshOK'
  <2>1. version' = version + 1
    BY <1>8 DEF Commit
  <2>2. PICK next : Step(w, next) /\ next.pc \in {"finish", "loop"}
    <3>1. CASE workers[w].purpose = "release"
      <4> DEFINE gone == [Idle EXCEPT !.pc = "finish", !.run = workers[w].run,
                                      !.token = workers[w].token]
      <4>1. Step(w, gone)
        BY <1>8, <3>1 DEF Commit, ToFinish
      <4>2. gone.pc = "finish"
        BY DEF Idle
      <4> HIDE DEF gone
      <4> QED BY <4>1, <4>2
    <3>2. CASE workers[w].purpose # "release"
      <4> DEFINE onward == [workers[w] EXCEPT
                              !.pc = "loop", !.doc = workers[w].next, !.url = NoUrl,
                              !.version = version + 1, !.next = EmptyDocument,
                              !.entries = {}, !.tries = 0]
      <4>1. Step(w, onward)
        BY <1>8, <3>2 DEF Commit
      <4>2. onward.pc = "loop"
        BY DEF IndInv, TypeOK, WorkerStates
      <4> HIDE DEF onward
      <4> QED BY <4>1, <4>2
    <3> QED BY <3>1, <3>2
  <2> QED BY <2>1, <2>2, FreshStep
<1>9. ASSUME NEW w \in Worker, CommitMissed(w) PROVE FreshOK'
  <2> DEFINE next == [workers[w] EXCEPT !.pc = "reread"]
  <2>1. next.pc = "reread" /\ next.tries = workers[w].tries
    BY DEF IndInv, TypeOK, WorkerStates
  <2>2. workers[w].tries >= 1 /\ Step(w, next) /\ doc' = doc /\ version' = version
    BY <1>9 DEF CommitMissed, FreshOK, Fresh, crawlVars
  <2> HIDE DEF next
  <2> QED BY <2>1, <2>2, FreshStep
<1>10. ASSUME NEW w \in Worker, Reread(w) PROVE FreshOK'
  <2> DEFINE next == [workers[w] EXCEPT !.pc = "cas", !.version = version, !.tries = @ + 1]
  <2>1. /\ next.pc = "cas" /\ next.tries = workers[w].tries + 1
        /\ workers[w].tries \in 0..CasTries /\ CasTries \in Nat
    BY CrawlAssumption DEF IndInv, TypeOK, WorkerStates
  <2>2. /\ workers[w].tries >= 1 /\ doc' = doc /\ version' = version
        /\ Step(w, next) \/ ToFinish(w)
    BY <1>10 DEF Reread, FreshOK, Fresh, crawlVars
  <2> HIDE DEF next
  <2>3. CASE Step(w, next)
    <3>1. next.tries >= 1 /\ next.tries # 1
      BY <2>1, <2>2
    <3> QED BY <2>1, <2>2, <2>3, <3>1, FreshStep
  <2> QED BY <1>2, <2>2, <2>3
<1>11. ASSUME NEW w \in Worker, Loop(w) PROVE FreshOK'
  <2> DEFINE me == workers[w]
             skips == [me EXCEPT !.skipped = @ \cup {NextTarget(me.doc, me.skipped)}]
             turns == [me EXCEPT !.pc = "page", !.url = NextTarget(me.doc, me.skipped)]
  <2>1. doc' = doc /\ version' = version /\ me \in WorkerStates /\ me.pc = "loop"
    BY <1>11 DEF Loop, crawlVars, IndInv, TypeOK
  <2>2. skips.pc = "loop" /\ turns.pc = "page"
    BY <2>1 DEF WorkerStates
  <2>3. Release(w) \/ ToFinish(w) \/ Step(w, skips) \/ Step(w, turns)
    BY <1>11 DEF Loop
  <2> HIDE DEF skips, turns
  <2> QED BY <1>1, <1>2, <1>3, <2>1, <2>2, <2>3 DEF Release
<1>12. ASSUME NEW w \in Worker, FetchPage(w) PROVE FreshOK'
  BY <1>3, <1>12 DEF FetchPage, crawlVars
<1>13. ASSUME NEW w \in Worker, FetchFails(w) PROVE FreshOK'
  <2> DEFINE d == PageFailed(workers[w].doc, workers[w].url)
             p == Pending(w, d, "failed")
             next == [p EXCEPT !.skipped = @ \cup {workers[w].url}]
  <2>1. Step(w, next) /\ doc' = doc /\ version' = version
    BY <1>13 DEF FetchFails, crawlVars
  <2> HIDE DEF d
  <2>2. next.pc = "cas" /\ next.tries = 1 /\ next.purpose = "failed"
    BY DEF Pending, IndInv, TypeOK, WorkerStates
  <2> HIDE DEF next
  <2> QED BY <2>1, <2>2, FreshStep
<1>14. ASSUME NEW w \in Worker, CrawlRaises(w) PROVE FreshOK'
  BY <1>2, <1>14 DEF CrawlRaises, crawlVars
<1>15. CASE (\E r \in Run : Recover(r)) \/ CrawlLeaseExpires \/ UNCHANGED vars
  BY <1>15 DEF Recover, CrawlLeaseExpires, vars, crawlVars, FreshOK, Fresh
<1> QED
  BY <1>4, <1>5, <1>6, <1>7, <1>8, <1>9, <1>10, <1>11, <1>12, <1>13, <1>14, <1>15
     DEF Next, CrawlStep

\* The cause of the overwriting, and all of it: if no acquisition is stored by a
\* retry of cas_crawl_step, the runs of a source keep the contract together,
\* however they overlap, conflict and crash, and fetch no page twice.
THEOREM FirstTriesKeepContract ==
  Spec /\ AcquiresAtOnce => ContractSpec /\ []PagesOnce
<1> DEFINE AtOnce == \A w \in Worker :
             Commit(w) /\ workers[w].purpose = "acquire" => workers[w].tries = 1
<1>1. Init => FreshOK /\ ~overwritten
  BY DEF Init, Idle, FreshOK, Fresh
<1>2. IndInv /\ FreshOK /\ [Next]_vars => FreshOK'
  BY FreshNext
<1>3. OwnInv /\ FreshOK /\ ~overwritten /\ [Next]_vars /\ [AtOnce]_vars => ~overwritten'
  <2> SUFFICES ASSUME OwnInv, FreshOK, ~overwritten, [Next]_vars, [AtOnce]_vars
               PROVE  ~overwritten'
    OBVIOUS
  <2>1. CASE \E w \in Worker : Commit(w)
    <3>1. PICK w \in Worker : Commit(w)
      BY <2>1
    <3> DEFINE me == workers[w]
    <3>2. /\ Holds(w) /\ me.pc = "cas" /\ me.version = version /\ WorkerOK(me)
          /\ version' = version + 1 /\ version \in Nat
          /\ overwritten' = (overwritten \/ doc # me.doc)
      BY <3>1 DEF Commit, Committable, OwnInv, IndInv, TypeOK
    <3>3. doc = me.doc
      <4>1. CASE me.purpose = "acquire"
        <5>1. AtOnce
          BY <3>2 DEF vars, crawlVars
        <5>2. me.tries = 1
          BY <3>1, <4>1, <5>1
        <5> QED BY <3>2, <4>1, <5>2 DEF FreshOK, Fresh
      <4>2. CASE me.purpose # "acquire"
        <5>1. Keeps(me)
          BY <3>2, <4>2 DEF Keeps, Acquired, WorkerOK, Sees
        <5> QED BY <3>2, <5>1 DEF OwnInv, OwnedOK
      <4> QED BY <4>1, <4>2
    <3> QED BY <3>2, <3>3
  <2>2. CASE ~\E w \in Worker : Commit(w)
    BY <2>2, OnlyCommitsRecord DEF ghostVars
  <2> QED BY <2>1, <2>2
<1> HIDE DEF AtOnce
<1>4. Spec /\ [][AtOnce]_vars => []~overwritten
  BY <1>1, <1>2, <1>3, Inductive, OwnInductive, PTL DEF Spec
<1> QED BY <1>4, ContractUnlessOverwritten, PTL DEF AcquiresAtOnce, AtOnce

--------------------------------------------------------------------------------
(* The cap on the discovered URLs is broken in one way only: a plan is merged *)
(* with a document that has grown since the plan was made.                    *)

\* No URL is accepted while a run that holds its claim has a plan to merge.
PlansUndisturbed ==
  [][\A w \in Worker :
       workers[w].pc = "base" /\ Holds(w) => doc'.accepted = doc.accepted]_vars

\* What a holder will store, and the plan it will merge, fit max_discovered_urls.
Fits(me, accepted) ==
  /\ me.doc.accepted <= UrlCap
  /\ me.pc \in {"cas", "reread"} => me.next.accepted <= UrlCap
  /\ me.pc = "base" => accepted + Cardinality(me.entries) <= UrlCap

CapInv ==
  /\ DiscoveryCapped
  /\ \A w \in Worker : Holds(w) => Fits(workers[w], doc.accepted)

\* A worker goes on with its run, and the others hold what they held.
LEMMA CapStep ==
  ASSUME OwnInv, CapInv, NEW w \in Worker, NEW next, Step(w, next),
         status' = status, claims' = claims, doc'.accepted <= UrlCap,
         \A v \in Worker \ {w} :
           workers[v].pc = "base" /\ Holds(v) => doc'.accepted = doc.accepted,
         \/ next.pc = "idle"
         \/ /\ workers[w].pc # "idle"
            /\ next.run = workers[w].run /\ next.token = workers[w].token
            /\ Holds(w) => Fits(next, doc'.accepted)
  PROVE  CapInv'
<1>1. /\ workers'[w] = next
      /\ \A v \in Worker \ {w} : workers'[v] = workers[v]
  BY DEF OwnInv, IndInv, TypeOK, Step
<1>2. ASSUME NEW v \in Worker, Holds(v)' PROVE Fits(workers'[v], doc'.accepted)
  <2>1. CASE v = w
    BY <1>1, <1>2, <2>1 DEF Holds
  <2>2. CASE v # w
    <3>1. workers'[v] = workers[v] /\ Holds(v)
      BY <1>1, <1>2, <2>2 DEF Holds
    <3>2. Fits(workers[v], doc.accepted)
      BY <3>1 DEF CapInv
    <3> QED BY <2>2, <3>1, <3>2 DEF Fits
  <2> QED BY <2>1, <2>2
<1> QED BY <1>2 DEF CapInv, DiscoveryCapped

\* A run is claimed, taken back or ended: nobody holds it under an old token.
LEMMA CapRowStep ==
  ASSUME OwnInv, CapInv, doc' = doc,
         \A v \in Worker : Holds(v)' => Fits(workers'[v], doc.accepted) \/
                                        (workers'[v] = workers[v] /\ Holds(v))
  PROVE  CapInv'
BY DEF CapInv, DiscoveryCapped

LEMMA CapNext ==
  ASSUME OwnInv, CapInv, [Next]_vars,
         [\A w \in Worker :
            workers[w].pc = "base" /\ Holds(w) => doc'.accepted = doc.accepted]_vars
  PROVE  CapInv'
<1>0. /\ UrlCap \in Nat /\ 0 <= UrlCap /\ EmptyDocument.accepted = 0
      /\ Document(doc) /\ doc.accepted \in Nat /\ doc.accepted <= UrlCap
      /\ IndInv
  BY FrontierAssumption
     DEF EmptyDocument, OwnInv, IndInv, Document, Documents, CapInv, DiscoveryCapped
<1>1. ASSUME NEW w \in Worker
      PROVE  /\ workers[w] \in WorkerStates /\ WorkerOK(workers[w])
             /\ Document(workers[w].doc) /\ Document(workers[w].next)
             /\ workers[w].run \in Run \cup {NoRun}
  BY DEF OwnInv, IndInv, TypeOK, WorkerStates, WorkerOK, Carries
<1>2. ASSUME NEW w \in Worker, NEW next, Step(w, next), workers[w].pc # "idle",
             status' = status, claims' = claims, doc' = doc,
             \/ next.pc = "idle"
             \/ /\ next.run = workers[w].run /\ next.token = workers[w].token
                /\ Holds(w) => Fits(next, doc.accepted)
      PROVE  CapInv'
  BY <1>0, <1>2, CapStep
<1>3. ASSUME NEW w \in Worker, workers[w].pc # "idle", ToFinish(w),
             status' = status, claims' = claims, doc' = doc
      PROVE  CapInv'
  <2> DEFINE gone == [Idle EXCEPT !.pc = "finish", !.run = workers[w].run,
                                  !.token = workers[w].token]
  <2>1. /\ gone.pc = "finish" /\ gone.run = workers[w].run
        /\ gone.token = workers[w].token /\ gone.doc = EmptyDocument
    BY DEF Idle
  <2>2. Step(w, gone)
    BY <1>3 DEF ToFinish
  <2> HIDE DEF gone
  <2>3. Fits(gone, doc.accepted)
    BY <1>0, <2>1 DEF Fits
  <2> QED BY <1>2, <1>3, <2>1, <2>2, <2>3
<1>4. ASSUME NEW w \in Worker, NEW d, NEW purpose, Step(w, Pending(w, d, purpose)),
             workers[w].pc # "idle", status' = status, claims' = claims, doc' = doc,
             Holds(w) => d.accepted <= UrlCap
      PROVE  CapInv'
  <2> DEFINE next == Pending(w, d, purpose)
  <2>1. /\ next.pc = "cas" /\ next.run = workers[w].run /\ next.next = d
        /\ next.token = workers[w].token /\ next.doc = workers[w].doc
    BY <1>1 DEF Pending, WorkerStates
  <2>2. Step(w, next)
    BY <1>4
  <2> HIDE DEF next
  <2>3. Holds(w) => Fits(next, doc.accepted)
    BY <1>4, <2>1 DEF Fits, CapInv
  <2> QED BY <1>2, <1>4, <2>1, <2>2, <2>3
<1>5. ASSUME NEW w \in Worker, NEW r \in Run, Claim(w, r) PROVE CapInv'
  <2> DEFINE next == [Idle EXCEPT !.pc = "plan", !.run = r, !.token = claims[r] + 1]
  <2>1. /\ next.pc = "plan" /\ next.doc = EmptyDocument
    BY DEF Idle
  <2>2. Step(w, next) /\ doc' = doc
    BY <1>5 DEF Claim, crawlVars
  <2> HIDE DEF next
  <2>3. Fits(next, doc.accepted)
    BY <1>0, <2>1 DEF Fits
  <2>4. /\ workers'[w] = next
        /\ \A v \in Worker \ {w} : workers'[v] = workers[v]
    BY <2>2 DEF OwnInv, IndInv, TypeOK, Step
  <2>5. ASSUME NEW v \in Worker \ {w}, Holds(v)' PROVE Holds(v)
    <3>1. /\ workers'[v] = workers[v] /\ workers[v].pc # "idle"
          /\ workers[v].run \in Run /\ workers[v].token \in Nat
          /\ workers[v].token <= claims[workers[v].run]
          /\ claims[workers[v].run] \in Nat
      BY <2>4, <2>5 DEF Holds, OwnInv, TokensOK, IndInv, TypeOK, WorkerStates,
                        WorkerOK, Carries
    <3>2. /\ claims' = [claims EXCEPT ![r] = @ + 1] /\ claims \in [Run -> Nat]
          /\ status' = [status EXCEPT ![r] = "running"]
          /\ status \in [Run -> {"queued", "running", "ended"}]
      BY <1>5 DEF Claim, OwnInv, IndInv, TypeOK
    <3>3. workers[v].run # r
      BY <2>5, <3>1, <3>2 DEF Holds
    <3> QED BY <2>5, <3>1, <3>2, <3>3 DEF Holds
  <2> QED BY <2>2, <2>3, <2>4, <2>5, CapRowStep
<1>6. ASSUME NEW r \in Run, Recover(r) PROVE CapInv'
  <2>1. ASSUME NEW v \in Worker, Holds(v)' PROVE workers'[v] = workers[v] /\ Holds(v)
    <3>1. /\ workers' = workers /\ claims' = claims
          /\ status' = [status EXCEPT ![r] =
                          IF claims[r] >= MaxClaims THEN "ended" ELSE "queued"]
          /\ status \in [Run -> {"queued", "running", "ended"}]
          /\ workers[v].pc # "idle"
      BY <1>6, <2>1 DEF Recover, Holds, OwnInv, IndInv, TypeOK
    <3>2. workers[v].run \in Run
      BY <3>1 DEF OwnInv, IndInv, WorkerOK, Carries
    <3> QED BY <2>1, <3>1, <3>2 DEF Holds
  <2> QED BY <1>6, <2>1, CapRowStep DEF Recover, crawlVars
<1>7. ASSUME NEW w \in Worker, Finish(w) PROVE CapInv'
  <2>1. Idle.pc = "idle"
    BY DEF Idle
  <2>2. /\ workers'[w] = Idle /\ \A v \in Worker \ {w} : workers'[v] = workers[v]
        /\ doc' = doc /\ claims' = claims /\ workers[w].pc = "finish"
        /\ \A r \in Run : status'[r] = "running" => status[r] = "running"
    BY <1>7 DEF Finish, Step, OwnInv, IndInv, TypeOK
  <2>3. ASSUME NEW v \in Worker, Holds(v)' PROVE workers'[v] = workers[v] /\ Holds(v)
    <3>1. v # w /\ workers'[v] = workers[v] /\ workers[v].pc # "idle"
      BY <2>1, <2>2, <2>3 DEF Holds
    <3>2. workers[v].run \in Run
      BY <3>1 DEF OwnInv, IndInv, WorkerOK, Carries
    <3> QED BY <2>2, <2>3, <3>1, <3>2 DEF Holds
  <2> QED BY <2>2, <2>3, CapRowStep
<1>8. ASSUME NEW w \in Worker, Crash(w) PROVE CapInv'
  BY <1>2, <1>8 DEF Crash, crawlVars, Idle
<1>9. ASSUME NEW w \in Worker, PlanSeed(w) PROVE CapInv'
  <2>1. PICK links \in SeedContents :
          Step(w, [workers[w] EXCEPT !.pc = "base", !.entries = Planned(doc, links)])
    BY <1>9 DEF PlanSeed
  <2> DEFINE next == [workers[w] EXCEPT !.pc = "base", !.entries = Planned(doc, links)]
  <2>2. /\ next.pc = "base" /\ next.entries = Planned(doc, links)
        /\ next.run = workers[w].run /\ next.token = workers[w].token
        /\ next.doc = workers[w].doc
    BY <1>1 DEF WorkerStates
  <2>3. doc.accepted + Cardinality(Planned(doc, links)) <= UrlCap
    BY <1>0, PlannedKeepsCap, CrawlAssumption
  <2>4. Step(w, next)
    BY <2>1
  <2> HIDE DEF next
  <2>5. Holds(w) => Fits(next, doc.accepted)
    BY <2>2, <2>3 DEF Fits, CapInv
  <2> QED BY <1>2, <1>9, <2>2, <2>4, <2>5 DEF PlanSeed, crawlVars
<1>10. ASSUME NEW w \in Worker, ReadBase(w) PROVE CapInv'
  <2> DEFINE me == workers[w]
             d == SetLease(Merge(doc, me.entries), me.run)
             next == [Pending(w, d, "acquire") EXCEPT !.doc = doc, !.version = version]
  <2>1. /\ doc' = doc /\ status' = status /\ claims' = claims /\ me.pc = "base"
        /\ ToFinish(w) \/ Step(w, next)
    BY <1>10 DEF ReadBase, crawlVars
  <2>2. CASE Step(w, next)
    <3>1. Holds(w) => d.accepted <= UrlCap
      <4> SUFFICES ASSUME Holds(w) PROVE d.accepted <= UrlCap
        OBVIOUS
      <4>1. /\ me.entries \in SUBSET Url /\ IsFiniteSet(me.entries)
            /\ doc.accepted + Cardinality(me.entries) <= UrlCap
        BY <1>1, <2>1 DEF CapInv, Fits, WorkerStates, WorkerOK, Carries
      <4> DEFINE merged == Merge(doc, me.entries)
      <4>2. /\ Cardinality(me.entries) \in Nat /\ Document(merged)
            /\ merged.accepted <= doc.accepted + Cardinality(me.entries)
        BY <1>0, <4>1, MergeCounts, MergeKeepsDocument
      <4> HIDE DEF merged
      <4>3. SetLease(merged, me.run).accepted = merged.accepted
        BY <1>1, <4>2, SetLeaseKeepsDocument
      <4>4. merged.accepted \in Nat
        BY <4>2 DEF Document, Documents
      <4>5. merged.accepted <= UrlCap
        BY <1>0, <4>1, <4>2, <4>4
      <4> QED BY <4>3, <4>5 DEF merged
    <3> HIDE DEF d
    <3>2. /\ next.pc = "cas" /\ next.run = me.run /\ next.token = me.token
          /\ next.doc = doc /\ next.next = d
      BY <1>1 DEF Pending, WorkerStates
    <3> HIDE DEF next
    <3>3. Holds(w) => Fits(next, doc.accepted)
      BY <1>0, <3>1, <3>2 DEF Fits
    <3> QED BY <1>2, <2>1, <2>2, <3>2, <3>3
  <2> QED BY <1>3, <2>1, <2>2
<1>11. ASSUME NEW w \in Worker, Commit(w) PROVE CapInv'
  <2> DEFINE me == workers[w]
  <2>1. /\ me.pc = "cas" /\ Holds(w) /\ doc' = me.next /\ version' = version + 1
        /\ status' = status /\ claims' = claims /\ version \in Nat
    BY <1>11 DEF Commit, Committable, OwnInv, IndInv, TypeOK
  <2>2. Fits(me, doc.accepted) /\ doc'.accepted <= UrlCap
    BY <2>1 DEF CapInv, Fits
  <2>3. vars' # vars
    BY <2>1 DEF vars, crawlVars
  <2>4. \A v \in Worker : workers[v].pc = "base" /\ Holds(v) => doc'.accepted = doc.accepted
    BY <2>3
  <2>5. PICK next : /\ Step(w, next) /\ next.run = me.run /\ next.token = me.token
                    /\ \/ next.pc = "finish" /\ next.doc = EmptyDocument
                       \/ next.pc = "loop" /\ next.doc = me.next
    <3>1. CASE me.purpose = "release"
      <4> DEFINE gone == [Idle EXCEPT !.pc = "finish", !.run = me.run, !.token = me.token]
      <4>1. Step(w, gone)
        BY <1>11, <3>1 DEF Commit, ToFinish
      <4>2. /\ gone.pc = "finish" /\ gone.doc = EmptyDocument
            /\ gone.run = me.run /\ gone.token = me.token
        BY DEF Idle
      <4> HIDE DEF gone
      <4> QED BY <4>1, <4>2
    <3>2. CASE me.purpose # "release"
      <4> DEFINE onward == [me EXCEPT !.pc = "loop", !.doc = me.next, !.url = NoUrl,
                                      !.version = version + 1, !.next = EmptyDocument,
                                      !.entries = {}, !.tries = 0]
      <4>1. Step(w, onward)
        BY <1>11, <3>2 DEF Commit
      <4>2. /\ onward.pc = "loop" /\ onward.doc = me.next
            /\ onward.run = me.run /\ onward.token = me.token
        BY <1>1 DEF WorkerStates
      <4> HIDE DEF onward
      <4> QED BY <4>1, <4>2
    <3> QED BY <3>1, <3>2
  <2>6. Fits(next, doc'.accepted)
    BY <1>0, <2>1, <2>2, <2>5 DEF Fits
  <2> QED BY <2>1, <2>2, <2>4, <2>5, <2>6, CapStep
<1>12. ASSUME NEW w \in Worker, CommitMissed(w) PROVE CapInv'
  <2> DEFINE next == [workers[w] EXCEPT !.pc = "reread"]
  <2>1. /\ next.pc = "reread" /\ next.run = workers[w].run
        /\ next.token = workers[w].token /\ next.doc = workers[w].doc
        /\ next.next = workers[w].next
    BY <1>1 DEF WorkerStates
  <2>2. /\ Step(w, next) /\ doc' = doc /\ status' = status /\ claims' = claims
        /\ workers[w].pc = "cas"
    BY <1>12 DEF CommitMissed, crawlVars
  <2> HIDE DEF next
  <2>3. Holds(w) => Fits(next, doc.accepted)
    BY <2>1, <2>2 DEF CapInv, Fits
  <2> QED BY <1>2, <2>1, <2>2, <2>3
<1>13. ASSUME NEW w \in Worker, Reread(w) PROVE CapInv'
  <2> DEFINE next == [workers[w] EXCEPT !.pc = "cas", !.version = version, !.tries = @ + 1]
  <2>1. /\ next.pc = "cas" /\ next.run = workers[w].run
        /\ next.token = workers[w].token /\ next.doc = workers[w].doc
        /\ next.next = workers[w].next
    BY <1>1 DEF WorkerStates
  <2>2. /\ Step(w, next) \/ ToFinish(w)
        /\ doc' = doc /\ status' = status /\ claims' = claims
        /\ workers[w].pc = "reread"
    BY <1>13 DEF Reread, crawlVars
  <2> HIDE DEF next
  <2>3. Holds(w) => Fits(next, doc.accepted)
    BY <2>1, <2>2 DEF CapInv, Fits
  <2> QED BY <1>2, <1>3, <2>1, <2>2, <2>3
<1>14. ASSUME NEW w \in Worker, Loop(w) PROVE CapInv'
  <2> DEFINE me == workers[w]
             u == NextTarget(me.doc, me.skipped)
             skips == [me EXCEPT !.skipped = @ \cup {u}]
             turns == [me EXCEPT !.pc = "page", !.url = u]
  <2>1. /\ doc' = doc /\ status' = status /\ claims' = claims /\ me.pc = "loop"
        /\ Release(w) \/ ToFinish(w) \/ Step(w, skips) \/ Step(w, turns)
    BY <1>14 DEF Loop, crawlVars
  <2> HIDE DEF u
  <2>2. /\ skips.pc = "loop" /\ skips.run = me.run /\ skips.token = me.token
        /\ skips.doc = me.doc
        /\ turns.pc = "page" /\ turns.run = me.run /\ turns.token = me.token
        /\ turns.doc = me.doc
    BY <1>1, <2>1 DEF WorkerStates
  <2> HIDE DEF skips, turns
  <2>3. Holds(w) => Fits(skips, doc.accepted) /\ Fits(turns, doc.accepted)
    BY <2>2 DEF CapInv, Fits
  <2>4. CASE Release(w)
    <3>1. SetLease(me.doc, NoRun).accepted = me.doc.accepted
      BY <1>1, SetLeaseKeepsDocument
    <3>2. Holds(w) => SetLease(me.doc, NoRun).accepted <= UrlCap
      BY <3>1 DEF CapInv, Fits
    <3> QED BY <1>4, <2>1, <2>4, <3>2 DEF Release
  <2> QED BY <1>2, <1>3, <2>1, <2>2, <2>3, <2>4
<1>15. ASSUME NEW w \in Worker, FetchPage(w) PROVE CapInv'
  <2> DEFINE me == workers[w]
  <2>1. PICK links \in Contents[me.url] \cup {{}} :
          Step(w, Pending(w, PageCrawled(me.doc, me.url, links), "crawled"))
    BY <1>15 DEF FetchPage
  <2>2. me.pc = "page" /\ me.url \in me.doc.frontier /\ me.url \in Url
    BY <1>1, <1>15 DEF FetchPage, WorkerOK, Carries, Document, Documents
  <2>3. links \in SUBSET Url /\ IsFiniteSet(links)
    BY <2>2, CrawlAssumption, FS_EmptySet
  <2>4. Holds(w) => me.doc.accepted <= UrlCap
    BY DEF CapInv, Fits
  <2>5. Holds(w) => PageCrawled(me.doc, me.url, links).accepted <= UrlCap
    BY <1>1, <2>2, <2>3, <2>4, PagesKeepCap
  <2> QED BY <1>4, <1>15, <2>1, <2>2, <2>5 DEF FetchPage, crawlVars
<1>16. ASSUME NEW w \in Worker, FetchFails(w) PROVE CapInv'
  <2> DEFINE me == workers[w]
             d == PageFailed(me.doc, me.url)
             p == Pending(w, d, "failed")
             next == [p EXCEPT !.skipped = @ \cup {me.url}]
  <2>1. me.pc = "page" /\ me.url \in me.doc.frontier
    BY <1>1, <1>16 DEF FetchFails, WorkerOK, Carries
  <2>2. Holds(w) => me.doc.accepted <= UrlCap
    BY DEF CapInv, Fits
  <2>3. Holds(w) => d.accepted <= UrlCap
    BY <1>1, <2>1, <2>2, PagesKeepCap
  <2>4. Step(w, next) /\ doc' = doc /\ status' = status /\ claims' = claims
    BY <1>16 DEF FetchFails, crawlVars
  <2> HIDE DEF d
  <2>5. /\ next.pc = "cas" /\ next.run = me.run /\ next.token = me.token
        /\ next.doc = me.doc /\ next.next = d
    BY <1>1 DEF Pending, WorkerStates
  <2> HIDE DEF next
  <2>6. Holds(w) => Fits(next, doc.accepted)
    BY <2>2, <2>3, <2>5 DEF Fits
  <2> QED BY <1>2, <2>1, <2>4, <2>5, <2>6
<1>17. ASSUME NEW w \in Worker, CrawlRaises(w) PROVE CapInv'
  BY <1>3, <1>17 DEF CrawlRaises, crawlVars
<1>18. CASE CrawlLeaseExpires \/ UNCHANGED vars
  BY <1>18 DEF CrawlLeaseExpires, vars, crawlVars, CapInv, DiscoveryCapped, Holds
<1> QED
  BY <1>5, <1>6, <1>7, <1>8, <1>9, <1>10, <1>11, <1>12, <1>13, <1>14, <1>15, <1>16,
     <1>17, <1>18 DEF Next, CrawlStep

LEMMA CapInit == Init => CapInv
<1> SUFFICES ASSUME Init PROVE CapInv
  OBVIOUS
<1>1. \A w \in Worker : workers[w].pc = "idle"
  BY DEF Init, Idle
<1> QED BY <1>1, FrontierAssumption
        DEF Init, CapInv, DiscoveryCapped, Holds, EmptyDocument

\* The cause of the overshoot, and all of it: if no URL is accepted between the
\* plan of a seed page and its merge, max_discovered_urls caps the URLs over all
\* runs, however they overlap, conflict and crash. (plan_discovery, merge_entries)
THEOREM UndisturbedPlansKeepCap ==
  Spec /\ PlansUndisturbed => []DiscoveryCapped
<1> DEFINE Undisturbed == \A w \in Worker :
             workers[w].pc = "base" /\ Holds(w) => doc'.accepted = doc.accepted
<1>1. OwnInv /\ CapInv /\ [Next]_vars /\ [Undisturbed]_vars => CapInv'
  BY CapNext
<1>2. CapInv => DiscoveryCapped
  BY DEF CapInv
<1> QED BY <1>1, <1>2, CapInit, OwnInductive, PTL DEF Spec, PlansUndisturbed

\* A source with a single run stays within its cap, whatever crashes and claims
\* there are: nobody but the holder of the run stores a document.
THEOREM SoleRunStaysUnderCap ==
  ASSUME SoleRun
  PROVE  Spec => []DiscoveryCapped
<1> DEFINE Undisturbed == \A w \in Worker :
             workers[w].pc = "base" /\ Holds(w) => doc'.accepted = doc.accepted
<1>1. ASSUME OwnInv, [Next]_vars, NEW w \in Worker, workers[w].pc = "base", Holds(w)
      PROVE  doc' = doc
  <2> SUFFICES ASSUME doc' # doc PROVE FALSE
    OBVIOUS
  <2>1. PICK v \in Worker : Commit(v)
    BY <1>1, OnlyCommitsWrite
  <2>2. workers[v].pc = "cas" /\ Holds(v)
    BY <2>1 DEF Commit, Committable
  <2>3. workers[v].run \in Run /\ workers[w].run \in Run
    BY <1>1, <2>2 DEF OwnInv, IndInv, WorkerOK, Carries
  <2> QED BY <1>1, <2>2, <2>3, SoleRun DEF SoleRun, Holds, OwnInv, TokensOK
<1>2. OwnInv /\ [Next]_vars => [Undisturbed]_vars
  BY <1>1
<1>3. Spec => PlansUndisturbed
  BY <1>2, OwnInductive, PTL DEF Spec, PlansUndisturbed
<1> QED BY <1>3, UndisturbedPlansKeepCap, PTL

================================================================================
