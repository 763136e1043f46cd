----------------------------- MODULE DiscoveryCrawl -----------------------------
(******************************************************************************)
(* The discovery crawl of one source: runs that found an acceptable seed page *)
(* consume the source's frontier, which is stored as one document with a      *)
(* version in source_acquisition_states (services/discovery_crawl.py and      *)
(* discovery_pages.py).  Every write is a compare-and-set on the version,     *)
(* guarded by the run's claim; a lease in the document names the run that     *)
(* crawls.  The lease lasts CRAWL_LEASE_SECONDS = 300 and is never renewed,   *)
(* while a run may take max_duration_seconds, up to 900.                      *)
(*                                                                            *)
(* An action is one transaction, or one step between two of them.             *)
(* Queue, attempts and source counters are those of CollectionRuns.           *)
(*                                                                            *)
(* A definition marked "Mutant" is the one that follows it with a bug in it;  *)
(* no specification uses it.                                                  *)
(******************************************************************************)
EXTENDS Frontier

CONSTANTS
  Worker,
  SeedContents,   \* the link sets the seed page may have when it is fetched
  Contents,       \* the same for every URL
  MaxClaims,      \* MAX_CLAIMS, 3 in the code
  CasTries,       \* range(3) in cas_crawl_step
  NoUrl

ASSUME CrawlAssumption ==
  /\ SeedContents \subseteq SUBSET Url
  /\ Contents \in [Url -> SUBSET (SUBSET Url)]
  /\ \A links \in SeedContents : IsFiniteSet(links)
  /\ \A u \in Url : \A links \in Contents[u] : IsFiniteSet(links)
  /\ MaxClaims \in Nat \ {0}
  /\ CasTries \in Nat \ {0}
  /\ NoUrl \notin Url

VARIABLES
  status,       \* collection_runs.status: queued, running or ended
  claims,       \* claim_count; the claim token is its current value
  doc,          \* source_acquisition_states.checkpoint
  version,      \* source_acquisition_states.version
  expired,      \* the crawl lease of doc has passed its expires_at
  workers,      \* what each worker does
  fetched,      \* ghost: succeeded page records committed per URL
  failures,     \* ghost: failed page records committed per URL
  overwritten   \* ghost: an acquisition replaced a document it had not read

crawlVars == <<doc, version, expired>>
ghostVars == <<fetched, failures, overwritten>>
vars == <<status, claims, crawlVars, workers, ghostVars>>

--------------------------------------------------------------------------------
Pcs == {"idle", "plan", "base", "cas", "reread", "loop", "page", "finish"}

\* What the pending compare-and-set is for.
Purposes == {"acquire", "crawled", "failed", "release"}

Idle ==
  [pc |-> "idle", run |-> NoRun, token |-> 0, entries |-> {},
   doc |-> EmptyDocument, version |-> 0, next |-> EmptyDocument,
   purpose |-> "acquire", tries |-> 0, url |-> NoUrl, skipped |-> {}]

WorkerStates ==
  [pc : Pcs, run : Run \cup {NoRun}, token : Nat, entries : SUBSET Url,
   doc : Documents, version : Nat, next : Documents, purpose : Purposes,
   tries : 0..CasTries, url : Url \cup {NoUrl}, skipped : SUBSET Url]

TypeOK ==
  /\ status \in [Run -> {"queued", "running", "ended"}]
  /\ claims \in [Run -> Nat]
  /\ doc \in Documents
  /\ version \in Nat
  /\ expired \in BOOLEAN
  /\ workers \in [Worker -> WorkerStates]
  /\ fetched \in [Url -> Nat]
  /\ failures \in [Url -> Nat]
  /\ overwritten \in BOOLEAN

Init ==
  /\ status = [r \in Run |-> "queued"]
  /\ claims = [r \in Run |-> 0]
  /\ doc = EmptyDocument
  /\ version = 1
  /\ expired = FALSE
  /\ workers = [w \in Worker |-> Idle]
  /\ fetched = [u \in Url |-> 0]
  /\ failures = [u \in Url |-> 0]
  /\ overwritten = FALSE

\* Mutant: a claim is recognised by the run alone.
HoldsByRun(w) == workers[w].pc # "idle" /\ status[workers[w].run] = "running"

\* claim_alive, and the row filter of commit_crawl_step.
Holds(w) ==
  /\ workers[w].pc # "idle"
  /\ status[workers[w].run] = "running"
  /\ claims[workers[w].run] = workers[w].token

Step(w, next) == workers' = [workers EXCEPT ![w] = next]

\* The worker leaves the crawl and goes on to report the run's outcome.
ToFinish(w) == Step(w, [Idle EXCEPT !.pc = "finish", !.run = workers[w].run,
                                    !.token = workers[w].token])

HeldElsewhere(r) == doc.lease \notin {r, NoRun} /\ ~expired

--------------------------------------------------------------------------------
(* Runs: claimed, taken back, lost.                                           *)

Claim(w, r) ==
  /\ workers[w].pc = "idle"
  /\ status[r] = "queued"
  /\ status' = [status EXCEPT ![r] = "running"]
  /\ claims' = [claims EXCEPT ![r] = @ + 1]
  /\ Step(w, [Idle EXCEPT !.pc = "plan", !.run = r, !.token = claims[r] + 1])
  /\ UNCHANGED <<crawlVars, ghostVars>>

\* The run's lease passed: it is queued again, or fails when its claims are used up.
Recover(r) ==
  /\ status[r] = "running"
  /\ status' = [status EXCEPT ![r] =
                  IF claims[r] >= MaxClaims THEN "ended" ELSE "queued"]
  /\ UNCHANGED <<claims, crawlVars, workers, ghostVars>>

Crash(w) ==
  /\ workers[w].pc # "idle"
  /\ Step(w, Idle)
  /\ UNCHANGED <<status, claims, crawlVars, ghostVars>>

CrawlLeaseExpires ==
  /\ doc.lease # NoRun
  /\ ~expired
  /\ expired' = TRUE
  /\ UNCHANGED <<status, claims, doc, version, workers, ghostVars>>

\* The outcome is written with the source state, whose version it bumps.
Finish(w) ==
  /\ workers[w].pc = "finish"
  /\ \/ /\ Holds(w)
        /\ status' = [status EXCEPT ![workers[w].run] = "ended"]
        /\ version' = version + 1
     \/ /\ ~Holds(w)
        /\ UNCHANGED <<status, version>>
  /\ Step(w, Idle)
  /\ UNCHANGED <<claims, doc, expired, ghostVars>>

--------------------------------------------------------------------------------
(* The crawl of one claimed run.                                              *)

\* The checkpoint is read before the seed page is fetched and planned.
PlanSeed(w) ==
  /\ workers[w].pc = "plan"
  /\ \E links \in SeedContents :
       Step(w, [workers[w] EXCEPT !.pc = "base", !.entries = Planned(doc, links)])
  /\ UNCHANGED <<status, claims, crawlVars, ghostVars>>

\* The pending write of a worker: document d, to be stored for the given purpose.
Pending(w, d, purpose) ==
  [workers[w] EXCEPT !.pc = "cas", !.next = d, !.purpose = purpose, !.tries = 1]

\* The frontier is skipped while another run's lease on it is valid.
ReadBase(w) ==
  LET r == workers[w].run
      next == SetLease(Merge(doc, workers[w].entries), r) IN
  /\ workers[w].pc = "base"
  /\ \/ /\ HeldElsewhere(r)
        /\ ToFinish(w)
     \/ /\ ~HeldElsewhere(r)
        /\ Step(w, [Pending(w, next, "acquire") EXCEPT !.doc = doc,
                                                       !.version = version])
  /\ UNCHANGED <<status, claims, crawlVars, ghostVars>>

\* Mutant: the version is not compared.
CommittableUnversioned(w) == Holds(w)

\* The row filter of the document's update: the claim, and the version read last.
Committable(w) == Holds(w) /\ workers[w].version = version

\* commit_crawl_step: document, version and page record in one transaction.
Commit(w) ==
  LET me == workers[w] IN
  /\ me.pc = "cas"
  /\ Committable(w)
  /\ doc' = me.next
  /\ version' = version + 1
  /\ expired' = (expired /\ me.purpose \in {"crawled", "failed"})
  /\ fetched' = [u \in Url |->
       fetched[u] + IF me.purpose = "crawled" /\ me.url = u THEN 1 ELSE 0]
  /\ failures' = [u \in Url |->
       failures[u] + IF me.purpose = "failed" /\ me.url = u THEN 1 ELSE 0]
  /\ overwritten' = (overwritten \/ doc # me.doc)
  /\ IF me.purpose = "release"
     THEN ToFinish(w)
     ELSE Step(w, [me EXCEPT !.pc = "loop", !.doc = me.next, !.url = NoUrl,
                             !.version = version + 1, !.next = EmptyDocument,
                             !.entries = {}, !.tries = 0])
  /\ UNCHANGED <<status, claims>>

\* The transaction found another version or no claim, and wrote nothing.
CommitMissed(w) ==
  /\ workers[w].pc = "cas"
  /\ ~Committable(w)
  /\ Step(w, [workers[w] EXCEPT !.pc = "reread"])
  /\ UNCHANGED <<status, claims, crawlVars, ghostVars>>

\* Mutants: the retry does not look whose lease the document carries; it is not
\* limited to the three rounds of the code.
MayRetryUnleased(w) == Holds(w) /\ workers[w].tries < CasTries

MayRetryUnbounded(w) ==
  /\ Holds(w)
  /\ IF workers[w].purpose = "acquire" THEN ~HeldElsewhere(workers[w].run)
                                       ELSE doc.lease = workers[w].run

\* The same document may be tried again under the version read now: by the
\* acquisition unless another run's lease is valid, by any other step while the
\* lease is still this run's.
MayRetry(w) ==
  /\ Holds(w)
  /\ workers[w].tries < CasTries
  /\ IF workers[w].purpose = "acquire" THEN ~HeldElsewhere(workers[w].run)
                                       ELSE doc.lease = workers[w].run

Reread(w) ==
  /\ workers[w].pc = "reread"
  /\ \/ /\ MayRetry(w)
        /\ Step(w, [workers[w] EXCEPT !.pc = "cas", !.version = version,
                                      !.tries = @ + 1])
     \/ /\ ~MayRetry(w)
        /\ ToFinish(w)
  /\ UNCHANGED <<status, claims, crawlVars, ghostVars>>

Release(w) == Step(w, Pending(w, SetLease(workers[w].doc, NoRun), "release"))

\* One turn of the loop up to the page request: the next target, the claim, the
\* budget and robots.txt, any of which may end the crawl or skip the target.
Loop(w) ==
  LET me == workers[w] IN
  /\ me.pc = "loop"
  /\ \/ /\ ~HasTarget(me.doc, me.skipped)
        /\ Release(w)
     \/ /\ HasTarget(me.doc, me.skipped)
        /\ \/ /\ ~Holds(w)
              /\ ToFinish(w)
           \/ /\ Holds(w)
              /\ \/ Release(w)                      \* a budget gap, or robots stop
                 \/ Step(w, [me EXCEPT !.skipped =    \* robots.txt forbids it
                               @ \cup {NextTarget(me.doc, me.skipped)}])
                 \/ Step(w, [me EXCEPT !.pc = "page",
                               !.url = NextTarget(me.doc, me.skipped)])
  /\ UNCHANGED <<status, claims, crawlVars, ghostVars>>

\* The page was fetched and parsed; its links count if its quality is met.
FetchPage(w) ==
  LET me == workers[w] IN
  /\ me.pc = "page"
  /\ \E links \in Contents[me.url] \cup {{}} :
       Step(w, Pending(w, PageCrawled(me.doc, me.url, links), "crawled"))
  /\ UNCHANGED <<status, claims, crawlVars, ghostVars>>

\* Mutant: the crawl simply goes on with the loop.
FetchFailsUnrecorded(w) ==
  /\ workers[w].pc = "page"
  /\ Step(w, [workers[w] EXCEPT !.pc = "loop", !.url = NoUrl])
  /\ UNCHANGED <<status, claims, crawlVars, ghostVars>>

\* The page could not be fetched or parsed; this crawl does not try it again.
FetchFails(w) ==
  LET me == workers[w] IN
  /\ me.pc = "page"
  /\ Step(w, [Pending(w, PageFailed(me.doc, me.url), "failed")
                EXCEPT !.skipped = @ \cup {me.url}])
  /\ UNCHANGED <<status, claims, crawlVars, ghostVars>>

\* Any other error ends the crawl where it is; its lease stays in the document.
CrawlRaises(w) ==
  /\ workers[w].pc \notin {"idle", "finish"}
  /\ ToFinish(w)
  /\ UNCHANGED <<status, claims, crawlVars, ghostVars>>

CrawlStep(w) ==
  \/ PlanSeed(w) \/ ReadBase(w) \/ Commit(w) \/ CommitMissed(w) \/ Reread(w)
  \/ Loop(w) \/ FetchPage(w) \/ FetchFails(w) \/ Finish(w)

Next ==
  \/ \E w \in Worker : CrawlStep(w) \/ CrawlRaises(w) \/ Crash(w)
  \/ \E w \in Worker, r \in Run : Claim(w, r)
  \/ \E r \in Run : Recover(r)
  \/ CrawlLeaseExpires

Spec == Init /\ [][Next]_vars

\* A worker that is neither killed nor blocked goes on with its crawl.
FairSpec == Spec /\ \A w \in Worker : WF_vars(CrawlStep(w))

--------------------------------------------------------------------------------
(* Properties.                                                                *)

\* The stored document is sound after every sequence of steps of every run.
CheckpointSound == Sound(doc)

\* As long as no acquisition has replaced a document it had not read, a URL that
\* was seen is waiting with as many attempts as failures were recorded, or was
\* fetched once, or has failed for good; one that was not seen has no records.
\* This is "neither repeated nor lost" over crashes, re-claims and conflicts.
FrontierExact ==
  ~overwritten =>
    \A u \in Url :
      IF u \notin doc.seen THEN fetched[u] = 0 /\ failures[u] = 0
      ELSE IF u \in doc.frontier THEN fetched[u] = 0 /\ failures[u] = doc.tries[u]
      ELSE \/ fetched[u] = 1 /\ failures[u] < MaxAttempts
           \/ fetched[u] = 0 /\ failures[u] = MaxAttempts

\* A URL once seen stays seen, under the same reservation.
NothingForgotten == [][~overwritten' => doc.seen \subseteq doc'.seen]_vars

\* The document is written by a worker that holds its run, and while a lease on
\* it is valid only by the run the lease names.
LeaseRespected ==
  [][doc' # doc =>
       \E w \in Worker : /\ Holds(w)
                         /\ workers'[w] # workers[w]
                         /\ expired \/ doc.lease \in {NoRun, workers[w].run}]_vars

\* Pages and releases never replace a document they have not read: when their
\* write goes through, after whatever conflicts, the stored document is the one
\* the crawl committed last.  Only an acquisition can overwrite.
StepsBuildOnStored ==
  [][\A w \in Worker :
       Commit(w) /\ workers[w].purpose # "acquire" => doc = workers[w].doc]_vars

\* Every crawl comes to its end: no target is tried or skipped for ever, and a
\* conflicting write is not retried for ever.
CrawlEnds ==
  \A w \in Worker : (workers[w].pc = "loop") ~> (workers[w].pc \in {"finish", "idle"})

\* docs/61:74 "a fetched URL is not fetched again", and discovery_crawl.py:3-6.
PagesOnce == \A u \in Url : fetched[u] <= 1

\* docs/61:69 and docs/61:120: max_discovered_urls caps the URLs over all runs.
DiscoveryCapped == doc.accepted <= UrlCap

--------------------------------------------------------------------------------
(* The contract: the stage of a URL read from the document and the records.   *)

Stage(u) ==
  CASE fetched[u] > 0                           -> "fetched"
    [] fetched[u] = 0 /\ u \in doc.frontier     -> "waiting"
    [] fetched[u] = 0 /\ u \notin doc.seen      -> "unknown"
    [] OTHER                                    -> "abandoned"

Contract == INSTANCE FrontierContract
  WITH stage <- [u \in Url |-> Stage(u)], misses <- failures

\* A single run, claimed again and again, keeps the contract.
ContractSpec == Contract!Spec

================================================================================
