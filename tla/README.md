# Verification of the FlowTracer backend

FlowTracer collects pages and feeds, tracks their changes, analyses them with an
AI provider and notifies its users. This directory models the parts of
`src/backend/app` whose correctness depends on the order in which several
processes act on one database, checks them with TLC on small instances, and
proves their main safety properties with TLAPS. Paths below are relative to
`src/backend/app`.

## The system

Processes: the HTTP API, Celery beat, and Celery workers. They share a
PostgreSQL database and a broker, and nothing else; a worker may die at any
point, and a message may be lost or delivered more than once. An action of a
model is therefore one database transaction, or one step between two of them.

| Component | State | Operations | Hard behaviour | What makes it correct |
|---|---|---|---|---|
| Collection runs (`services/acquisition*.py`) | `collection_runs`: status, claim token and count, lease; `acquisition_attempts` | create, dispatch, claim, heartbeat, record a missed stage, finish, fail, recover | several workers on one run, lost leases, duplicate messages, failure of the failure report | one holder, results once, bounded claims, dense attempts, every run ends |
| Source state (`_update_source_state`, `acquisition_router.py`) | counters, streak, circuit window, health | outcome of a run, half-open probe | facts read long before the outcome is written | counters agree with runs; streak, window and health agree; one probe |
| Discovery crawl (`discovery_crawl.py`, `discovery_pages.py`, `discovery_frontier.py`) | checkpoint document and version in the source state | acquire, take the next target, record a page, release | compare-and-set conflicts, a lease that is not renewed, crash and resume, concurrent runs | no URL lost or fetched twice, caps, soundness of the document, termination |
| Run creation (`create_manual_run`, `create_retry_run`, `schedule_due_sources`) | run rows with idempotency keys, `next_fetch_at` | collect, retry, schedule | concurrent requests, key collisions, overlapping schedulers | one run per key, lookups under the source's lock stand, scheduled runs an interval apart |
| Change tracking (`change_tracking.py`, `version_evidence.py`, `change_backfill.py`) | artifacts, snapshots, change events, miss streaks | record a candidate, mark missing, backfill | long sequences of runs, reverts, reappearance | one version per state, every shown content collected, removal after two misses |
| Document pipeline (`cleaning.py`, `intelligence.py`, `memory.py`, `notifications.py`) | raw items, documents, analyses, chunks, notifications | clean, claim, complete, fail, recover, retry, embed, notify | claims by timestamp, last two analyses at once, duplicates that reopen a document | no document stranded, each result settles its document, late results rejected, one notification |
| Opportunities (`opportunity_*.py`) | items, scores, payloads | ingest, evaluate, expire | two dispatchers, slow providers, observation times against score times | items follow the content of their page, scores are final and in the order of the facts they judge |
| Authentication (`auth.py`) | refresh tokens | login, refresh, logout | concurrent refresh | one valid token per login, revocation is final |
| Events, websocket, site gate, fetcher, parsers, providers, CRUD, frontend | | | | not modelled, see the end |

Interaction: the API and beat insert queued runs; beat sends their messages; a
worker claims a run, walks its route, crawls if the source discovers, and commits
outcome, attempts, evidence, raw items and source state in one transaction. Raw
items start the document pipeline, evidence feeds change tracking and the
opportunity items. The source state is shared by all runs of a source: its
version is bumped both by outcomes and by crawl steps.

## Modules

| Module | Models |
|---|---|
| `SourceState` | the pure transitions of the row of `source_acquisition_states` |
| `RunContract` | abstract specification of a run: executed at most so often, published once, final once ended |
| `CollectionRuns` | the run lifecycle: broker, beat, workers, leases, route, outcome |
| `MCCollectionRuns` | instances of it for TLC |
| `CollectionRuns_proofs` | its theorems |
| `Frontier` | the checkpoint document and the pure transitions on it |
| `FrontierContract` | abstract specification of a URL: discovered once, fetched once or abandoned |
| `DiscoveryCrawl` | the crawl of a source by several runs and workers |
| `MCDiscoveryCrawl` | instances of it for TLC |
| `Frontier_proofs` | lemmas: every transition keeps a document sound, and how it changes it |
| `DiscoveryCrawl_proofs` | the theorems of the crawl |
| `DocumentContract` | abstract specification of a document: an arrival or a result gives it the status all its analyses call for, in one step |
| `Documents` | raw item to document, analyses, embedding, notifications, with transactions and locks |
| `MCDocuments` | an instance of it for TLC |
| `Documents_proofs` | its theorems, the contract among them |
| `ChangeTracking` | the version evidence of a source |
| `Opportunities` | extends it: opportunity items and their evaluation by dispatchers |
| `RefreshTokens` | rotation and logout of refresh tokens |
| `RunCreation` | idempotency keys, retries and schedulers |
| `MCServices` | instances of these four for TLC |
| `Opportunities_proofs` | the theorems of the evidence and of the opportunities |
| `RefreshTokens_proofs`, `RunCreation_proofs` | their theorems |
| `Services_proofs` | that the composition is a behaviour of each component, and its types |

Definitions marked "Mutant" are wrong on purpose: each is the definition that
follows it with a plausible bug, and each checked property is known to fail with
one of them. No specification uses them.

### CollectionRuns

State and code: `status`, `claim_count`, `claim_token` are the columns of a run (the
uuid4 token is a number, a fresh one being the successor of the last one given
for the run); `expired` is the set of running runs whose `lease_expires_at` has
passed, since only that comparison is ever made; `attempts` holds the ordinals of
the attempt rows; `results` counts the commits of evidence and raw items;
`queue` is the broker; `workers` holds the program counter and the local
variables of every worker. `Claim`, `ClaimRefused` and `Discard` are the branches
of `_claim_run`; `Gate`, `ClaimProbe`, `RunStage`, `RecordMiss` follow
`_route_attempts`; `FinishSuccess` is `finish_success`; `FinishFailure` and
`AbortFailure` are `_finish_failure` when its insert fits and when the unique index
aborts it; `Recover` is `recover_stale_runs`. An error code matters only for what it
changes, so `Codes` has four classes of it. The claim filter `Holds` is the
`WHERE status = RUNNING AND claim_token = ...` of every write.

### DiscoveryCrawl

`doc` and `version` are the checkpoint column and the version column. URLs are
numbers, smaller ones being taken first, which is the order of the code's sort key.
What a page links to when it is fetched is a choice from `Contents`. A worker
keeps what the code keeps in locals: the planned entries, the document it last
committed, the version it expects, the document of the pending write, how often
that was tried, and the targets it skips. `Commit` is the whole transaction of
`commit_crawl_step`: document, version and page record. `CommitMissed` and `Reread` are
the conflict branch of `cas_crawl_step`. `Finish` bumps the version as
`_update_source_state` does. Three ghost variables count the page records per URL and
note an acquisition that replaced a document it had not read.

### Documents

A worker is a database session. What a transaction has read or written and not yet
committed is kept in its worker, and the locks it holds follow from its program
counter: `Rows` are the analysis rows it has locked, `DocumentFree` says who holds a
document. So a lock is released by the commit, as in the database, and a crash
rolls back by forgetting the worker. `clean_raw_item` is `CleanRead` (locks, inserts and
reads) and `CleanCommit`; `run_analysis` is `Claim`, the provider's answer `Save`, which
locks the row under the claim filter, `Sync` (`_sync_document`: lock the document, then
read what is committed) and `Settle`; `retry_analysis` is `RetryBegin` and `RetryCommit`;
`run_embedding` is `EmbedRead` and `EmbedEnd`, which lock the document, with the
provider's call in between, where only the advisory lock is held;
both `retry_analysis` and `run_embedding` judge the document by an object their session
loaded before they waited (it keeps its objects over commits, and a locked select does
not refresh them): so `EmbedEnd` stores its outcome whatever the status has become, and
`RetryCommit` stores ANALYZING only if it was not ANALYZING when `RetrySelect` loaded
it. `dispatch_notifications` is `NotifySelect` (the statement's snapshot), `NotifyLock` (its
rows, skipping locked ones) and `NotifyCommit`. The claim of an analysis is the time in
`updated_at`; `claimant` says whose time it is. Two claims of one analysis have
different times, since a row must be recovered, ten minutes later, in between.

### ChangeTracking and Opportunities

`versions[a]` is the sequence of the snapshots of an artifact, each a trio of
fingerprints; `current` is `current_snapshot_id`. Every transaction that writes evidence
locks the source, so `TrackPage`, `TrackRun` and `Backfill` are one action each. The
unique indexes are guards: what would violate one is a failing run (`FailRun`) or a
backfill that does nothing. A run that has ended is forgotten, so any number of runs
follow each other. `Opportunities` adds to the same transactions what
`record_opportunity_items` does in them, and the dispatchers: the claim of a pair is
three statements without a lock (`CheckScored`, `NumberScore`, `ReadFacts`), then the
provider's call, then `Evaluate`. Only a new or changed content reaches an item
(`Changes`), but facts come from the JSON-LD, the title and the date of a page as well,
so a page in one state may show different ones (`Shows`), or none. Times are the ends of
observations and dispatches; the time of an observation is read before its transaction
ends, so `ObservePage` and `ObserveRun` may also store an odd time, one that lies before
transactions that have ended since. Two ghost variables count how often the facts of an
item were written (`revision`) and name the artifacts whose last change gave none
(`unread`).

### RefreshTokens and RunCreation

A request holds the row of its token between its two steps. In `RunCreation` a session is
an API request or a scheduler: `RequestRun` looks a key up without a lock and
`InsertManual` falls back on the unique index; `LockOriginal`, `LockSource`, `InsertRetry`
are `create_retry_run`; `ReadClock`, `SelectDue`, `Schedule` are `schedule_due_sources`,
which reads its clock before it locks. A manual insert has two steps, as in the database:
`PlaceManual` puts its entry in the unique index, or finds the key taken, and
`InsertManual` waits until nobody has the source locked for update (`InsertWaits`: the check of
the foreign key takes a share lock). In between, another insert of the key waits for it
(`KeyFree`). When the holder of the source does so, the two wait for each other; the
database aborts one, which is `SessionEnds`.

## What the runs check

| Run | Instance | Checks |
|---|---|---|
| `runs_safety` | 1 run, 3 workers, 3 claims, route of 2; and 3 runs, 2 workers, threshold 2 | types; one holder; results once; claims bounded; counters against runs; dense attempts; streak, window and health agree; ended runs final; only the holder writes; `RunContract` |
| `runs_liveness` | 2 runs, 1 worker, 2 claims, route of 2, threshold 1 | every queued run ends |
| `runs_ordinals` | 1 run, 1 worker, 2 claims, route of 2 | **violated**: a failure report always fits the unique index |
| `runs_probe` | 3 runs, 2 workers, threshold 1 | **violated**: one half-open probe at a time |
| `crawl_shared` | 2 runs of one source, 2 workers, 3 URLs, frontier of 2 | types; soundness of the document; no URL lost or fetched twice as long as no acquisition overwrites; nothing forgotten; only the lease's run writes; page records and releases replace only what they read |
| `crawl_resume` | 1 run claimed twice, 2 workers, 3 URLs | `FrontierContract`; every crawl ends |
| `crawl_takeover` | as `crawl_shared` | **violated**: a fetched URL is not fetched again |
| `crawl_cap` | as `crawl_shared`, cap of 2 URLs | **violated**: accepted URLs stay under the cap |
| `documents` | 2 raw items of one content, 2 radars, 2 sessions | types; no document stranded; one announcement; completed analyses final; results by the latest claimant; `DocumentContract`; every document comes to rest; what qualifies is notified |
| `documents_status` | the same | **violated**: a document stays analyzing as long as an analysis is open |
| `services` | 2 artifacts with 3 states; opportunities of one of them, 2 dispatchers; 4 tokens, 2 requests; 3 runs, 2 sessions | types; versions distinct; contents collected; removals earned; items follow contents; scores final and in the order of what they judge; one token per login, revocation final; one run per key, lookups stand, one scheduled run per interval |
| `services_removal` | the same evidence, one page that only crawls find | **violated**: a page only crawls find is not removed by runs that did not look for it |

The six violated properties are statements of the repository (comments, docstrings and
the documents `docs/08` and `docs/61`) that the code does not keep; `PROJECT.json`
quotes them under "findings". Each has a theorem that says under what condition it does hold;
see "What delimits the violations".

Bounds and why they suffice. Claims: two workers are enough for a stale one and its
successor, three for a stale one whose successor is stale as well; three claims
are the code's own limit. Route: two stages are the longest the code builds. The
threshold of 5 failures becomes 2 (1 in `runs_probe` and `runs_liveness`), which keeps "below", "at"
and "one short of it". Crawl: the seed page links to URL 2, and at times to 3; page
2 links to itself and to 1, which is taken before 3; with a frontier of two the
cap cuts off entries, two attempts (3 in the code) show both a retry and an
abandoned URL, and two compare-and-set tries (3) show a retry that succeeds and
one that gives up. Nothing in the models counts without a bound except the version,
which every commit advances and every run bounds by its finite number of commits.
Documents: two items of one content show the duplicate beside the original, two radars
the last two analyses of a document, two sessions a claim and its successor; one
fault of each kind, one retry and one radar change are enough to bring a finished
document back under an embedding or a dispatcher. Evidence: of the three states two
have one content, so that a change may be a revert, a change of the structure only,
or a change of the content; one artifact has a legacy item. Misses are counted to the
code's threshold, and the evidence alone needs no bound. Opportunities are followed on one
artifact for four ticks of the clock, an even number each, since an old score needs two
observations and two dispatches; pages in a state may show other facts than before, or
none. Tokens: a login, a refresh of it and a third and fourth token
are two logins with a rotation each, or a chain of three rotations. Run creation: the
users may send the very keys that a retry and the scheduler build; an interval and a
clock of two minutes show a scheduler that acts on an older time.
`ChangeTracking`, `RefreshTokens` and `RunCreation` share no state, so one instance checks
them in turn: `focus` says which of them moves, `Opportunities` being a fourth, and their
state spaces add up. The two instances of `runs_safety` are added up in the same way.

Symmetry (runs, workers, dispatchers, sessions) is used in safety runs only. Deadlock is not checked: the
instances have finitely many runs, and the system stops when they have ended.

### Fairness

`CollectionRuns`: beat runs every minute (`tasks/celery_app.py`), so `Dispatch` and
`Recover` of a run are weakly fair; a lease that no holder renews runs out
(`LeaseExpires`, weakly fair while nobody holds the run: the heartbeat of a dead
worker stops); a worker that neither dies nor hangs goes on (`WorkerStep`); a
message that is sent again and again is taken eventually (strong fairness of
`TakeMessage`: single messages may be lost). Nothing forces a crash, a loss of a
message, a user's action or the end of a circuit window.
`DiscoveryCrawl`: only the steps of a worker are weakly fair; they are what
`CrawlEnds` is about, since every request has a deadline and every transaction a
result.
`Documents`: beat sends a message for every fetched item, pending or stale analysis,
document to embed and eligible analysis each minute, so a first step of each kind is
weakly fair, and the steps of a session that is not killed are (`Continue`). Nothing forces a
crash, a retry, a rejection or a radar change; the properties are of the form
"again and again" and "leads to", and hold as crashes and retries are bounded.

## What is proved

`CollectionRuns_proofs` proves, for any number of runs, workers, sources, claims
and stages: `TypeOK`, `SoleHolder`, `ResultsOnce`, `ClaimsBounded`, `AttemptsDense`,
`CircuitAgrees`, `CountersMatchRuns`, `EndedIsFinal`, `OnlyHolderWrites`, and that
`CollectionRuns` implements `RunContract`. Assumptions: the named ones of the modules (the constants are
naturals, `NoRun` is no run, every run has a source); TLC evaluates them in every
run.

The argument: none of the properties is inductive alone. The inductive invariant
adds (1) what a run's row says by itself: a queued run has a claim left, results
are counted exactly for runs that ended well, attempts are 1..k; (2) what a busy
worker knows of its run: the run exists, its token was given by a claim that has
been counted; (3) that a token is given once: two busy workers of one run have
different tokens. With (3) the claim filter singles out one worker, so every write
it guards has a single author, and (1) survives it. The action properties and the
refinement follow from the same invariant, one step per action. For the row of a
source, `SourceSteps` says what a step does to it and to the one run it is about;
`CircuitAgrees` is inductive under that, and `CountersMatchRuns` is once the runs that
have started are known to be finitely many, since each outcome adds one run to one
of the sets that are counted.

`DiscoveryCrawl_proofs` proves, for any number of runs, workers and URLs and any
caps: `TypeOK`, `CheckpointSound`, `LeaseRespected`, `NothingForgotten`, `FrontierExact`,
`StepsBuildOnStored`, and, for a source with a single run, that the crawl implements
`FrontierContract`. Its assumptions are those of `Frontier` and `DiscoveryCrawl`: URLs
are naturals, the caps are naturals, and a page has finitely many links.

The argument has three layers. (1) `Frontier_proofs`: every transition of a sound,
finite document gives one, and changes it in one of three ways (`Grown`, `Consumed`,
`Missed`). The caps rest on `BestIsBounded`: the selection of the first n of a set has
at most n members, because their ranks are distinct and below n. (2) `IndInv`: the
documents a worker carries could all be stored, a pending one is the document it
read changed for its purpose, and what the worker saw of the lease still holds while
the version is the one it read. A commit compares the version, so it stores a
sound document under a lease that is its own. `FrontierExact` is inductive on top of
that, since a commit that overwrites nothing changes the stored document in one of
the three ways and adds the one record that goes with it. (3) `OwnInv`: a token is
given once, and the document of a worker that has its claim and its lease, or has
no rival, is the stored one. This is what makes it right to retry a page record
with the same document after a conflict: the docstring of `cas_crawl_step` claims it,
and only the acquisition, which needs no lease, escapes it (`crawl_takeover`).

`Documents_proofs` proves, for any items, contents, radars and sessions and any number
of faults: `TypeOK`, `StatusSupported`, `AnnouncedOnce`, `CompletedIsFinal`,
`ResultIsClaimants`, and that `Documents` implements `DocumentContract`. `StatusSupported`
is not inductive: a session reads the statuses in one step and stores its verdict in
another. The invariant adds what a session relies on while it holds its locks
(`Relies`): its verdict is that of the analyses as they will be when it commits
(`Due`). For that to survive the steps of others, (1) two sessions never hold one
document or one analysis row, and (2) the steps that move an analysis without the
document's lock, a claim and a recovery, turn an open status into an open one, which
no verdict tells apart (`VerdictOfOpen`). So a cleaning or a result gives the document
the status all analyses call for (`Resyncs`), which is a step of the contract. A
retry and the end of an embedding do not, since they act on the object they have loaded;
the contract says how far they may depart, and `StatusSupported` what is left: a
document may be ready with an open analysis, but none is stranded.

`Opportunities_proofs` proves `VersionsDistinct`, `ContentCollected` and `RemovalEarned` of
the evidence alone, and that a source with opportunities keeps its evidence as any
other does (`ItemsLeaveEvidenceAlone`), so that they hold of both. The existence of the
least version with a content, which the backfill picks, is proved by the
well-foundedness of the naturals. `EvidenceOnlyGrows` adds that no write renumbers a
version or takes one or its raw item back. The module goes on from there and proves
`OpportunitiesTypeOK`, `ItemFollowsContent`, `ScoresFinal` and `LaterScoresJudgeLaterFacts`.
An item is of a version with the present content (`Follows`) through the change that
refreshed it, or did not. For the order of the scores the invariant adds what a
dispatcher has done when it asks (`GoodDispatcher`): it took its number before it read
the facts, so all scores with smaller numbers judge no later facts, and its own is
dropped unless that number is still the next. `RefreshTokens_proofs` proves `OneTokenPerLogin` and
`RevokedIsFinal`: a request in progress has its token to itself and the token is still
valid. `RunCreation_proofs` proves `SameAnswer`, `LookupStands` and
`ScheduledOncePerInterval`: one session has the source locked and one request a key in
the index; a request commits only while nobody has the source, so what was looked
up under its lock stays so until the insert; and the source's next fetch is at least
an interval after every scheduled run. `Services_proofs` carries all of this over to the
instance that is checked: a behaviour of `MCServices` is one of each component
(`ComponentsAreIndependent`), and one of the opportunities unless the evidence alone is in
focus (`OpportunitiesInFocus`), hence its `TypeOK`.

Some theorems state what no run checks, since it goes beyond the checked properties:

- `AttemptsAreBounded`: a run leaves at most `MaxClaims * (MaxStage - 1) + 1` attempt
  rows. Its invariant counts, claim by claim, the stages that can have been missed.
- `SessionsNeverDeadlock`: sessions lock analyses before documents and wait for nothing
  while they hold a document, so a session is at most two others away from one that
  can go on. `Blocks` and `Moves` restate the guards of the steps as state predicates,
  since ENABLED is out of reach.
- `ContentHasOneOriginal`: of the raw items of one content exactly one becomes the
  original of the document. The invariant adds that a session that cleans an item
  has its content locked and the item to itself.
- `LogoutIsFinal`: once every token of a login is revoked, no step makes one valid, a
  refresh on its way included. `ReplacementsAreChains`: no token is replaced twice, and
  none is the replacement of two.
- `NewTimesMakeItemsDue`: if every refresh gave its item a time that no clock had shown
  (`RefreshedInTime`), an item none of whose scores is about its present facts would
  always be due. Late observations and reverts break the hypothesis, see the known limits.
- `CirclesNeedSentKeys`: a retry or a scheduler waits in a circle with a request only over
  a key that a user sent.
- `KeysAreBound`: a key keeps its run for good, whoever comes with it next.
- `BestIsFirst`, `BestLeavesNoRoom`: the selection by which frontier and plan are capped
  is a prefix in crawl order, and is full whenever it leaves something out.

### What delimits the violations

For each of the six violated properties a theorem names the one cause and proves
that the property holds without it. Where the cause is a step, the hypothesis is an
action formula on the behaviour, not an assumption on a constant: nothing in the
code enforces it, and the run that is violated shows a behaviour that breaks it.

| Violated in | Holds if | Theorem |
|---|---|---|
| `runs_ordinals` | the run is in its first claim | `FirstClaimReports` |
| `runs_probe` | no circuit window passes while its probe is running (`ProbesInTime`) | `TimelyProbesAreAlone` |
| `crawl_takeover` | no acquisition goes through by a retry (`AcquiresAtOnce`), or the source has one run | `FirstTriesKeepContract`, `SoleRunFetchesOnce` |
| `crawl_cap` | no URL is accepted between a plan and its merge (`PlansUndisturbed`), or the source has one run | `UndisturbedPlansKeepCap`, `SoleRunStaysUnderCap` |
| `documents_status` | every embedding ends on a document that is still to be embedded, and every retry on the status it loaded (`NoStaleWrites`) | `FreshStatusAgrees` |
| `services_removal` | no run without a crawl misses a page that only crawls find (`CrawledPagesUnmissed`) | `CrawlsRemoveNothing` |

`FirstTriesKeepContract` gives `FrontierContract` as well, for several runs that overlap,
conflict and crash; `ContractUntilOverwritten` says, with no hypothesis, that every step
before the first overwriting acquisition is a step of that contract.

## Checked, not proved

- Liveness (`EveryQueuedRunEnds`, `CrawlEnds`, `DocumentsSettle`, `QualifyingNotified`):
  outside the reach of the installed provers.

Every safety property of a passing run is the subject of a theorem.

## Not modelled

- Wall-clock time: a lease or window may run out at any moment, or never. The
  durations appear in the findings only.
- The values of latency, quality, budget and trace columns; parsing, scoring and
  extraction; the text of errors.
- The isolation level: a transaction is atomic. Where the code reads in one
  transaction and writes in another, the model has two steps.
- The crawl's attempt rows (their ordinals are those of `CollectionRuns`) and the version
  evidence of a page, which is part of the same transaction.
- Truncation of the seen set above 2000 hashes: the soundness of the document bounds it
  by the accepted counter, which stays far below (5 times 100 pages per cap check).
- HTTP fetching, robots parsing, AI providers, the websocket, CRUD, migrations, frontend,
  tooling: input and output whose result is a choice in the models, or single-row
  operations.
- The site gate: a gate has one caller, so that nothing about it can interleave.
- The attempts within one claim of an analysis or embedding, and the audit rows they
  leave: a claim ends in a result or a failure.
- A notification's text and priority, marking it as read, and the delivery of events.
- `mark_queue_failure` and the error texts of runs.

The lines of the repository are mostly outside the models for these reasons: tooling,
recorded experiments, the architecture gate and the migrations make up more than half
of its Python, and of the rest a good part is parsing, HTTP, schemas and queries,
which are functions of one input. What has state that several processes share is
modelled.

## Known limits of the code

Beside the violated properties, the modelling showed behaviour that no property
states, because it is not promised or because it does not hold:

- An item that is reverted to an earlier state, or refreshed by an observation stored
  late, takes the older time; if its latest score is newer, the change is
  not evaluated again, although the docstring of `_pending_pairs` says so.
- Facts that come from the JSON-LD, the title or the date of a page change without its
  content: the item keeps the old ones until the content changes.
- A user who sends the key that a retry or the scheduler builds can make the two wait
  for each other, until the database aborts one.
- A pair that is refreshed during a dispatch and evaluated with the new facts is
  evaluated once more by the next, since its score has the time the dispatch began.
- `record_version_evidence` reports no write for a removal, so `_mark_removed` never runs
  and the item of a removed page stays active.
- Two candidates of one run with one canonical URL, or a legacy item whose content
  already has a raw item, violate a unique index and abort the run or the backfill.
- Ten pairs whose evaluation always fails keep newer pairs from being evaluated.
