------------------------------- MODULE Documents -------------------------------
(******************************************************************************)
(* From a fetched raw item to a document that can be searched: cleaning and   *)
(* deduplication, one analysis per radar, the embedding, and the notification *)
(* of an analysis that scores high enough.                                    *)
(*                                                                            *)
(* A worker is a database session: a Celery task, a beat task or the request  *)
(* that retries an analysis.  An action is a transaction, or the part of one  *)
(* between two statements other sessions can come in between.  What a         *)
(* transaction has not committed is kept in its worker, and so is a row it    *)
(* has loaded and does not load again; the row and advisory locks it holds    *)
(* follow from where the worker is.  The queues are abstract:                 *)
(* beat sends every message again each minute, so a task may start whenever   *)
(* the status it looks for is there, as often as it likes.                    *)
(*                                                                            *)
(* A definition marked "Mutant" is the one that follows it with a bug in it;  *)
(* no specification uses it.                                                  *)
(******************************************************************************)
EXTENDS Naturals, FiniteSets

CONSTANTS
  RawItem,
  Content,           \* cleaned contents, told apart by their hash
  Radar,
  Worker,
  ContentOf,         \* the cleaned content of a raw item
  RadarsOf,          \* the radars linked to the source of a raw item
  MaxFaults,         \* bound on crashes and on recoveries of live claims
  MaxRetries,        \* bound on the users' retry requests
  MaxRadarChanges,   \* bound on pausing, resuming and deleting radars
  None

ASSUME DocumentsAssumption ==
  /\ ContentOf \in [RawItem -> Content]
  /\ RadarsOf \in [RawItem -> SUBSET Radar]
  /\ None \notin RawItem \cup Content \cup Radar \cup Worker

VARIABLES
  raw,        \* raw_items.status
  document,   \* documents.status; "none" for a content without a document
  chunks,     \* the contents whose document_chunks rows are stored
  analysis,   \* analyses.status per content and radar
  claimant,   \* the worker whose claimed_at equals analyses.updated_at
  above,      \* the completed <<content, radar>> with a score over the threshold
  notified,   \* the <<content, radar>> with a notifications row
  events,     \* how many "notification.created" events were published for each
  radar,      \* radars.status; "deleted" stands for deleted_at IS NOT NULL
  workers,    \* what each session is doing
  faults, retries, changes

counters == <<faults, retries, changes>>
vars == <<raw, document, chunks, analysis, claimant, above, notified, events,
          radar, workers, counters>>

--------------------------------------------------------------------------------
Job == Content \X Radar

Open == {"pending", "running"}
AnalysisStatuses == Open \cup {"none", "completed", "failed"}

\* PENDING, CLEANING and DEDUPLICATING are never committed.
DocumentStatuses == {"none", "analyzing", "embedding", "ready", "failed"}

\*   clean     content and document locked, statuses read
\*   provider  an analysis claimed and committed, the model is asked
\*   saved     its result written, not committed; the analysis row is locked
\*   synced    the document locked as well, all statuses read
\*   asked     a retry request has loaded the document and waits for the analysis
\*   retry     it holds the analysis row
\*   embed     the document's advisory lock is held, the model is asked
\*   eligible  analyses without a notification selected, not locked yet
\*   notify    those rows locked and notifications inserted, not committed
Pcs == {"idle", "clean", "provider", "saved", "synced", "asked", "retry",
        "embed", "eligible", "notify"}

Idle == [pc |-> "idle", item |-> None, content |-> None, radar |-> None,
         batch |-> {}, result |-> "none", over |-> FALSE, verdict |-> "none",
         reopened |-> FALSE]

WorkerStates ==
  [pc : Pcs, item : RawItem \cup {None}, content : Content \cup {None},
   radar : Radar \cup {None}, batch : SUBSET Job,
   result : {"none", "completed", "failed"}, over : BOOLEAN,
   verdict : DocumentStatuses, reopened : BOOLEAN]

TypeOK ==
  /\ raw \in [RawItem -> {"fetched", "cleaned", "duplicate", "failed"}]
  /\ document \in [Content -> DocumentStatuses]
  /\ chunks \in SUBSET Content
  /\ analysis \in [Content -> [Radar -> AnalysisStatuses]]
  /\ claimant \in [Content -> [Radar -> Worker \cup {None}]]
  /\ above \in SUBSET Job
  /\ notified \in SUBSET Job
  /\ events \in [Job -> Nat]
  /\ radar \in [Radar -> {"active", "paused", "deleted"}]
  /\ workers \in [Worker -> WorkerStates]
  /\ faults \in Nat /\ retries \in Nat /\ changes \in Nat

Init ==
  /\ raw = [x \in RawItem |-> "fetched"]
  /\ document = [c \in Content |-> "none"]
  /\ chunks = {}
  /\ analysis = [c \in Content |-> [k \in Radar |-> "none"]]
  /\ claimant = [c \in Content |-> [k \in Radar |-> None]]
  /\ above = {}
  /\ notified = {}
  /\ events = [j \in Job |-> 0]
  /\ radar = [k \in Radar |-> "active"]
  /\ workers = [w \in Worker |-> Idle]
  /\ faults = 0 /\ retries = 0 /\ changes = 0

--------------------------------------------------------------------------------
(* Locks and the status a document is due.                                    *)

Step(w, next) == workers' = [workers EXCEPT ![w] = next]

\* The analysis rows a session has locked.
Rows(w) ==
  IF workers[w].pc \in {"saved", "synced", "retry"}
  THEN {<<workers[w].content, workers[w].radar>>}
  ELSE IF workers[w].pc = "notify" THEN workers[w].batch
  ELSE {}

RowFree(w, j) == \A v \in Worker \ {w} : j \notin Rows(v)

\* Mutant: the row of the document is read without FOR UPDATE.
DocumentReadable(w, c) == TRUE

\* Nobody else has locked the row of the document (or, before it exists, the
\* advisory lock of its content).
DocumentFree(w, c) ==
  \A v \in Worker \ {w} :
    ~(workers[v].pc \in {"clean", "synced"} /\ workers[v].content = c)

\* Mutant: a document nobody analyses is left as the cleaning created it.
VerdictUnset(statuses) ==
  IF statuses \cap Open # {} THEN "analyzing"
  ELSE IF statuses \subseteq {"none"} THEN "deduplicating"
  ELSE IF "completed" \in statuses THEN "embedding"
  ELSE "failed"

\* The status a document with these analyses gets.
Verdict(statuses) ==
  IF statuses \cap Open # {} THEN "analyzing"
  ELSE IF statuses \subseteq {"none"} \/ "completed" \in statuses THEN "embedding"
  ELSE "failed"

--------------------------------------------------------------------------------
(* clean_raw_item.                                                            *)

\* The radars whose analysis of c a raw item makes a session insert.
Missing(x) ==
  {k \in RadarsOf[x] : radar[k] = "active" /\ analysis[ContentOf[x]][k] = "none"}

\* Raw row, content and document are locked, the missing analyses inserted and
\* all statuses read.
CleanRead(w, x) ==
  LET c == ContentOf[x]
      found == {analysis[c][k] : k \in Radar}
               \cup (IF Missing(x) = {} THEN {} ELSE {"pending"})
  IN
  /\ workers[w].pc = "idle"
  /\ raw[x] = "fetched"
  /\ DocumentFree(w, c)
  /\ Step(w, [Idle EXCEPT !.pc = "clean", !.item = x, !.content = c,
                          !.batch = {c} \X Missing(x), !.verdict = Verdict(found)])
  /\ UNCHANGED <<raw, document, chunks, analysis, claimant, above, notified,
                 events, radar, counters>>

CleanCommit(w) ==
  LET c == workers[w].content
      x == workers[w].item IN
  /\ workers[w].pc = "clean"
  /\ raw' = [raw EXCEPT ![x] = IF document[c] = "none" THEN "cleaned" ELSE "duplicate"]
  /\ analysis' = [analysis EXCEPT ![c] =
                    [k \in Radar |-> IF <<c, k>> \in workers[w].batch
                                     THEN "pending" ELSE @[k]]]
  /\ document' = [document EXCEPT ![c] = workers[w].verdict]
  /\ Step(w, Idle)
  /\ UNCHANGED <<chunks, claimant, above, notified, events, radar, counters>>

\* Empty or oversized content: one transaction, without locks on a document.
CleanRejects(w, x) ==
  /\ workers[w].pc = "idle"
  /\ raw[x] = "fetched"
  /\ \A v \in Worker : workers[v].item # x
  /\ raw' = [raw EXCEPT ![x] = "failed"]
  /\ UNCHANGED <<document, chunks, analysis, claimant, above, notified, events,
                 radar, workers, counters>>

--------------------------------------------------------------------------------
(* run_analysis.                                                              *)

\* Mutant: the message is believed, the status not looked at.
ClaimUnchecked(w, c, k) ==
  /\ workers[w].pc = "idle"
  /\ analysis[c][k] # "none"
  /\ RowFree(w, <<c, k>>)
  /\ analysis' = [analysis EXCEPT ![c][k] = "running"]
  /\ claimant' = [claimant EXCEPT ![c][k] = w]
  /\ Step(w, [Idle EXCEPT !.pc = "provider", !.content = c, !.radar = k])
  /\ UNCHANGED <<raw, document, chunks, above, notified, events, radar, counters>>

Claim(w, c, k) ==
  /\ workers[w].pc = "idle"
  /\ analysis[c][k] = "pending"
  /\ RowFree(w, <<c, k>>)
  /\ analysis' = [analysis EXCEPT ![c][k] = "running"]
  /\ claimant' = [claimant EXCEPT ![c][k] = w]
  /\ Step(w, [Idle EXCEPT !.pc = "provider", !.content = c, !.radar = k])
  /\ UNCHANGED <<raw, document, chunks, above, notified, events, radar, counters>>

\* Mutant: the claim filter without updated_at.
HoldsByStatus(w) == analysis[workers[w].content][workers[w].radar] = "running"

\* The row filter of the result: still RUNNING, under the time of this claim.
Holds(w) ==
  /\ analysis[workers[w].content][workers[w].radar] = "running"
  /\ claimant[workers[w].content][workers[w].radar] = w

\* The provider answered, or every attempt failed: the row is updated, which
\* locks it, and the transaction stays open.
Save(w) ==
  /\ workers[w].pc = "provider"
  /\ RowFree(w, <<workers[w].content, workers[w].radar>>)
  /\ IF Holds(w)
     THEN \/ Step(w, [workers[w] EXCEPT !.pc = "saved", !.result = "failed"])
          \/ \E high \in BOOLEAN :
               Step(w, [workers[w] EXCEPT !.pc = "saved", !.result = "completed",
                                          !.over = high])
     ELSE Step(w, Idle)                          \* superseded
  /\ UNCHANGED <<raw, document, chunks, analysis, claimant, above, notified,
                 events, radar, counters>>

\* _sync_document: the document is locked, then all statuses are read; those of
\* other open transactions are not visible.
Sync(w) ==
  LET c == workers[w].content IN
  /\ workers[w].pc = "saved"
  /\ DocumentFree(w, c)
  /\ Step(w, [workers[w] EXCEPT !.pc = "synced",
                !.verdict = Verdict({analysis[c][k] : k \in Radar \ {workers[w].radar}}
                                    \cup {workers[w].result})])
  /\ UNCHANGED <<raw, document, chunks, analysis, claimant, above, notified,
                 events, radar, counters>>

Settle(w) ==
  LET c == workers[w].content
      k == workers[w].radar IN
  /\ workers[w].pc = "synced"
  /\ analysis' = [analysis EXCEPT ![c][k] = workers[w].result]
  /\ claimant' = [claimant EXCEPT ![c][k] = None]
  /\ above' = IF workers[w].over THEN above \cup {<<c, k>>} ELSE above
  /\ document' = [document EXCEPT ![c] = workers[w].verdict]
  /\ Step(w, Idle)
  /\ UNCHANGED <<raw, chunks, notified, events, radar, counters>>

\* The worker that holds the claim is still asking the model.
AtWork(w, c, k) ==
  /\ claimant[c][k] = w
  /\ workers[w].pc = "provider"
  /\ workers[w].content = c
  /\ workers[w].radar = k

\* Beat requeues an analysis that has been RUNNING for ten minutes, except the
\* rows that are locked; recovering one whose worker is still at it is a fault.
Recover(c, k) ==
  /\ analysis[c][k] = "running"
  /\ \A w \in Worker : <<c, k>> \notin Rows(w)
  /\ IF \E w \in Worker : AtWork(w, c, k)
     THEN faults < MaxFaults /\ faults' = faults + 1
     ELSE UNCHANGED faults
  /\ analysis' = [analysis EXCEPT ![c][k] = "pending"]
  /\ claimant' = [claimant EXCEPT ![c][k] = None]
  /\ UNCHANGED <<raw, document, chunks, above, notified, events, radar, workers,
                 retries, changes>>

--------------------------------------------------------------------------------
(* retry_analysis, requested by the owner of the radar.                       *)

\* The analysis is selected together with its document, which is loaded as the
\* statement's snapshot has it: reopened already, or not.  Only the row of the
\* analysis is going to be locked.
RetrySelect(w, c, k) ==
  /\ workers[w].pc = "idle"
  /\ retries < MaxRetries
  /\ radar[k] # "deleted"
  /\ analysis[c][k] # "none"
  /\ retries' = retries + 1
  /\ Step(w, [Idle EXCEPT !.pc = "asked", !.content = c, !.radar = k,
                          !.reopened = document[c] = "analyzing"])
  /\ UNCHANGED <<raw, document, chunks, analysis, claimant, above, notified,
                 events, radar, faults, changes>>

\* The row is locked, which may take until its holder commits, and read as it
\* then is; a completed analysis is refused.
RetryLock(w) ==
  LET c == workers[w].content
      k == workers[w].radar IN
  /\ workers[w].pc = "asked"
  /\ RowFree(w, <<c, k>>)
  /\ Step(w, IF analysis[c][k] = "completed" THEN Idle
             ELSE [workers[w] EXCEPT !.pc = "retry"])
  /\ UNCHANGED <<raw, document, chunks, analysis, claimant, above, notified,
                 events, radar, counters>>

\* Mutant: the document is reopened, the failed analysis is not.
RetryCommitDocument(w) ==
  LET c == workers[w].content IN
  /\ workers[w].pc = "retry"
  /\ DocumentFree(w, c)
  /\ document' = IF workers[w].reopened THEN document
                 ELSE [document EXCEPT ![c] = "analyzing"]
  /\ Step(w, Idle)
  /\ UNCHANGED <<raw, analysis, chunks, claimant, above, notified, events, radar,
                 counters>>

\* The document is locked, but keeps the status it was loaded with: reopening
\* it is written only if that is a change to what was loaded.
RetryCommit(w) ==
  LET c == workers[w].content
      k == workers[w].radar IN
  /\ workers[w].pc = "retry"
  /\ DocumentFree(w, c)
  /\ analysis' = [analysis EXCEPT ![c][k] = IF @ = "failed" THEN "pending" ELSE @]
  /\ document' = IF workers[w].reopened THEN document
                 ELSE [document EXCEPT ![c] = "analyzing"]
  /\ Step(w, Idle)
  /\ UNCHANGED <<raw, chunks, claimant, above, notified, events, radar, counters>>

--------------------------------------------------------------------------------
(* run_embedding.                                                             *)

\* The advisory lock of the document is taken for the whole task.  Chunks that
\* are there already make the document READY at once; otherwise the row lock is
\* released before the model is asked.
EmbedRead(w, c) ==
  /\ workers[w].pc = "idle"
  /\ \A v \in Worker : ~(workers[v].pc = "embed" /\ workers[v].content = c)
  /\ document[c] = "embedding"
  /\ DocumentFree(w, c)
  /\ IF c \in chunks
     THEN /\ document' = [document EXCEPT ![c] = "ready"]
          /\ UNCHANGED workers
     ELSE /\ Step(w, [Idle EXCEPT !.pc = "embed", !.content = c])
          /\ UNCHANGED document
  /\ UNCHANGED <<raw, chunks, analysis, claimant, above, notified, events, radar,
                 counters>>

\* Mutant: a failing model leaves the document to the next attempt.
EmbedEndRetried(w) ==
  LET c == workers[w].content IN
  /\ workers[w].pc = "embed"
  /\ DocumentFree(w, c)
  /\ \/ /\ document' = [document EXCEPT ![c] = "ready"]
        /\ chunks' = chunks \cup {c}
     \/ UNCHANGED <<document, chunks>>
  /\ Step(w, Idle)
  /\ UNCHANGED <<raw, analysis, claimant, above, notified, events, radar, counters>>

\* The row is locked once more: the chunks are stored, or the document fails.
\* The status that is compared with EMBEDDING is the one EmbedRead loaded (the
\* session keeps its objects over commits), so the outcome is written whatever
\* the status has become.
EmbedEnd(w) ==
  LET c == workers[w].content IN
  /\ workers[w].pc = "embed"
  /\ DocumentFree(w, c)
  /\ \/ /\ document' = [document EXCEPT ![c] = "ready"]
        /\ chunks' = chunks \cup {c}
     \/ /\ document' = [document EXCEPT ![c] = "failed"]
        /\ UNCHANGED chunks
  /\ Step(w, Idle)
  /\ UNCHANGED <<raw, analysis, claimant, above, notified, events, radar, counters>>

--------------------------------------------------------------------------------
(* dispatch_notifications, after an analysis and from beat.                   *)

\* Mutant: only analyses of documents that can be searched are announced.
EligibleWhenReady ==
  {j \in above \ notified : document[j[1]] = "ready" /\ radar[j[2]] = "active"}

Eligible ==
  {j \in above \ notified :
     analysis[j[1]][j[2]] = "completed" /\ radar[j[2]] = "active"}

\* The statement's snapshot is taken: all eligible analyses, or the one that
\* has just been completed.
NotifySelect(w, batch) ==
  /\ workers[w].pc = "idle"
  /\ batch # {}
  /\ batch \subseteq Eligible
  /\ batch = Eligible \/ Cardinality(batch) = 1
  /\ Step(w, [Idle EXCEPT !.pc = "eligible", !.batch = batch])
  /\ UNCHANGED <<raw, document, chunks, analysis, claimant, above, notified,
                 events, radar, counters>>

\* The selected rows are locked, those that others hold skipped.  The rows have
\* not changed, so the database does not look at the join again.
NotifyLock(w) ==
  /\ workers[w].pc = "eligible"
  /\ Step(w, [workers[w] EXCEPT !.pc = "notify",
                                !.batch = {j \in @ : RowFree(w, j)}])
  /\ UNCHANGED <<raw, document, chunks, analysis, claimant, above, notified,
                 events, radar, counters>>

\* Mutant: every row of the batch is announced, inserted or not.
NotifyCommitAll(w) ==
  /\ workers[w].pc = "notify"
  /\ notified' = notified \cup workers[w].batch
  /\ events' = [j \in Job |-> IF j \in workers[w].batch THEN events[j] + 1
                              ELSE events[j]]
  /\ Step(w, Idle)
  /\ UNCHANGED <<raw, document, chunks, analysis, claimant, above, radar, counters>>

\* ON CONFLICT DO NOTHING keeps one row per user and analysis; only an inserted
\* row is announced.
NotifyCommit(w) ==
  /\ workers[w].pc = "notify"
  /\ notified' = notified \cup workers[w].batch
  /\ events' = [j \in Job |-> IF j \in workers[w].batch \ notified THEN events[j] + 1
                              ELSE events[j]]
  /\ Step(w, Idle)
  /\ UNCHANGED <<raw, document, chunks, analysis, claimant, above, radar, counters>>

--------------------------------------------------------------------------------
(* The rest of the system.                                                    *)

\* The worker is killed or loses the database: its transaction is rolled back.
Crash(w) ==
  /\ workers[w].pc # "idle"
  /\ faults < MaxFaults
  /\ faults' = faults + 1
  /\ Step(w, Idle)
  /\ UNCHANGED <<raw, document, chunks, analysis, claimant, above, notified,
                 events, radar, retries, changes>>

ChangeRadar(k, to) ==
  /\ radar[k] # "deleted"
  /\ radar[k] # to
  /\ changes < MaxRadarChanges
  /\ changes' = changes + 1
  /\ radar' = [radar EXCEPT ![k] = to]
  /\ UNCHANGED <<raw, document, chunks, analysis, claimant, above, notified,
                 events, workers, faults, retries>>

\* Nothing is running: the system waits for the next message.
Rest ==
  /\ \A w \in Worker : workers[w].pc = "idle"
  /\ UNCHANGED vars

Continue(w) ==
  \/ CleanCommit(w)
  \/ Save(w) \/ Sync(w) \/ Settle(w)
  \/ RetryLock(w) \/ RetryCommit(w)
  \/ EmbedEnd(w)
  \/ NotifyLock(w) \/ NotifyCommit(w)

Start(w) ==
  \/ \E x \in RawItem : CleanRead(w, x) \/ CleanRejects(w, x)
  \/ \E c \in Content :
       \/ EmbedRead(w, c)
       \/ \E k \in Radar : Claim(w, c, k) \/ RetrySelect(w, c, k)
  \/ \E batch \in SUBSET Eligible : NotifySelect(w, batch)

Next ==
  \/ \E w \in Worker : Start(w) \/ Continue(w) \/ Crash(w)
  \/ \E c \in Content, k \in Radar : Recover(c, k)
  \/ \E k \in Radar, to \in {"active", "paused", "deleted"} : ChangeRadar(k, to)
  \/ Rest

Spec == Init /\ [][Next]_vars

\* Beat sends messages for fetched raw items, pending and stale analyses,
\* documents to embed and eligible analyses each minute, so some task of each kind
\* is begun as long as there is work for it, and a task that is not killed goes
\* on; retries, crashes and radar changes are optional.
Fairness ==
  /\ \A w \in Worker : WF_vars(Continue(w))
  /\ WF_vars(\E w \in Worker, x \in RawItem : CleanRead(w, x))
  /\ WF_vars(\E w \in Worker, c \in Content, k \in Radar : Claim(w, c, k))
  /\ WF_vars(\E c \in Content, k \in Radar : Recover(c, k))
  /\ WF_vars(\E w \in Worker, c \in Content : EmbedRead(w, c))
  /\ WF_vars(\E w \in Worker : NotifySelect(w, Eligible))

FairSpec == Spec /\ Fairness

--------------------------------------------------------------------------------
(* Properties.                                                                *)

\* Whatever sessions interleave, no committed state strands a document: one that
\* is analyzing has an analysis that is still to be finished, one that waits to be
\* embedded has something worth finding (a completed analysis, or none at all),
\* one that is ready has its chunks stored, and only an arrival creates one.
\* (_sync_document, clean_raw_item, retry_analysis, run_embedding)
StatusSupported ==
  \A c \in Content :
    LET found == {analysis[c][k] : k \in Radar} IN
    /\ document[c] = "analyzing" => found \cap Open # {}
    /\ document[c] = "embedding" => found \subseteq {"none"} \/ "completed" \in found
    /\ document[c] = "ready" => c \in chunks
    /\ document[c] = "none" => found \subseteq {"none"}

\* docs/08-BE5-INTELLIGENCE-BASELINE.md:27 says a document stays analyzing as long
\* as any of its analyses is pending or running.
OpenIsAnalyzing ==
  \A c \in Content :
    {analysis[c][k] : k \in Radar} \cap Open # {} => document[c] = "analyzing"

\* A user is told of an analysis at most once, however many dispatchers find it
\* without a notification, and only of one that has a notification row.
\* (dispatch_notifications)
AnnouncedOnce ==
  \A j \in Job : events[j] <= 1 /\ (events[j] = 1 => j \in notified)

\* The content of a completed analysis is final: no retry, recovery or late
\* result of another claim replaces it, and its notification stays justified.
\* (retry_analysis, recover_stale_analyses, _complete_analysis)
CompletedIsFinal ==
  [][\A c \in Content, k \in Radar :
       analysis[c][k] = "completed" =>
         /\ analysis'[c][k] = "completed"
         /\ (<<c, k>> \in above) = (<<c, k>> \in above')]_vars

\* A result is stored by the worker that holds the latest claim of the analysis;
\* a worker whose claim was recovered, even after it had begun to write, stores
\* nothing. (_claim_analysis, _complete_analysis, _fail_analysis)
ResultIsClaimants ==
  [][\A c \in Content, k \in Radar :
       analysis[c][k] # analysis'[c][k] /\ analysis'[c][k] \in {"completed", "failed"} =>
         \E w \in Worker :
           /\ claimant[c][k] = w
           /\ workers[w].content = c /\ workers[w].radar = k
           /\ analysis'[c][k] = workers[w].result]_vars

\* The pipeline implements its contract: an arrival or a result gives the document
\* the status that all its analyses call for at that very commit, although they
\* were read before; nothing but a retry and the end of an embedding that was
\* begun departs from it. (clean_raw_item, _sync_document, retry_analysis,
\* run_embedding)
Contract == INSTANCE DocumentContract
  WITH embedding <- {workers[w].content : w \in {v \in Worker : workers[v].pc = "embed"}}
ContractSpec == Contract!Spec

\* The pipeline comes to rest again and again: every raw item is cleaned and every
\* document of one is ready or failed, once crashes and retries stop. No row lock,
\* lost claim or overwritten status leaves one analyzing or embedding for ever.
DocumentsSettle ==
  []<>(\A x \in RawItem :
         raw[x] # "fetched" /\ document[ContentOf[x]] \in {"none", "ready", "failed"})

\* Dispatching catches up again and again: every analysis over the threshold is
\* notified unless its radar is not active, although its first dispatcher may crash
\* or skip it as locked.
QualifyingNotified == []<>(\A j \in above : j \in notified \/ radar[j[2]] # "active")

================================================================================
