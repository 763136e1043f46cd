----------------------------- MODULE Opportunities -----------------------------
(******************************************************************************)
(* The opportunity items made of the evidence of a source of that family, and *)
(* their evaluation for one radar by dispatchers that ask a provider between  *)
(* two transactions.                                                          *)
(*                                                                            *)
(* Every item carries the time of the observation behind it and every score   *)
(* the time its dispatch began; an item is evaluated when its time is newer   *)
(* than its latest score.  Times are even numbers; an odd number before one   *)
(* is the time of an observation that is stored after it.                     *)
(*                                                                            *)
(* The facts of an opportunity are not part of the content that changes are   *)
(* told by: they come from the JSON-LD of the page, its title and its date,   *)
(* too, so a page in one state may show different ones.                       *)
(******************************************************************************)
EXTENDS ChangeTracking

CONSTANTS
  Facts,           \* the facts items can have
  Shows,           \* the facts a page in a state may show, None where none can be extracted
  PassesFilter,    \* the facts that pass the hard filter
  DeadlineOf,      \* the deadline among the facts; None if there is none
  Dispatcher,
  MaxTime          \* bound on the clock

ASSUME OpportunitiesAssumption ==
  /\ Shows \in [Trio -> SUBSET (Facts \cup {None})]
  /\ DeadlineOf \in [Facts -> Nat \cup {None}]
  /\ None \notin Facts
  /\ MaxTime \in Nat

VARIABLES
  now,
  fetched,       \* acquisition_snapshots.fetched_at, by version
  item,          \* opportunities of the artifacts; NoItem where there is none
  revision,      \* how often the facts of the item were written; read by properties only
  unread,        \* artifacts whose last change gave no facts; read by a property only
  scores,        \* opportunity_scores of the item, by evaluation_version
  active,        \* the radar is active
  dispatchers

evaluation == <<scores, active, dispatchers>>
ghosts == <<revision, unread>>
opportunityVars == <<evidence, now, fetched, item, ghosts, evaluation>>

--------------------------------------------------------------------------------
NoItem == [facts |-> None, status |-> "none", updatedAt |-> 0, version |-> 0]

IdleDispatcher ==
  [pc |-> "idle", at |-> 0, batch |-> {}, artifact |-> None, version |-> 0,
   facts |-> None, revision |-> 0]

OpportunitiesTypeOK ==
  LET facts == Facts \cup {None}
      times == 0 .. MaxTime IN
  /\ TrackingTypeOK
  /\ now \in times
  /\ \A a \in Artifact : fetched[a] \in Seq(times) /\ Len(fetched[a]) = Len(versions[a])
  /\ item \in [Artifact -> [facts : facts, status : {"none", "active", "expired"},
                            updatedAt : times, version : Nat]]
  /\ \A a \in Artifact : item[a].version <= Len(versions[a])
  /\ revision \in [Artifact -> Nat]
  /\ unread \in SUBSET Artifact
  /\ \A a \in Artifact :
       scores[a] \in Seq([at : times, told : BOOLEAN, revision : Nat])
  /\ active \in BOOLEAN
  /\ dispatchers \in
       [Dispatcher -> [pc : {"idle", "select", "check", "number", "read", "ask"},
                       at : times, batch : SUBSET Artifact,
                       artifact : Artifact \cup {None}, version : Nat, facts : facts,
                       revision : Nat]]

OpportunitiesInit ==
  /\ TrackingInit
  /\ now = 0
  /\ fetched = [a \in Artifact |-> <<>>]
  /\ item = [a \in Artifact |-> NoItem]
  /\ revision = [a \in Artifact |-> 0]
  /\ unread = {}
  /\ scores = [a \in Artifact |-> <<>>]
  /\ active = TRUE
  /\ dispatchers = [d \in Dispatcher |-> IdleDispatcher]

ClockTicks ==
  /\ now + 2 <= MaxTime
  /\ now' = now + 2

--------------------------------------------------------------------------------
(* record_opportunity_items, in the transaction that writes the evidence.     *)

\* A new artifact, or a change of the content; a change of the metadata or the
\* structure only is none, whatever it does to the facts.
Changes(a, t) == Change(a, t) \in {"created", "content_changed"}

\* Mutant: a reverted page is left as it was, like an unchanged one.
RefreshesNew(a, t, facts) ==
  Changes(a, t) /\ VersionOf(a, t) > Len(versions[a]) /\ facts # None

\* A new artifact makes an item, a change of the content refreshes it or makes
\* the one it could not make before; without facts the item stays.
Refreshes(a, t, facts) == Changes(a, t) /\ facts # None

\* Mutant: the time of a state that was seen before is stored once more.
TimesOfSightings(a, t, at) == Append(fetched[a], at)

\* The times of the snapshots when an artifact is seen at a time.
Times(a, t, at) ==
  IF VersionOf(a, t) > Len(versions[a]) THEN Append(fetched[a], at) ELSE fetched[a]

\* An item is of its snapshot and takes the time of it, which is long past if the
\* page has been in that state before.  No write reports a removal, so none
\* removes an item.
Ingest(seen, shown, at) ==
  LET changed == {a \in DOMAIN seen : Changes(a, seen[a])}
      refreshed == {a \in DOMAIN seen : Refreshes(a, seen[a], shown[a])} IN
  /\ fetched' = [a \in Artifact |->
       IF a \in DOMAIN seen THEN Times(a, seen[a], at) ELSE fetched[a]]
  /\ item' = [a \in Artifact |->
       IF a \in refreshed
       THEN LET v == VersionOf(a, seen[a]) IN
            [facts |-> shown[a], status |-> "active",
             updatedAt |-> Times(a, seen[a], at)[v], version |-> v]
       ELSE item[a]]
  /\ revision' = [a \in Artifact |->
       IF a \in refreshed THEN revision[a] + 1 ELSE revision[a]]
  /\ unread' = (unread \ changed) \cup {a \in changed : shown[a] = None}

\* The facts that pages in these states may show.
Showing(seen) ==
  {shown \in [DOMAIN seen -> Facts \cup {None}] :
     \A a \in DOMAIN seen : shown[a] \in Shows[seen[a]]}

\* The time of an observation is read when the page has been fetched or the run
\* succeeds, and the transaction that stores it ends later: others may have come
\* in between.
ObservationTimes == {now'} \cup {at \in 1 .. now : at % 2 = 1}

ObservePage(r, a, t) ==
  LET seen == [b \in {a} |-> t] IN
  /\ ClockTicks
  /\ TrackPage(r, a, t)
  /\ \E shown \in Showing(seen), at \in ObservationTimes : Ingest(seen, shown, at)
  /\ UNCHANGED evaluation

ObserveRun(r, seen, crawled) ==
  /\ ClockTicks
  /\ TrackRun(r, seen, crawled)
  /\ \E shown \in Showing(seen), at \in ObservationTimes : Ingest(seen, shown, at)
  /\ UNCHANGED evaluation

RunFails(r) ==
  /\ FailRun(r)
  /\ UNCHANGED <<now, fetched, item, ghosts, evaluation>>

\* The snapshots of legacy items have the times of those items.
ObserveLegacy ==
  /\ Backfill
  /\ fetched' = [a \in Artifact |->
       IF Len(versions'[a]) > Len(versions[a]) THEN <<0>> ELSE fetched[a]]
  /\ UNCHANGED <<now, item, ghosts, evaluation>>

--------------------------------------------------------------------------------
(* dispatch_pending_opportunities and evaluate_opportunity.                   *)

DispatcherStep(d, next) == dispatchers' = [dispatchers EXCEPT ![d] = next]

\* A deadline, with None for never, has passed.
Past(facts, time) == DeadlineOf[facts] # None /\ DeadlineOf[facts] < time

ScoredSince(a) == \E i \in DOMAIN scores[a] : scores[a][i].at >= item[a].updatedAt

\* _pending_pairs.  The instances have fewer pairs than a batch.
Pending == {a \in Artifact : item[a].status = "active" /\ active /\ ~ScoredSince(a)}

\* The time of the dispatch is read and the items past their deadline expire.
Dispatch(d) ==
  /\ dispatchers[d].pc = "idle"
  /\ ClockTicks
  /\ DispatcherStep(d, [IdleDispatcher EXCEPT !.pc = "select", !.at = now'])
  /\ LET due == {a \in Artifact : item[a].status = "active" /\ Past(item[a].facts, now')}
     IN item' = [a \in Artifact |->
                   IF a \in due THEN [item[a] EXCEPT !.status = "expired", !.updatedAt = now']
                   ELSE item[a]]
  /\ UNCHANGED <<evidence, fetched, ghosts, scores, active>>

SelectPending(d) ==
  /\ dispatchers[d].pc = "select"
  /\ DispatcherStep(d, [dispatchers[d] EXCEPT
                          !.pc = IF Pending = {} THEN "idle" ELSE "check",
                          !.batch = Pending])
  /\ UNCHANGED <<evidence, now, fetched, item, ghosts, scores, active>>

\* The dispatcher with the pair it is at done.
DoneWith(d, a) ==
  LET rest == dispatchers[d].batch \ {a} IN
  IF rest = {} THEN IdleDispatcher
  ELSE [dispatchers[d] EXCEPT !.pc = "check", !.batch = rest, !.artifact = None,
                              !.version = 0, !.facts = None, !.revision = 0]

\* _claim_target, whose three statements are three snapshots: the scores since
\* the observation, ...
CheckScored(d, a) ==
  /\ dispatchers[d].pc = "check"
  /\ a \in dispatchers[d].batch
  /\ DispatcherStep(d, IF ScoredSince(a) THEN DoneWith(d, a)
                       ELSE [dispatchers[d] EXCEPT !.pc = "number", !.artifact = a])
  /\ UNCHANGED <<evidence, now, fetched, item, ghosts, scores, active>>

\* ... the next evaluation_version, ...
NumberScore(d) ==
  /\ dispatchers[d].pc = "number"
  /\ DispatcherStep(d, [dispatchers[d] EXCEPT
                          !.pc = "read", !.version = Len(scores[dispatchers[d].artifact]) + 1])
  /\ UNCHANGED <<evidence, now, fetched, item, ghosts, scores, active>>

\* ... and the facts.
ReadFacts(d) ==
  LET a == dispatchers[d].artifact IN
  /\ dispatchers[d].pc = "read"
  /\ DispatcherStep(d, IF item[a].status = "active" /\ active
                       THEN [dispatchers[d] EXCEPT !.pc = "ask", !.facts = item[a].facts,
                                                   !.revision = revision[a]]
                       ELSE DoneWith(d, a))
  /\ UNCHANGED <<evidence, now, fetched, item, ghosts, scores, active>>

Score(d, told) ==
  [at |-> dispatchers[d].at, told |-> told, revision |-> dispatchers[d].revision]

\* Mutant: a score of that version is overwritten.
WriteAnyway(d, score) ==
  LET a == dispatchers[d].artifact IN
  scores' = [scores EXCEPT ![a] = SubSeq(@, 1, dispatchers[d].version - 1) \o <<score>>]

\* Mutant: the version is taken when the score is written.
WriteNext(d, score) ==
  LET a == dispatchers[d].artifact IN scores' = [scores EXCEPT ![a] = Append(@, score)]

\* ON CONFLICT DO NOTHING on the evaluation version.
WriteScore(d, score) ==
  LET a == dispatchers[d].artifact IN
  scores' = IF dispatchers[d].version = Len(scores[a]) + 1
            THEN [scores EXCEPT ![a] = Append(@, score)] ELSE scores

\* _maybe_notify looks at the item and the radar as they are now.
MayTell(d) ==
  LET a == dispatchers[d].artifact IN
  /\ item[a].status = "active" /\ active
  /\ DeadlineOf[item[a].facts] = None \/ DeadlineOf[item[a].facts] > dispatchers[d].at

\* The provider answers with a score, high enough to tell the user or not, or
\* fails; facts that do not pass the hard filter are scored without it.
Evaluate(d) ==
  /\ dispatchers[d].pc = "ask"
  /\ \/ /\ dispatchers[d].facts \notin PassesFilter
        /\ WriteScore(d, Score(d, FALSE))
     \/ /\ dispatchers[d].facts \in PassesFilter
        /\ \/ \E high \in BOOLEAN : WriteScore(d, Score(d, high /\ MayTell(d)))
           \/ UNCHANGED scores
  /\ DispatcherStep(d, DoneWith(d, dispatchers[d].artifact))
  /\ UNCHANGED <<evidence, now, fetched, item, ghosts, active>>

DispatcherDies(d) ==
  /\ dispatchers[d].pc # "idle"
  /\ DispatcherStep(d, IdleDispatcher)
  /\ UNCHANGED <<evidence, now, fetched, item, ghosts, scores, active>>

SwitchRadar ==
  /\ active' = ~active
  /\ UNCHANGED <<evidence, now, fetched, item, ghosts, scores, dispatchers>>

OpportunitiesNext ==
  \/ \E r \in Run :
       \/ \E a \in Artifact, t \in Trio : ObservePage(r, a, t)
       \/ \E seen \in Sightings, crawled \in BOOLEAN : ObserveRun(r, seen, crawled)
       \/ RunFails(r)
  \/ ObserveLegacy
  \/ \E d \in Dispatcher :
       \/ Dispatch(d) \/ SelectPending(d) \/ NumberScore(d) \/ ReadFacts(d)
       \/ \E a \in Artifact : CheckScored(d, a)
       \/ Evaluate(d) \/ DispatcherDies(d)
  \/ SwitchRadar

OpportunitiesSpec == OpportunitiesInit /\ [][OpportunitiesNext]_opportunityVars

--------------------------------------------------------------------------------
(* Properties.                                                                *)

\* The content of an item's snapshot is the one its page shows, whatever it is
\* changed to and back: only a content that gave no facts leaves an item of an
\* earlier one. (record_opportunity_items)
ItemFollowsContent ==
  \A a \in Artifact :
    item[a] # NoItem /\ a \notin unread =>
      ContentOf[versions[a][item[a].version]] = ContentOf[versions[a][current[a]]]

\* A score is never replaced, renumbered or lost, whichever dispatchers evaluate
\* the same pair: the loser of a version leaves nothing behind.
\* (_write_score_bundle, _write_hard_filter_failure)
ScoresFinal ==
  [][\A a \in Artifact :
       /\ Len(scores[a]) <= Len(scores'[a])
       /\ SubSeq(scores'[a], 1, Len(scores[a])) = scores[a]]_opportunityVars

\* The order of the scores of an item is the order of what they judge: an answer
\* about facts that have been replaced, however late, never comes after a score of
\* the later ones. (_claim_target, _write_score_bundle)
LaterScoresJudgeLaterFacts ==
  \A a \in Artifact :
    \A i, j \in DOMAIN scores[a] :
      i < j => scores[a][i].revision <= scores[a][j].revision

================================================================================
