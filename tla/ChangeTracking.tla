---------------------------- MODULE ChangeTracking ----------------------------
(******************************************************************************)
(* The version evidence of one source: its artifacts, the distinct states     *)
(* (snapshots) each was seen in, the pointer to the state seen last, the       *)
(* misses that end in its removal, and the raw items made of snapshots.       *)
(*                                                                            *)
(* Every transaction that writes evidence locks the source or holds a key of  *)
(* it, and locks the artifact row, so each is one action.  A run that has     *)
(* ended is forgotten and its name used for the next one: the model has no    *)
(* bound on the number of runs.                                               *)
(*                                                                            *)
(* A definition marked "Mutant" is the one that follows it with a bug in it;  *)
(* no specification uses it.                                                  *)
(******************************************************************************)
EXTENDS Naturals, Sequences, FiniteSets

CONSTANTS
  Artifact,     \* canonical URLs, or content ids of entries without a link
  Trio,         \* fingerprints of content, metadata and structure together
  ContentOf,    \* the content fingerprint of a trio
  Run,          \* the runs under way at once
  Listed,       \* what a run sees without a crawl: the seed page, or the entries of a feed
  Legacy,       \* the trio of the raw item an artifact had before evidence, or None
  None

ASSUME ChangeTrackingAssumption ==
  /\ DOMAIN ContentOf = Trio
  /\ Listed \subseteq Artifact
  /\ Legacy \in [Artifact -> Trio \cup {None}]
  /\ None \notin Trio

VARIABLES
  versions,     \* acquisition_snapshots: the trios of an artifact, by version
  current,      \* current_snapshot_id, as a version; 0 before the artifact exists
  streak,       \* safe_metadata.miss_streak
  removed,      \* removed_at IS NOT NULL
  collected,    \* the versions that have a raw item
  unlinked,     \* artifacts whose legacy raw item has no snapshot
  events        \* the artifacts with a change event of a run

evidence == <<versions, current, streak, removed, collected, unlinked, events>>

--------------------------------------------------------------------------------
REMOVED_MISS_THRESHOLD == 2

TrackingTypeOK ==
  /\ versions \in [Artifact -> Seq(Trio)]
  /\ current \in [Artifact -> Nat]
  /\ \A a \in Artifact : current[a] <= Len(versions[a])
  /\ streak \in [Artifact -> Nat]
  /\ removed \in [Artifact -> BOOLEAN]
  /\ collected \in [Artifact -> SUBSET Nat]
  /\ unlinked \in SUBSET Artifact
  /\ events \in [Run -> SUBSET Artifact]

TrackingInit ==
  /\ versions = [a \in Artifact |-> <<>>]
  /\ current = [a \in Artifact |-> 0]
  /\ streak = [a \in Artifact |-> 0]
  /\ removed = [a \in Artifact |-> FALSE]
  /\ collected = [a \in Artifact |-> {}]
  /\ unlinked = {a \in Artifact : Legacy[a] # None}
  /\ events = [r \in Run |-> {}]

--------------------------------------------------------------------------------
(* One observation.                                                           *)

\* classify_trio against the state seen last; "other" stands for a change of the
\* structure or the metadata only.
Change(a, t) ==
  IF current[a] = 0 THEN "created"
  ELSE LET seen == versions[a][current[a]] IN
       IF seen = t THEN "unchanged"
       ELSE IF ContentOf[seen] # ContentOf[t] THEN "content_changed"
       ELSE "other"

\* Mutant: a state seen before is not looked up.
NextVersion(a, t) ==
  IF Change(a, t) = "unchanged" THEN current[a] ELSE Len(versions[a]) + 1

\* The version of a state: the one it has, or the next.
VersionOf(a, t) ==
  IF \E v \in DOMAIN versions[a] : versions[a][v] = t
  THEN CHOOSE v \in DOMAIN versions[a] : versions[a][v] = t
  ELSE Len(versions[a]) + 1

\* Mutant: only new artifacts are passed on.
QualifiesOnce(a, t) == Change(a, t) = "created"

\* The changes that make a raw item, if the snapshot has none yet.
Qualifies(a, t) == Change(a, t) \in {"created", "content_changed"}

\* The rows of the artifacts in the domain of seen after they were seen as it
\* says; the others keep theirs.
Record(seen) ==
  /\ versions' = [a \in Artifact |->
       IF a \in DOMAIN seen /\ VersionOf(a, seen[a]) > Len(versions[a])
       THEN Append(versions[a], seen[a]) ELSE versions[a]]
  /\ current' = [a \in Artifact |->
       IF a \in DOMAIN seen THEN VersionOf(a, seen[a]) ELSE current[a]]
  /\ collected' = [a \in Artifact |->
       IF a \in DOMAIN seen /\ Qualifies(a, seen[a])
       THEN collected[a] \cup {VersionOf(a, seen[a])} ELSE collected[a]]

--------------------------------------------------------------------------------
(* The transactions that write evidence.                                      *)

\* A page of the crawl.  A page whose canonical URL the run has recorded already
\* violates the key (run, artifact) of the events, and the run fails.
TrackPage(r, a, t) ==
  /\ a \notin events[r]
  /\ Record([b \in {a} |-> t])
  /\ streak' = [streak EXCEPT ![a] = 0]
  /\ removed' = [removed EXCEPT ![a] = FALSE]
  /\ events' = [events EXCEPT ![r] = @ \cup {a}]
  /\ UNCHANGED unlinked

\* The artifacts a run that did not see them counts a miss for.
Missing(seen, crawled) ==
  IF crawled THEN {}
  ELSE {a \in Artifact \ DOMAIN seen : current[a] # 0 /\ ~removed[a]}

Gone(seen, crawled) ==
  {a \in Missing(seen, crawled) : streak[a] + 1 >= REMOVED_MISS_THRESHOLD}

\* Mutant: a sighting leaves the misses as they are.
StreakKept(seen, crawled) ==
  [a \in Artifact |->
     IF a \in Missing(seen, crawled) THEN streak[a] + 1 ELSE streak[a]]

Streak(seen, crawled) ==
  [a \in Artifact |->
     IF a \in DOMAIN seen THEN 0
     ELSE IF a \in Missing(seen, crawled) THEN streak[a] + 1
     ELSE streak[a]]

\* The successful end of a run: the seed page or the entries of the feed, and the
\* artifacts it missed unless it has crawled.
TrackRun(r, seen, crawled) ==
  /\ (DOMAIN seen \cup Gone(seen, crawled)) \cap events[r] = {}
  /\ Record(seen)
  /\ streak' = Streak(seen, crawled)
  /\ removed' = [a \in Artifact |->
       IF a \in DOMAIN seen THEN FALSE
       ELSE removed[a] \/ a \in Gone(seen, crawled)]
  /\ events' = [events EXCEPT ![r] = {}]
  /\ UNCHANGED unlinked

\* The run fails, also when its last transaction violates the key of the events;
\* the pages it has crawled stay.
FailRun(r) ==
  /\ events[r] # {}
  /\ events' = [events EXCEPT ![r] = {}]
  /\ UNCHANGED <<versions, current, streak, removed, collected, unlinked>>

\* The version a legacy raw item is linked to: the first with its content.
LegacyVersion(a) ==
  LET same == {v \in DOMAIN versions[a] :
                 ContentOf[versions[a][v]] = ContentOf[Legacy[a]]}
  IN IF same = {} THEN 0 ELSE CHOOSE v \in same : \A u \in same : v <= u

\* backfill_source_evidence: one transaction for all raw items of the source.  An
\* item whose version has another raw item violates the key of the raw items, and
\* then nothing is stored.
Backfill ==
  LET fresh == {a \in unlinked : current[a] = 0}
      known == {a \in unlinked : current[a] # 0 /\ LegacyVersion(a) # 0} IN
  /\ unlinked # {}
  /\ \A a \in known : LegacyVersion(a) \notin collected[a]
  /\ versions' = [a \in Artifact |-> IF a \in fresh THEN <<Legacy[a]>> ELSE versions[a]]
  /\ current' = [a \in Artifact |-> IF a \in fresh THEN 1 ELSE current[a]]
  /\ collected' = [a \in Artifact |->
       IF a \in fresh THEN {1}
       ELSE IF a \in known THEN collected[a] \cup {LegacyVersion(a)}
       ELSE collected[a]]
  /\ unlinked' = unlinked \ (fresh \cup known)
  /\ UNCHANGED <<streak, removed, events>>

\* What a run can see: at least one of the listed artifacts, each in some state.
Sightings == UNION {[some -> Trio] : some \in (SUBSET Listed) \ {{}}}

TrackingNext ==
  \/ \E r \in Run :
       \/ \E a \in Artifact, t \in Trio : TrackPage(r, a, t)
       \/ \E seen \in Sightings, crawled \in BOOLEAN : TrackRun(r, seen, crawled)
       \/ FailRun(r)
  \/ Backfill

TrackingSpec == TrackingInit /\ [][TrackingNext]_evidence

--------------------------------------------------------------------------------
(* Properties.                                                                *)

\* The versions of an artifact are its distinct states, whatever it changes to
\* and back: the unique index on the fingerprints never fails a run, and the
\* pointer of an artifact that exists points to a version of it.
\* (_resolve_current, _record_candidate)
VersionsDistinct ==
  \A a \in Artifact :
    /\ \A u, v \in DOMAIN versions[a] : versions[a][u] = versions[a][v] => u = v
    /\ current[a] = 0 => versions[a] = <<>>
    /\ collected[a] \subseteq DOMAIN versions[a]

\* The content an artifact shows now has been passed on as a raw item, although
\* structure-only versions, reused versions and legacy items make none of their
\* own. (persist_snapshot_items, backfill_source_evidence)
ContentCollected ==
  \A a \in Artifact :
    current[a] # 0 =>
      \E v \in collected[a] \cap DOMAIN versions[a] :
        ContentOf[versions[a][v]] = ContentOf[versions[a][current[a]]]

\* An artifact is removed exactly while its last two counted cycles have missed
\* it; a sighting by the run or by the crawl forgets earlier misses.
\* (_mark_missing, _record_candidate)
RemovalEarned ==
  \A a \in Artifact :
    /\ removed[a] <=> streak[a] = REMOVED_MISS_THRESHOLD
    /\ streak[a] <= REMOVED_MISS_THRESHOLD
    /\ streak[a] > 0 => current[a] # 0

\* A page that only crawls find is not removed by runs that did not look for it:
\* removal detection is for what every run observes. (_write_run_evidence)
CrawledPagesStay == \A a \in Artifact \ Listed : ~removed[a]

================================================================================
