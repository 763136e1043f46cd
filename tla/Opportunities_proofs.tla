--------------------------- MODULE Opportunities_proofs ---------------------------
(******************************************************************************)
(* Proofs about the version evidence of a source, the opportunity items made  *)
(* of it and their scores, for any number of artifacts, states of an artifact, *)
(* runs and dispatchers.                                                      *)
(******************************************************************************)
EXTENDS Opportunities, WellFoundedInduction, TLAPS

--------------------------------------------------------------------------------
(* The evidence: its inductive invariant.                                     *)

EvidenceTypes ==
  /\ versions \in [Artifact -> Seq(Trio)]
  /\ current \in [Artifact -> Nat]
  /\ streak \in [Artifact -> Nat]
  /\ removed \in [Artifact -> BOOLEAN]
  /\ collected \in [Artifact -> SUBSET Nat]
  /\ unlinked \in SUBSET Artifact
  /\ events \in [Run -> SUBSET Artifact]

\* The history of one artifact: its versions, the current one and those that have
\* a raw item.
GoodHistory(vs, cur, col) ==
  /\ vs \in Seq(Trio) /\ cur \in Nat /\ cur <= Len(vs)
  /\ \A u, v \in DOMAIN vs : vs[u] = vs[v] => u = v
  /\ cur = 0 => vs = <<>>
  /\ col \subseteq DOMAIN vs
  /\ cur # 0 => \E v \in col : ContentOf[vs[v]] = ContentOf[vs[cur]]

Histories == \A a \in Artifact : GoodHistory(versions[a], current[a], collected[a])

LegacyKnown == \A a \in unlinked : Legacy[a] # None

EvidenceInv == EvidenceTypes /\ Histories /\ RemovalEarned /\ LegacyKnown

LEMMA EvidenceInvImplies ==
  EvidenceInv => TrackingTypeOK /\ VersionsDistinct /\ ContentCollected /\ RemovalEarned
<1> SUFFICES ASSUME EvidenceInv
             PROVE  TrackingTypeOK /\ VersionsDistinct /\ ContentCollected /\ RemovalEarned
  OBVIOUS
<1>1. TrackingTypeOK
  BY DEF EvidenceInv, EvidenceTypes, Histories, GoodHistory, TrackingTypeOK
<1>2. VersionsDistinct
  BY DEF EvidenceInv, Histories, GoodHistory, VersionsDistinct
<1>3. ContentCollected
  BY DEF EvidenceInv, Histories, GoodHistory, ContentCollected
<1> QED BY <1>1, <1>2, <1>3 DEF EvidenceInv

LEMMA EvidenceInit == TrackingInit => EvidenceInv
<1> SUFFICES ASSUME TrackingInit PROVE EvidenceInv
  OBVIOUS
<1>1. <<>> \in Seq(Trio) /\ Len(<<>>) = 0 /\ DOMAIN <<>> = {}
  OBVIOUS
<1>2. EvidenceTypes
  BY <1>1 DEF TrackingInit, EvidenceTypes
<1>3. GoodHistory(<<>>, 0, {})
  BY <1>1 DEF GoodHistory
<1>4. Histories
  BY <1>3 DEF TrackingInit, Histories
<1>5. RemovalEarned /\ LegacyKnown
  BY DEF TrackingInit, RemovalEarned, LegacyKnown, REMOVED_MISS_THRESHOLD
<1> QED BY <1>2, <1>4, <1>5 DEF EvidenceInv

--------------------------------------------------------------------------------
(* One artifact is seen in a state.                                           *)

\* A version in or just after those there are, which has the state afterwards.
LEMMA VersionOfState ==
  ASSUME EvidenceInv, NEW a \in Artifact, NEW t \in Trio
  PROVE  LET v  == VersionOf(a, t)
             vs == IF v > Len(versions[a]) THEN Append(versions[a], t) ELSE versions[a]
         IN  /\ v \in Nat \ {0} /\ v <= Len(versions[a]) + 1
             /\ vs \in Seq(Trio) /\ v \in DOMAIN vs /\ vs[v] = t
             /\ DOMAIN versions[a] \subseteq DOMAIN vs
             /\ \A u \in DOMAIN versions[a] : vs[u] = versions[a][u]
             /\ \A u, w \in DOMAIN vs : vs[u] = vs[w] => u = w
<1> DEFINE old == versions[a]
           v == VersionOf(a, t)
           vs == IF v > Len(old) THEN Append(old, t) ELSE old
<1>1. /\ old \in Seq(Trio) /\ Len(old) \in Nat /\ DOMAIN old = 1 .. Len(old)
      /\ \A u, w \in DOMAIN old : old[u] = old[w] => u = w
  BY DEF EvidenceInv, Histories, GoodHistory
<1>2. CASE \E u \in DOMAIN old : old[u] = t
  <2>1. v \in DOMAIN old /\ old[v] = t
    BY <1>2 DEF VersionOf
  <2> HIDE DEF v
  <2>2. v \in Nat \ {0} /\ v <= Len(old) /\ ~(v > Len(old))
    <3> HIDE DEF old
    <3> QED BY <1>1, <2>1
  <2> QED BY <1>1, <2>1, <2>2 DEF v
<1>3. CASE ~\E u \in DOMAIN old : old[u] = t
  <2>1. v = Len(old) + 1
    BY <1>3 DEF VersionOf
  <2> HIDE DEF v
  <2>2. vs = Append(old, t)
    BY <1>1, <2>1
  <2>3. /\ Append(old, t) \in Seq(Trio)
        /\ DOMAIN Append(old, t) = 1 .. Len(old) + 1
        /\ Append(old, t)[Len(old) + 1] = t
        /\ \A u \in 1 .. Len(old) : Append(old, t)[u] = old[u]
    <3> HIDE DEF old
    <3> QED BY <1>1
  <2> HIDE DEF old, vs
  <2>4. /\ v \in Nat \ {0} /\ v <= Len(old) + 1 /\ v \in DOMAIN vs
        /\ DOMAIN old \subseteq DOMAIN vs
        /\ \A u \in DOMAIN old : vs[u] = old[u]
    BY <1>1, <2>1, <2>2, <2>3
  <2>5. ASSUME NEW u \in DOMAIN vs, NEW w \in DOMAIN vs, vs[u] = vs[w] PROVE u = w
    <3>1. \A x \in DOMAIN vs : x \in DOMAIN old \/ x = v
      BY <1>1, <2>1, <2>2, <2>3
    <3>2. \A x \in DOMAIN old : vs[x] # t
      BY <1>3, <2>4
    <3>3. vs[v] = t
      BY <2>1, <2>2, <2>3
    <3> QED BY <1>1, <2>4, <2>5, <3>1, <3>2, <3>3
  <2> QED BY <2>1, <2>2, <2>3, <2>4, <2>5 DEF old, v, vs
<1> QED BY <1>2, <1>3

\* The evidence of one sighting is a good history again.
LEMMA RecordKeeps ==
  ASSUME EvidenceInv, NEW some \in SUBSET Artifact, NEW seen \in [some -> Trio], Record(seen)
  PROVE  /\ versions' \in [Artifact -> Seq(Trio)]
         /\ current' \in [Artifact -> Nat]
         /\ collected' \in [Artifact -> SUBSET Nat]
         /\ Histories'
         /\ \A a \in Artifact : current'[a] = 0 => current[a] = 0
<1>1. ASSUME NEW a \in Artifact
      PROVE  /\ GoodHistory(versions'[a], current'[a], collected'[a])
             /\ current'[a] = 0 => current[a] = 0
  <2>1. CASE a \notin some
    BY <2>1 DEF Record, EvidenceInv, Histories
  <2>2. CASE a \in some
    <3> DEFINE t == seen[a]
               v == VersionOf(a, t)
               old == versions[a]
               vs == IF v > Len(old) THEN Append(old, t) ELSE old
    <3>1. t \in Trio
      BY <2>2
    <3>2. /\ v \in Nat \ {0} /\ v <= Len(old) + 1
          /\ vs \in Seq(Trio) /\ v \in DOMAIN vs /\ vs[v] = t
          /\ DOMAIN old \subseteq DOMAIN vs
          /\ \A u \in DOMAIN old : vs[u] = old[u]
          /\ \A u, w \in DOMAIN vs : vs[u] = vs[w] => u = w
      BY <3>1, VersionOfState
    <3>3. /\ versions'[a] = vs /\ current'[a] = v
          /\ collected'[a] = IF Qualifies(a, t) THEN collected[a] \cup {v} ELSE collected[a]
      BY <2>2 DEF Record
    <3>4. /\ old \in Seq(Trio) /\ current[a] \in Nat /\ current[a] <= Len(old)
          /\ collected[a] \subseteq DOMAIN old
          /\ current[a] # 0 =>
               /\ current[a] \in DOMAIN old
               /\ \E u \in collected[a] : ContentOf[old[u]] = ContentOf[old[current[a]]]
      BY DEF EvidenceInv, Histories, GoodHistory
    <3>5. \E u \in collected'[a] : ContentOf[vs[u]] = ContentOf[vs[v]]
      <4>1. CASE Qualifies(a, t)
        BY <3>3, <4>1
      <4>2. CASE ~Qualifies(a, t)
        <5>1. current[a] # 0 /\ ContentOf[old[current[a]]] = ContentOf[t]
          BY <4>2 DEF Qualifies, Change
        <5> HIDE DEF vs, old, v, t
        <5> QED BY <3>2, <3>3, <3>4, <4>2, <5>1
      <4> QED BY <4>1, <4>2
    <3> HIDE DEF vs, old, v, t
    <3>6. v <= Len(vs) /\ collected'[a] \subseteq DOMAIN vs
      BY <3>2, <3>3, <3>4
    <3> QED BY <3>2, <3>3, <3>5, <3>6 DEF GoodHistory
  <2> QED BY <2>1, <2>2
<1>2. /\ versions' \in [Artifact -> Seq(Trio)]
      /\ current' \in [Artifact -> Nat]
      /\ collected' \in [Artifact -> SUBSET Nat]
  <2>1. \A a \in Artifact : /\ versions'[a] \in Seq(Trio)
                            /\ current'[a] \in Nat
                            /\ collected'[a] \in SUBSET Nat
    BY <1>1 DEF GoodHistory
  <2>2. /\ versions' = [a \in Artifact |-> versions'[a]]
        /\ current' = [a \in Artifact |-> current'[a]]
        /\ collected' = [a \in Artifact |-> collected'[a]]
    BY DEF Record
  <2> QED BY <2>1, <2>2
<1> QED BY <1>1, <1>2 DEF Histories

--------------------------------------------------------------------------------
(* One lemma for each action.                                                 *)

LEMMA TrackPageKeeps ==
  ASSUME EvidenceInv, NEW r \in Run, NEW a \in Artifact, NEW t \in Trio, TrackPage(r, a, t)
  PROVE  EvidenceInv'
<1> DEFINE seen == [b \in {a} |-> t]
<1>1. seen \in [{a} -> Trio] /\ Record(seen)
  BY DEF TrackPage
<1>2. /\ streak' = [streak EXCEPT ![a] = 0]
      /\ removed' = [removed EXCEPT ![a] = FALSE]
      /\ events' = [events EXCEPT ![r] = @ \cup {a}]
      /\ unlinked' = unlinked
  BY DEF TrackPage
<1> HIDE DEF seen
<1>3. /\ versions' \in [Artifact -> Seq(Trio)]
      /\ current' \in [Artifact -> Nat]
      /\ collected' \in [Artifact -> SUBSET Nat]
      /\ Histories'
      /\ \A b \in Artifact : current'[b] = 0 => current[b] = 0
  BY <1>1, RecordKeeps
<1>4. EvidenceTypes'
  BY <1>2, <1>3 DEF EvidenceInv, EvidenceTypes
<1>5. RemovalEarned'
  <2>1. \A b \in Artifact :
          /\ streak'[b] = IF b = a THEN 0 ELSE streak[b]
          /\ removed'[b] = IF b = a THEN FALSE ELSE removed[b]
    BY <1>2 DEF EvidenceInv, EvidenceTypes
  <2>2. ASSUME NEW b \in Artifact
        PROVE  /\ removed'[b] <=> streak'[b] = 2
               /\ streak'[b] <= 2
               /\ streak'[b] > 0 => current'[b] # 0
    <3>1. /\ removed[b] <=> streak[b] = 2
          /\ streak[b] <= 2
          /\ streak[b] > 0 => current[b] # 0
      BY DEF EvidenceInv, RemovalEarned, REMOVED_MISS_THRESHOLD
    <3>2. current[b] # 0 => current'[b] # 0
      BY <1>3
    <3>3. CASE b = a
      <4>1. streak'[b] = 0 /\ ~removed'[b]
        BY <2>1, <3>3
      <4>2. streak'[b] # 2 /\ streak'[b] <= 2 /\ ~(streak'[b] > 0)
        BY <4>1
      <4> QED BY <4>1, <4>2, Zenon
    <3>4. CASE b # a
      BY <2>1, <3>1, <3>2, <3>4
    <3> QED BY <3>3, <3>4
  <2> QED BY <2>2 DEF RemovalEarned, REMOVED_MISS_THRESHOLD
<1> QED BY <1>2, <1>3, <1>4, <1>5 DEF EvidenceInv, LegacyKnown

\* The misses of a run.
LEMMA MissesKeep ==
  ASSUME EvidenceInv, NEW seen, NEW crawled, NEW a \in Artifact,
         streak'[a] = Streak(seen, crawled)[a],
         removed'[a] = IF a \in DOMAIN seen THEN FALSE
                       ELSE removed[a] \/ a \in Gone(seen, crawled)
  PROVE  /\ streak'[a] \in Nat /\ removed'[a] \in BOOLEAN
         /\ removed'[a] <=> streak'[a] = REMOVED_MISS_THRESHOLD
         /\ streak'[a] <= REMOVED_MISS_THRESHOLD
         /\ streak'[a] > 0 => current[a] # 0
<1>1. /\ streak[a] \in Nat /\ removed[a] \in BOOLEAN
      /\ removed[a] <=> streak[a] = 2
      /\ streak[a] <= 2
      /\ streak[a] > 0 => current[a] # 0
  BY DEF EvidenceInv, EvidenceTypes, RemovalEarned, REMOVED_MISS_THRESHOLD
<1>2. CASE a \in DOMAIN seen
  <2>1. streak'[a] = 0 /\ ~removed'[a] /\ removed'[a] \in BOOLEAN
    BY <1>2 DEF Streak
  <2>2. /\ streak'[a] \in Nat /\ streak'[a] # 2
        /\ streak'[a] <= 2 /\ ~(streak'[a] > 0)
    BY <2>1
  <2> QED BY <2>1, <2>2, Zenon DEF REMOVED_MISS_THRESHOLD
<1>3. CASE a \notin DOMAIN seen /\ a \in Missing(seen, crawled)
  <2>1. ~removed[a] /\ current[a] # 0
    BY <1>3 DEF Missing
  <2>2. streak'[a] = streak[a] + 1
    BY <1>3 DEF Streak
  <2>3. removed'[a] <=> streak[a] + 1 >= 2
    BY <1>3, <2>1 DEF Gone, REMOVED_MISS_THRESHOLD
  <2>4. removed'[a] \in BOOLEAN
    BY <1>1, <1>3
  <2>5. streak[a] # 2
    BY <1>1, <2>1, Zenon
  <2>6. /\ streak'[a] \in Nat /\ streak'[a] <= 2
        /\ streak[a] + 1 >= 2 <=> streak'[a] = 2
    BY <1>1, <2>2, <2>5
  <2> QED BY <2>1, <2>3, <2>4, <2>6, Zenon DEF REMOVED_MISS_THRESHOLD
<1>4. CASE a \notin DOMAIN seen /\ a \notin Missing(seen, crawled)
  <2>1. streak'[a] = streak[a]
    BY <1>4 DEF Streak
  <2>2. removed'[a] <=> removed[a]
    BY <1>4 DEF Gone
  <2>3. removed'[a] \in BOOLEAN
    BY <1>1, <1>4
  <2> QED BY <1>1, <2>1, <2>2, <2>3 DEF REMOVED_MISS_THRESHOLD
<1> QED BY <1>2, <1>3, <1>4

LEMMA TrackRunKeeps ==
  ASSUME EvidenceInv, NEW r \in Run, NEW seen \in Sightings, NEW crawled \in BOOLEAN,
         TrackRun(r, seen, crawled)
  PROVE  EvidenceInv'
<1>1. PICK some \in SUBSET Artifact : seen \in [some -> Trio]
  BY ChangeTrackingAssumption DEF Sightings
<1>2. /\ Record(seen) /\ unlinked' = unlinked
      /\ streak' = Streak(seen, crawled)
      /\ removed' = [a \in Artifact |-> IF a \in DOMAIN seen THEN FALSE
                                        ELSE removed[a] \/ a \in Gone(seen, crawled)]
      /\ events' = [events EXCEPT ![r] = {}]
  BY DEF TrackRun
<1>3. /\ versions' \in [Artifact -> Seq(Trio)]
      /\ current' \in [Artifact -> Nat]
      /\ collected' \in [Artifact -> SUBSET Nat]
      /\ Histories'
      /\ \A a \in Artifact : current'[a] = 0 => current[a] = 0
  BY <1>1, <1>2, RecordKeeps
<1>4. \A a \in Artifact :
        /\ streak'[a] \in Nat /\ removed'[a] \in BOOLEAN
        /\ removed'[a] <=> streak'[a] = REMOVED_MISS_THRESHOLD
        /\ streak'[a] <= REMOVED_MISS_THRESHOLD
        /\ streak'[a] > 0 => current[a] # 0
  BY <1>2, MissesKeep
<1>5. streak' \in [Artifact -> Nat] /\ removed' \in [Artifact -> BOOLEAN]
  <2>1. /\ streak' = [a \in Artifact |-> streak'[a]]
        /\ removed' = [a \in Artifact |-> removed'[a]]
    BY <1>2 DEF Streak
  <2> QED BY <1>4, <2>1
<1>6. EvidenceTypes'
  BY <1>2, <1>3, <1>5 DEF EvidenceInv, EvidenceTypes
<1>7. RemovalEarned'
  BY <1>3, <1>4 DEF RemovalEarned
<1> QED BY <1>2, <1>3, <1>6, <1>7 DEF EvidenceInv, LegacyKnown

LEMMA FailRunKeeps ==
  ASSUME EvidenceInv, NEW r \in Run, FailRun(r)
  PROVE  EvidenceInv'
<1>1. /\ events' = [events EXCEPT ![r] = {}]
      /\ UNCHANGED <<versions, current, streak, removed, collected, unlinked>>
  BY DEF FailRun
<1> QED BY <1>1 DEF EvidenceInv, EvidenceTypes, Histories, RemovalEarned, LegacyKnown

\* A legacy item is linked to a version with its content.
LEMMA LegacyVersionIsVersion ==
  ASSUME EvidenceInv, NEW a \in unlinked, LegacyVersion(a) # 0
  PROVE  LegacyVersion(a) \in DOMAIN versions[a]
<1> DEFINE same == {v \in DOMAIN versions[a] : ContentOf[versions[a][v]] = ContentOf[Legacy[a]]}
<1>1. same # {}
  BY DEF LegacyVersion
<1>2. same \in SUBSET Nat
  BY DEF EvidenceInv, EvidenceTypes
<1>3. \E v \in same : \A u \in same : v <= u
  <2> HIDE DEF same
  <2>1. \E v \in same : \A u \in same : <<u, v>> \notin OpToRel(<, Nat)
    BY <1>1, <1>2, NatLessThanWellFounded, WFMin
  <2>2. PICK v \in same : \A u \in same : <<u, v>> \notin OpToRel(<, Nat)
    BY <2>1
  <2>3. \A u \in same : u \in Nat /\ v \in Nat /\ ~(u < v)
    BY <1>2, <2>2 DEF OpToRel
  <2> QED BY <2>3
<1> QED BY <1>1, <1>3 DEF LegacyVersion

LEMMA BackfillKeeps ==
  ASSUME EvidenceInv, Backfill
  PROVE  EvidenceInv'
<1> DEFINE fresh == {a \in unlinked : current[a] = 0}
           known == {a \in unlinked : current[a] # 0 /\ LegacyVersion(a) # 0}
<1>1. /\ versions' = [a \in Artifact |-> IF a \in fresh THEN <<Legacy[a]>> ELSE versions[a]]
      /\ current' = [a \in Artifact |-> IF a \in fresh THEN 1 ELSE current[a]]
      /\ collected' = [a \in Artifact |->
           IF a \in fresh THEN {1}
           ELSE IF a \in known THEN collected[a] \cup {LegacyVersion(a)}
           ELSE collected[a]]
      /\ unlinked' = unlinked \ (fresh \cup known)
      /\ UNCHANGED <<streak, removed, events>>
  BY DEF Backfill
<1>2. ASSUME NEW a \in Artifact
      PROVE  GoodHistory(versions'[a], current'[a], collected'[a])
  <2>1. GoodHistory(versions[a], current[a], collected[a])
    BY DEF EvidenceInv, Histories
  <2>2. CASE a \in fresh
    <3> DEFINE t == Legacy[a]
    <3>1. t \in Trio
      BY <2>2, ChangeTrackingAssumption DEF EvidenceInv, LegacyKnown
    <3>2. versions'[a] = <<t>> /\ current'[a] = 1 /\ collected'[a] = {1}
      BY <1>1, <2>2
    <3> HIDE DEF t
    <3>3. /\ <<t>> \in Seq(Trio) /\ Len(<<t>>) = 1 /\ DOMAIN <<t>> = {1}
          /\ <<t>> # <<>>
      BY <3>1
    <3> QED BY <3>2, <3>3 DEF GoodHistory
  <2>3. CASE a \in known
    <3>1. /\ versions'[a] = versions[a] /\ current'[a] = current[a]
          /\ collected'[a] = collected[a] \cup {LegacyVersion(a)}
      BY <1>1, <2>3
    <3>2. LegacyVersion(a) \in DOMAIN versions[a]
      BY <2>3, LegacyVersionIsVersion
    <3> QED BY <2>1, <3>1, <3>2 DEF GoodHistory
  <2>4. CASE a \notin fresh \cup known
    BY <1>1, <2>1, <2>4
  <2> QED BY <2>2, <2>3, <2>4
<1> HIDE DEF fresh, known
<1>3. Histories'
  BY <1>2 DEF Histories
<1>4. /\ versions' \in [Artifact -> Seq(Trio)]
      /\ current' \in [Artifact -> Nat]
      /\ collected' \in [Artifact -> SUBSET Nat]
  <2>1. \A a \in Artifact : /\ versions'[a] \in Seq(Trio)
                            /\ current'[a] \in Nat
                            /\ collected'[a] \in SUBSET Nat
    BY <1>2 DEF GoodHistory
  <2>2. /\ versions' = [a \in Artifact |-> versions'[a]]
        /\ current' = [a \in Artifact |-> current'[a]]
        /\ collected' = [a \in Artifact |-> collected'[a]]
    BY <1>1
  <2> QED BY <2>1, <2>2
<1>5. EvidenceTypes'
  BY <1>1, <1>4 DEF EvidenceInv, EvidenceTypes
<1>6. RemovalEarned'
  <2>1. \A a \in Artifact : current[a] # 0 => current'[a] # 0
    BY <1>1
  <2> QED BY <1>1, <2>1 DEF EvidenceInv, RemovalEarned
<1> QED BY <1>1, <1>3, <1>5, <1>6 DEF EvidenceInv, LegacyKnown

--------------------------------------------------------------------------------
LEMMA EvidenceStep ==
  ASSUME EvidenceInv, [TrackingNext]_evidence
  PROVE  EvidenceInv'
<1>1. CASE TrackingNext
  BY <1>1, TrackPageKeeps, TrackRunKeeps, FailRunKeeps, BackfillKeeps DEF TrackingNext
<1>2. CASE UNCHANGED evidence
  BY <1>2 DEF evidence, EvidenceInv, EvidenceTypes, Histories, RemovalEarned, LegacyKnown
<1> QED BY <1>1, <1>2

LEMMA EvidenceInductive == TrackingSpec => []EvidenceInv
<1>1. EvidenceInv /\ [TrackingNext]_evidence => EvidenceInv'
  BY EvidenceStep
<1> QED BY <1>1, EvidenceInit, PTL DEF TrackingSpec

\* The evidence of any source has its types. (models/evidence.py)
THEOREM TrackingTypeCorrect == TrackingSpec => []TrackingTypeOK
BY EvidenceInductive, EvidenceInvImplies, PTL

\* Runs that write the evidence of one source, in any number and order, never
\* store a state of an artifact twice. (_resolve_current, _record_candidate)
THEOREM StatesHaveOneVersion == TrackingSpec => []VersionsDistinct
BY EvidenceInductive, EvidenceInvImplies, PTL

\* No sequence of changes, reverts and backfills hides a content from the raw
\* items. (persist_snapshot_items)
THEOREM ContentIsCollected == TrackingSpec => []ContentCollected
BY EvidenceInductive, EvidenceInvImplies, PTL

\* Only two misses in a row remove an artifact, and they do.  (_mark_missing)
THEOREM RemovalIsEarned == TrackingSpec => []RemovalEarned
BY EvidenceInductive, EvidenceInvImplies, PTL

--------------------------------------------------------------------------------
(* The evidence only grows.                                                   *)

\* What was stored of an artifact stays: its versions with their numbers, the raw
\* items made of them, and that it was seen at all.
EvidenceKept ==
  [][\A a \in Artifact :
       /\ \A v \in DOMAIN versions[a] :
            v \in DOMAIN versions'[a] /\ versions'[a][v] = versions[a][v]
       /\ collected[a] \subseteq collected'[a]
       /\ current[a] # 0 => current'[a] # 0]_evidence

LEMMA RecordOnlyAdds ==
  ASSUME EvidenceInv, NEW some \in SUBSET Artifact, NEW seen \in [some -> Trio], Record(seen),
         NEW a \in Artifact
  PROVE  /\ \A v \in DOMAIN versions[a] :
              v \in DOMAIN versions'[a] /\ versions'[a][v] = versions[a][v]
         /\ collected[a] \subseteq collected'[a]
         /\ current[a] # 0 => current'[a] # 0
<1>1. CASE a \notin some
  BY <1>1 DEF Record
<1>2. CASE a \in some
  <2> DEFINE t == seen[a]
             v == VersionOf(a, t)
             vs == IF v > Len(versions[a]) THEN Append(versions[a], t) ELSE versions[a]
  <2>1. /\ v \in Nat \ {0}
        /\ DOMAIN versions[a] \subseteq DOMAIN vs
        /\ \A u \in DOMAIN versions[a] : vs[u] = versions[a][u]
    BY <1>2, VersionOfState
  <2>2. /\ versions'[a] = vs /\ current'[a] = v
        /\ collected'[a] = IF Qualifies(a, t) THEN collected[a] \cup {v} ELSE collected[a]
    BY <1>2 DEF Record
  <2> HIDE DEF vs, v, t
  <2> QED BY <2>1, <2>2
<1> QED BY <1>1, <1>2

\* No write renumbers a version or takes one or its raw item back; in particular
\* the backfill, which sets the rows of an artifact it has not seen before anew,
\* meets none that has any. (_record_candidate, backfill_source_evidence)
THEOREM EvidenceOnlyGrows == TrackingSpec => EvidenceKept
<1> DEFINE Kept(a) ==
             /\ \A v \in DOMAIN versions[a] :
                  v \in DOMAIN versions'[a] /\ versions'[a][v] = versions[a][v]
             /\ collected[a] \subseteq collected'[a]
             /\ current[a] # 0 => current'[a] # 0
<1>1. EvidenceInv /\ [TrackingNext]_evidence => [\A a \in Artifact : Kept(a)]_evidence
  <2> SUFFICES ASSUME EvidenceInv, TrackingNext, NEW a \in Artifact PROVE Kept(a)
    OBVIOUS
  <2>1. ASSUME NEW r \in Run, NEW b \in Artifact, NEW t \in Trio, TrackPage(r, b, t)
        PROVE  Kept(a)
    <3>1. [x \in {b} |-> t] \in [{b} -> Trio] /\ Record([x \in {b} |-> t])
      BY <2>1 DEF TrackPage
    <3> QED BY <3>1, RecordOnlyAdds
  <2>2. ASSUME NEW r \in Run, NEW seen \in Sightings, NEW crawled \in BOOLEAN,
               TrackRun(r, seen, crawled)
        PROVE  Kept(a)
    <3>1. PICK some \in SUBSET Artifact : seen \in [some -> Trio]
      BY ChangeTrackingAssumption DEF Sightings
    <3>2. Record(seen)
      BY <2>2 DEF TrackRun
    <3> QED BY <3>1, <3>2, RecordOnlyAdds
  <2>3. ASSUME NEW r \in Run, FailRun(r) PROVE Kept(a)
    BY <2>3 DEF FailRun
  <2>4. ASSUME Backfill PROVE Kept(a)
    <3>1. CASE a \in unlinked /\ current[a] = 0
      <4>1. DOMAIN versions[a] = {} /\ collected[a] = {}
        BY <3>1 DEF EvidenceInv, Histories, GoodHistory
      <4> QED BY <3>1, <4>1
    <3>2. CASE ~(a \in unlinked /\ current[a] = 0)
      BY <2>4, <3>2 DEF Backfill
    <3> QED BY <3>1, <3>2
  <2> QED BY <2>1, <2>2, <2>3, <2>4 DEF TrackingNext
<1> QED BY <1>1, EvidenceInductive, PTL DEF TrackingSpec, EvidenceKept

--------------------------------------------------------------------------------
(* What only crawls find.                                                     *)

\* A run that does not crawl finds no page missing that only crawls find: it
\* comes before their first, or all of them are removed.
CrawledPagesUnmissed ==
  [][\A r \in Run, seen \in Sightings :
       TrackRun(r, seen, FALSE) => Missing(seen, FALSE) \subseteq Listed]_evidence

\* Pages that only crawls find are removed by nothing but runs that do not crawl:
\* a source whose runs all crawl keeps them, whatever else they see or miss.
\* (_write_run_evidence)
THEOREM CrawlsRemoveNothing == TrackingSpec /\ CrawledPagesUnmissed => []CrawledPagesStay
<1> DEFINE Unmissed == \A a \in Artifact \ Listed : streak[a] = 0 /\ ~removed[a]
           Careful == \A r \in Run, seen \in Sightings :
                        TrackRun(r, seen, FALSE) => Missing(seen, FALSE) \subseteq Listed
<1>1. TrackingInit => Unmissed
  BY DEF TrackingInit
<1>2. EvidenceInv /\ Unmissed /\ [TrackingNext]_evidence /\ [Careful]_evidence => Unmissed'
  <2> SUFFICES ASSUME EvidenceInv, Unmissed, [TrackingNext]_evidence, [Careful]_evidence,
                      NEW a \in Artifact \ Listed
               PROVE  streak'[a] = 0 /\ ~removed'[a]
    OBVIOUS
  <2>1. streak[a] = 0 /\ ~removed[a]
    OBVIOUS
  <2>2. ASSUME NEW r \in Run, NEW b \in Artifact, NEW t \in Trio, TrackPage(r, b, t)
        PROVE  streak'[a] = 0 /\ ~removed'[a]
    BY <2>1, <2>2 DEF TrackPage, EvidenceInv, EvidenceTypes
  <2>3. ASSUME NEW r \in Run, NEW seen \in Sightings, NEW crawled \in BOOLEAN,
               TrackRun(r, seen, crawled), ~UNCHANGED evidence
        PROVE  streak'[a] = 0 /\ ~removed'[a]
    <3>1. a \notin Missing(seen, crawled)
      <4>1. CASE crawled
        BY <4>1 DEF Missing
      <4>2. CASE ~crawled
        <5>1. Careful /\ crawled = FALSE
          BY <2>3, <4>2
        <5> QED BY <2>3, <5>1
      <4> QED BY <4>1, <4>2
    <3>2. streak'[a] = 0
      BY <2>1, <2>3, <3>1 DEF TrackRun, Streak
    <3>3. ~removed'[a]
      BY <2>1, <2>3, <3>1 DEF TrackRun, Gone
    <3> QED BY <3>2, <3>3
  <2>4. ASSUME UNCHANGED <<streak, removed>> PROVE streak'[a] = 0 /\ ~removed'[a]
    BY <2>1, <2>4
  <2> QED BY <2>2, <2>3, <2>4 DEF TrackingNext, FailRun, Backfill, evidence
<1>3. Unmissed => CrawledPagesStay
  BY DEF CrawledPagesStay
<1> QED BY <1>1, <1>2, <1>3, EvidenceInductive, PTL DEF TrackingSpec, CrawledPagesUnmissed

--------------------------------------------------------------------------------
\* A step of a source with opportunities is one of its evidence or none of it.
LEMMA OpportunitiesTakeNothing ==
  ASSUME [OpportunitiesNext]_opportunityVars
  PROVE  [TrackingNext]_evidence
<1>1. ASSUME NEW r \in Run, NEW a \in Artifact, NEW t \in Trio, ObservePage(r, a, t)
      PROVE  TrackingNext
  BY <1>1 DEF ObservePage, TrackingNext
<1>2. ASSUME NEW r \in Run, NEW seen \in Sightings, NEW crawled \in BOOLEAN,
             ObserveRun(r, seen, crawled)
      PROVE  TrackingNext
  BY <1>2 DEF ObserveRun, TrackingNext
<1>3. ASSUME NEW r \in Run, RunFails(r) PROVE TrackingNext
  BY <1>3 DEF RunFails, TrackingNext
<1>4. ASSUME ObserveLegacy PROVE TrackingNext
  BY <1>4 DEF ObserveLegacy, TrackingNext
<1>5. ASSUME NEW d \in Dispatcher,
             \/ Dispatch(d) \/ SelectPending(d) \/ NumberScore(d) \/ ReadFacts(d)
             \/ \E a \in Artifact : CheckScored(d, a)
             \/ Evaluate(d) \/ DispatcherDies(d)
      PROVE  UNCHANGED evidence
  BY <1>5 DEF Dispatch, SelectPending, NumberScore, ReadFacts, CheckScored, Evaluate,
              DispatcherDies
<1>6. ASSUME SwitchRadar PROVE UNCHANGED evidence
  BY <1>6 DEF SwitchRadar
<1>7. ASSUME UNCHANGED opportunityVars PROVE UNCHANGED evidence
  BY <1>7 DEF opportunityVars
<1> QED BY <1>1, <1>2, <1>3, <1>4, <1>5, <1>6, <1>7 DEF OpportunitiesNext

\* The opportunity items take nothing from the evidence: with them, a source's
\* evidence behaves as it does alone, and so has the properties above.
\* (record_opportunity_items, in the transaction of _write_evidence_and_items)
THEOREM ItemsLeaveEvidenceAlone == OpportunitiesSpec => TrackingSpec
<1>1. OpportunitiesInit => TrackingInit
  BY DEF OpportunitiesInit
<1>2. [OpportunitiesNext]_opportunityVars => [TrackingNext]_evidence
  BY OpportunitiesTakeNothing
<1> QED BY <1>1, <1>2, PTL DEF OpportunitiesSpec, TrackingSpec

--------------------------------------------------------------------------------
(* The items and scores: their inductive invariant, next to that of the       *)
(* evidence.                                                                  *)

MaybeFacts == Facts \cup {None}

Clock == 0 .. MaxTime

Items ==
  [facts : MaybeFacts, status : {"none", "active", "expired"}, updatedAt : Clock, version : Nat]

Scores == [at : Clock, told : BOOLEAN, revision : Nat]

DispatcherStates ==
  [pc : {"idle", "select", "check", "number", "read", "ask"}, at : Clock,
   batch : SUBSET Artifact, artifact : Artifact \cup {None}, version : Nat,
   facts : MaybeFacts, revision : Nat]

ItemTypes ==
  /\ now \in Clock
  /\ fetched \in [Artifact -> Seq(Clock)]
  /\ \A a \in Artifact : Len(fetched[a]) = Len(versions[a])
  /\ item \in [Artifact -> Items]
  /\ revision \in [Artifact -> Nat]
  /\ unread \in SUBSET Artifact
  /\ active \in BOOLEAN

ScoreTypes ==
  /\ scores \in [Artifact -> Seq(Scores)]
  /\ dispatchers \in [Dispatcher -> DispatcherStates]

\* An item, of an artifact with these versions, is of one of them, and of one with
\* the present content if that gave facts.
Follows(it, vs, cur, blank) ==
  it # NoItem =>
    /\ cur # 0 /\ it.version \in DOMAIN vs
    /\ ~blank => ContentOf[vs[it.version]] = ContentOf[vs[cur]]

\* The scores of an item that has been revised so often are in the order of what
\* they judge.
GoodScores(ss, last) ==
  \A i \in DOMAIN ss :
    /\ ss[i].revision <= last
    /\ \A j \in DOMAIN ss : i < j => ss[i].revision <= ss[j].revision

\* A dispatcher that is about to ask, or has asked, took its number before it read
\* the facts: the scores before that number are of no later facts.
GoodDispatcher(x, ss, last) ==
  /\ x.pc \in {"number", "read", "ask"} => x.artifact \in Artifact
  /\ x.pc \in {"read", "ask"} => x.version <= Len(ss[x.artifact]) + 1
  /\ x.pc = "ask" =>
       /\ x.revision <= last[x.artifact]
       /\ \A i \in DOMAIN ss[x.artifact] :
            i < x.version => ss[x.artifact][i].revision <= x.revision

ItemsInv ==
  /\ ItemTypes
  /\ ScoreTypes
  /\ \A a \in Artifact : /\ Follows(item[a], versions[a], current[a], a \in unread)
                         /\ GoodScores(scores[a], revision[a])
  /\ \A d \in Dispatcher : GoodDispatcher(dispatchers[d], scores, revision)

LEMMA NoItemIsNone ==
  /\ NoItem \in Items
  /\ NoItem.status = "none" /\ NoItem.version = 0 /\ NoItem.updatedAt = 0
BY OpportunitiesAssumption DEF NoItem, Items, MaybeFacts, Clock

LEMMA ItemsInvImplies ==
  ASSUME EvidenceInv, ItemsInv
  PROVE  OpportunitiesTypeOK /\ ItemFollowsContent /\ LaterScoresJudgeLaterFacts
<1>1. ASSUME NEW a \in Artifact PROVE item[a].version <= Len(versions[a])
  <2>1. versions[a] \in Seq(Trio)
    BY DEF EvidenceInv, EvidenceTypes
  <2>2. item[a] = NoItem \/ item[a].version \in DOMAIN versions[a]
    BY DEF ItemsInv, Follows
  <2>3. 0 <= Len(versions[a]) /\ \A v \in DOMAIN versions[a] : v <= Len(versions[a])
    BY <2>1
  <2> QED BY <2>2, <2>3, NoItemIsNone
<1>2. OpportunitiesTypeOK
  BY <1>1, EvidenceInvImplies
     DEF ItemsInv, ItemTypes, ScoreTypes, MaybeFacts, Clock, Items, Scores, DispatcherStates,
         OpportunitiesTypeOK
<1>3. ItemFollowsContent
  BY DEF ItemsInv, Follows, ItemFollowsContent
<1>4. LaterScoresJudgeLaterFacts
  BY DEF ItemsInv, GoodScores, LaterScoresJudgeLaterFacts
<1> QED BY <1>2, <1>3, <1>4

LEMMA TimePasses ==
  ASSUME ItemTypes, ClockTicks
  PROVE  /\ now \in Nat /\ now' = now + 2 /\ now' \in Clock /\ now' > now
         /\ now' \in Nat /\ MaxTime \in Nat
BY OpportunitiesAssumption DEF ItemTypes, Clock, ClockTicks

LEMMA ObservationTimesAreTimes ==
  ASSUME ItemTypes, ClockTicks
  PROVE  ObservationTimes \subseteq Clock
BY TimePasses DEF ObservationTimes, Clock, ItemTypes

LEMMA ItemsInit == OpportunitiesInit => ItemsInv
<1> SUFFICES ASSUME OpportunitiesInit PROVE ItemsInv
  OBVIOUS
<1>1. MaxTime \in Nat /\ 0 \in Clock /\ None \in MaybeFacts
  BY OpportunitiesAssumption DEF Clock, MaybeFacts
<1>2. /\ <<>> \in Seq(Clock) /\ <<>> \in Seq(Scores)
      /\ Len(<<>>) = 0 /\ DOMAIN <<>> = {}
  OBVIOUS
<1>4. IdleDispatcher \in DispatcherStates /\ IdleDispatcher.pc = "idle"
  BY <1>1 DEF IdleDispatcher, DispatcherStates
<1>5. ItemTypes
  BY <1>1, <1>2, NoItemIsNone DEF OpportunitiesInit, TrackingInit, ItemTypes
<1>6. ScoreTypes
  BY <1>2, <1>4 DEF OpportunitiesInit, ScoreTypes
<1>7. \A a \in Artifact : /\ Follows(item[a], versions[a], current[a], a \in unread)
                          /\ GoodScores(scores[a], revision[a])
  BY <1>2 DEF OpportunitiesInit, Follows, GoodScores
<1>8. \A d \in Dispatcher : GoodDispatcher(dispatchers[d], scores, revision)
  BY <1>4 DEF OpportunitiesInit, GoodDispatcher
<1> QED BY <1>5, <1>6, <1>7, <1>8 DEF ItemsInv

--------------------------------------------------------------------------------
(* The steps that write items.                                                *)

\* The times of the snapshots of an artifact, and that of the version it is in.
LEMMA TimesAreTimes ==
  ASSUME EvidenceInv, ItemsInv, NEW a \in Artifact, NEW t \in Trio, NEW at \in Clock
  PROVE  LET ts == Times(a, t, at)
             vs == IF VersionOf(a, t) > Len(versions[a])
                   THEN Append(versions[a], t) ELSE versions[a]
         IN  ts \in Seq(Clock) /\ Len(ts) = Len(vs) /\ ts[VersionOf(a, t)] \in Clock
<1> DEFINE old == versions[a]
           v == VersionOf(a, t)
           vs == IF v > Len(old) THEN Append(old, t) ELSE old
           times == fetched[a]
           ts == IF v > Len(old) THEN Append(times, at) ELSE times
<1>1. v \in Nat \ {0} /\ v \in DOMAIN vs
  BY VersionOfState
<1>2. times \in Seq(Clock) /\ Len(times) = Len(old)
  BY DEF ItemsInv, ItemTypes
<1>3. old \in Seq(Trio)
  BY DEF EvidenceInv, EvidenceTypes
<1>4. ts = Times(a, t, at)
  BY DEF Times
<1> HIDE DEF old, v, times
<1>5. ts \in Seq(Clock) /\ Len(ts) = Len(vs)
  BY <1>2, <1>3
<1>6. vs \in Seq(Trio)
  BY <1>3
<1> HIDE DEF vs, ts
<1>7. ts[v] \in Clock
  BY <1>1, <1>5, <1>6
<1> QED BY <1>4, <1>5, <1>7 DEF old, v, vs

\* Nothing but the revisions of items counts up under the scores and dispatchers.
LEMMA RevisionsGrow ==
  ASSUME ItemsInv, revision' \in [Artifact -> Nat],
         \A a \in Artifact : revision[a] <= revision'[a],
         UNCHANGED <<scores, dispatchers>>
  PROVE  /\ \A a \in Artifact : GoodScores(scores'[a], revision'[a])
         /\ \A d \in Dispatcher : GoodDispatcher(dispatchers'[d], scores', revision')
<1>1. revision \in [Artifact -> Nat]
  BY DEF ItemsInv, ItemTypes
<1>2. ASSUME NEW a \in Artifact PROVE GoodScores(scores'[a], revision'[a])
  <2>1. GoodScores(scores[a], revision[a]) /\ scores[a] \in Seq(Scores)
    BY DEF ItemsInv, ScoreTypes
  <2>2. \A i \in DOMAIN scores[a] : scores[a][i].revision \in Nat
    <3>1. \A i \in DOMAIN scores[a] : scores[a][i] \in Scores
      BY <2>1
    <3> QED BY <3>1 DEF Scores
  <2>3. revision[a] \in Nat /\ revision'[a] \in Nat /\ revision[a] <= revision'[a]
    BY <1>1
  <2> QED BY <2>1, <2>2, <2>3 DEF GoodScores
<1>3. ASSUME NEW d \in Dispatcher PROVE GoodDispatcher(dispatchers'[d], scores', revision')
  <2>1. PICK x \in DispatcherStates : x = dispatchers[d] /\ x = dispatchers'[d]
    BY DEF ItemsInv, ScoreTypes
  <2>2. GoodDispatcher(x, scores, revision)
    BY <2>1 DEF ItemsInv
  <2>3. x.revision \in Nat
    BY DEF DispatcherStates
  <2>4. x.pc = "ask" => x.revision <= revision'[x.artifact]
    <3>1. SUFFICES ASSUME x.pc = "ask" PROVE x.revision <= revision'[x.artifact]
      OBVIOUS
    <3>2. PICK a \in Artifact : a = x.artifact
      BY <2>2, <3>1 DEF GoodDispatcher
    <3>3. x.revision <= revision[a]
      BY <2>2, <3>1, <3>2 DEF GoodDispatcher
    <3>4. revision[a] \in Nat /\ revision'[a] \in Nat /\ revision[a] <= revision'[a]
      BY <1>1
    <3> QED BY <2>3, <3>2, <3>3, <3>4
  <2> QED BY <2>1, <2>2, <2>4 DEF GoodDispatcher
<1> QED BY <1>2, <1>3

\* The artifacts of a transaction that takes time, and their items.
LEMMA IngestKeeps ==
  ASSUME EvidenceInv, ItemsInv, ClockTicks,
         NEW some \in SUBSET Artifact, NEW seen \in [some -> Trio], Record(seen),
         NEW shown \in [some -> MaybeFacts], NEW at \in Clock,
         Ingest(seen, shown, at), UNCHANGED evaluation
  PROVE  ItemsInv'
<1> DEFINE changed == {a \in some : Changes(a, seen[a])}
           refreshed == {a \in some : Refreshes(a, seen[a], shown[a])}
<1>1. now' \in Clock
  BY TimePasses DEF ItemsInv
<1>2. DOMAIN seen = some
  OBVIOUS
<1>3. /\ fetched' = [a \in Artifact |->
           IF a \in some THEN Times(a, seen[a], at) ELSE fetched[a]]
      /\ item' = [a \in Artifact |->
           IF a \in refreshed
           THEN [facts |-> shown[a], status |-> "active",
                 updatedAt |-> Times(a, seen[a], at)[VersionOf(a, seen[a])],
                 version |-> VersionOf(a, seen[a])]
           ELSE item[a]]
      /\ revision' = [a \in Artifact |->
           IF a \in refreshed THEN revision[a] + 1 ELSE revision[a]]
      /\ unread' = (unread \ changed) \cup {a \in changed : shown[a] = None}
      /\ scores' = scores /\ active' = active /\ dispatchers' = dispatchers
  BY <1>2 DEF Ingest, evaluation
<1>4. ASSUME NEW a \in Artifact
      PROVE  /\ fetched'[a] \in Seq(Clock) /\ Len(fetched'[a]) = Len(versions'[a])
             /\ item'[a] \in Items
  <2>1. /\ fetched[a] \in Seq(Clock) /\ Len(fetched[a]) = Len(versions[a])
        /\ item[a] \in Items
    BY DEF ItemsInv, ItemTypes
  <2>2. CASE a \in some
    <3> DEFINE t == seen[a]
               v == VersionOf(a, t)
               vs == IF v > Len(versions[a]) THEN Append(versions[a], t) ELSE versions[a]
    <3>1. t \in Trio /\ shown[a] \in MaybeFacts
      BY <2>2
    <3>2. /\ Times(a, t, at) \in Seq(Clock)
          /\ Len(Times(a, t, at)) = Len(vs)
          /\ Times(a, t, at)[v] \in Clock
          /\ v \in Nat
      BY <3>1, TimesAreTimes, VersionOfState
    <3>3. versions'[a] = vs
      BY <1>2, <2>2 DEF Record
    <3> HIDE DEF t, v, vs
    <3>5. fetched'[a] = Times(a, t, at)
      BY <1>3, <2>2 DEF t
    <3>6. item'[a] = [facts |-> shown[a], status |-> "active",
                      updatedAt |-> Times(a, t, at)[v], version |-> v]
          \/ item'[a] = item[a]
      BY <1>3, <2>2 DEF t, v
    <3>7. item'[a] \in Items
      BY <2>1, <3>1, <3>2, <3>6 DEF Items
    <3> QED BY <3>2, <3>3, <3>5, <3>7
  <2>3. CASE a \notin some
    <3>1. versions'[a] = versions[a]
      BY <1>2, <2>3 DEF Record
    <3> QED BY <1>3, <2>1, <2>3, <3>1
  <2> QED BY <2>2, <2>3
<1>5. /\ revision' \in [Artifact -> Nat]
      /\ \A a \in Artifact : revision[a] <= revision'[a]
  <2>1. revision \in [Artifact -> Nat]
    BY DEF ItemsInv, ItemTypes
  <2> HIDE DEF refreshed
  <2> QED BY <1>3, <2>1
<1>6. ItemTypes'
  <2>1. fetched' \in [Artifact -> Seq(Clock)]
    BY <1>3, <1>4
  <2>2. item' \in [Artifact -> Items]
    BY <1>3, <1>4
  <2>3. unread' \in SUBSET Artifact
    BY <1>3 DEF ItemsInv, ItemTypes
  <2>4. active' \in BOOLEAN
    BY <1>3 DEF ItemsInv, ItemTypes
  <2> QED BY <1>1, <1>4, <1>5, <2>1, <2>2, <2>3, <2>4
          DEF ItemTypes, Items, MaybeFacts, Clock
<1>7. ScoreTypes'
  BY <1>3 DEF ItemsInv, ScoreTypes, Scores, DispatcherStates, MaybeFacts, Clock
<1>8. ASSUME NEW a \in Artifact
      PROVE  Follows(item'[a], versions'[a], current'[a], a \in unread')
  <2>1. Follows(item[a], versions[a], current[a], a \in unread)
    BY DEF ItemsInv
  <2>2. CASE a \notin some
    <3>1. /\ versions'[a] = versions[a] /\ current'[a] = current[a] /\ item'[a] = item[a]
          /\ a \in unread' <=> a \in unread
      BY <1>2, <1>3, <2>2 DEF Record
    <3> QED BY <2>1, <3>1 DEF Follows
  <2>3. CASE a \in some
    <3> DEFINE t == seen[a]
               v == VersionOf(a, t)
    <3>1. t \in Trio
      BY <2>3
    <3>2. /\ current'[a] = v /\ v # 0
          /\ v \in DOMAIN versions'[a] /\ versions'[a][v] = t
          /\ \A u \in DOMAIN versions[a] :
               u \in DOMAIN versions'[a] /\ versions'[a][u] = versions[a][u]
      BY <1>2, <2>3, <3>1, VersionOfState DEF Record
    <3>3. CASE a \in refreshed
      <4>1. item'[a] = [facts |-> shown[a], status |-> "active",
                        updatedAt |-> Times(a, t, at)[v], version |-> v]
        BY <1>3, <3>3
      <4>2. item'[a].version = v
        BY <4>1
      <4> HIDE DEF t, v
      <4> QED BY <3>2, <4>2 DEF Follows
    <3>4. CASE a \notin refreshed
      <4>1. item'[a] = item[a]
        BY <1>3, <3>4
      <4>2. CASE a \in unread'
        <5> HIDE DEF t, v
        <5> QED BY <2>1, <3>2, <4>1, <4>2 DEF Follows
      <4>3. CASE a \notin unread'
        <5>1. ~Changes(a, t)
          BY <1>3, <2>3, <3>4, <4>3 DEF Refreshes
        <5>2. a \notin unread
          BY <1>3, <4>3, <5>1
        <5>3. current[a] # 0 /\ ContentOf[versions[a][current[a]]] = ContentOf[t]
          BY <5>1 DEF Changes, Change
        <5> HIDE DEF t, v
        <5> QED BY <2>1, <3>2, <4>1, <5>2, <5>3 DEF Follows
      <4> QED BY <4>2, <4>3
    <3> QED BY <3>3, <3>4
  <2> QED BY <2>2, <2>3
<1>9. /\ \A a \in Artifact : GoodScores(scores'[a], revision'[a])
      /\ \A d \in Dispatcher : GoodDispatcher(dispatchers'[d], scores', revision')
  BY <1>3, <1>5, RevisionsGrow
<1> QED BY <1>6, <1>7, <1>8, <1>9 DEF ItemsInv

\* What pages may show.
LEMMA ShowingIsFacts ==
  ASSUME NEW some \in SUBSET Artifact, NEW seen \in [some -> Trio], NEW shown \in Showing(seen)
  PROVE  shown \in [some -> MaybeFacts]
BY DEF Showing, MaybeFacts

LEMMA ObservePageKeeps ==
  ASSUME EvidenceInv, ItemsInv, NEW r \in Run, NEW a \in Artifact, NEW t \in Trio,
         ObservePage(r, a, t)
  PROVE  ItemsInv'
<1> DEFINE seen == [b \in {a} |-> t]
<1>1. PICK shown \in Showing(seen), at \in ObservationTimes : Ingest(seen, shown, at)
  BY DEF ObservePage
<1>2. ClockTicks /\ Record(seen) /\ UNCHANGED evaluation
  BY DEF ObservePage, TrackPage
<1>3. seen \in [{a} -> Trio] /\ {a} \in SUBSET Artifact
  OBVIOUS
<1> HIDE DEF seen
<1>4. shown \in [{a} -> MaybeFacts] /\ at \in Clock
  BY <1>2, <1>3, ShowingIsFacts, ObservationTimesAreTimes DEF ItemsInv
<1> QED BY <1>1, <1>2, <1>3, <1>4, IngestKeeps

LEMMA ObserveRunKeeps ==
  ASSUME EvidenceInv, ItemsInv, NEW r \in Run, NEW seen \in Sightings, NEW crawled \in BOOLEAN,
         ObserveRun(r, seen, crawled)
  PROVE  ItemsInv'
<1>1. PICK some \in SUBSET Artifact : seen \in [some -> Trio]
  BY ChangeTrackingAssumption DEF Sightings
<1>2. PICK shown \in Showing(seen), at \in ObservationTimes : Ingest(seen, shown, at)
  BY DEF ObserveRun
<1>3. ClockTicks /\ Record(seen) /\ UNCHANGED evaluation
  BY DEF ObserveRun, TrackRun
<1>4. shown \in [some -> MaybeFacts] /\ at \in Clock
  BY <1>1, <1>3, ShowingIsFacts, ObservationTimesAreTimes DEF ItemsInv
<1> QED BY <1>1, <1>2, <1>3, <1>4, IngestKeeps

\* Only an artifact that did not exist, and so has no item, changes its page.
LEMMA ObserveLegacyKeeps ==
  ASSUME EvidenceInv, ItemsInv, ObserveLegacy
  PROVE  ItemsInv'
<1> DEFINE fresh == {a \in unlinked : current[a] = 0}
<1>1. /\ versions' = [a \in Artifact |-> IF a \in fresh THEN <<Legacy[a]>> ELSE versions[a]]
      /\ current' = [a \in Artifact |-> IF a \in fresh THEN 1 ELSE current[a]]
      /\ fetched' = [a \in Artifact |->
           IF Len(versions'[a]) > Len(versions[a]) THEN <<0>> ELSE fetched[a]]
      /\ UNCHANGED <<now, item, revision, unread, scores, active, dispatchers>>
  BY DEF ObserveLegacy, Backfill, evaluation, ghosts
<1>2. ASSUME NEW a \in Artifact
      PROVE  /\ fetched'[a] \in Seq(Clock) /\ Len(fetched'[a]) = Len(versions'[a])
             /\ Follows(item'[a], versions'[a], current'[a], a \in unread')
  <2>1. /\ fetched[a] \in Seq(Clock) /\ Len(fetched[a]) = Len(versions[a])
        /\ Follows(item[a], versions[a], current[a], a \in unread)
    BY DEF ItemsInv, ItemTypes
  <2>2. CASE a \notin fresh
    <3>1. versions'[a] = versions[a] /\ current'[a] = current[a]
      BY <1>1, <2>2
    <3>2. Len(versions[a]) \in Nat
      BY DEF EvidenceInv, EvidenceTypes
    <3>3. fetched'[a] = fetched[a]
      BY <1>1, <3>1, <3>2
    <3> QED BY <1>1, <2>1, <3>1, <3>3 DEF Follows
  <2>3. CASE a \in fresh
    <3>1. current[a] = 0 /\ versions[a] = <<>>
      BY <2>3 DEF EvidenceInv, Histories, GoodHistory
    <3>2. versions'[a] = <<Legacy[a]>>
      BY <1>1, <2>3
    <3>3. Len(<<>>) = 0 /\ Len(<<Legacy[a]>>) = 1
      OBVIOUS
    <3>4. fetched'[a] = <<0>>
      <4>1. Len(versions'[a]) = 1 /\ Len(versions[a]) = 0
        BY <3>1, <3>2, <3>3
      <4>2. Len(versions'[a]) > Len(versions[a])
        BY <4>1
      <4> HIDE DEF fresh
      <4> QED BY <1>1, <4>2, Zenon
    <3>5. 0 \in Clock
      BY OpportunitiesAssumption DEF Clock
    <3>6. <<0>> \in Seq(Clock) /\ Len(<<0>>) = 1
      BY <3>5
    <3>7. Follows(item'[a], versions'[a], current'[a], a \in unread')
      BY <1>1, <2>1, <3>1 DEF Follows
    <3> QED BY <3>2, <3>3, <3>4, <3>6, <3>7
  <2> QED BY <2>2, <2>3
<1>3. ItemTypes'
  <2>1. fetched' \in [Artifact -> Seq(Clock)]
    BY <1>1, <1>2
  <2> QED BY <1>1, <1>2, <2>1 DEF ItemsInv, ItemTypes, Items, MaybeFacts, Clock
<1>4. ScoreTypes'
  BY <1>1 DEF ItemsInv, ScoreTypes, Scores, DispatcherStates, MaybeFacts, Clock
<1>5. \A a \in Artifact : GoodScores(scores'[a], revision'[a])
  BY <1>1 DEF ItemsInv
<1>6. \A d \in Dispatcher : GoodDispatcher(dispatchers'[d], scores', revision')
  BY <1>1 DEF ItemsInv
<1> QED BY <1>2, <1>3, <1>4, <1>5, <1>6 DEF ItemsInv

--------------------------------------------------------------------------------
(* The steps of a dispatcher.                                                 *)

\* A dispatcher moves and nothing else does.
LEMMA DispatcherMoves ==
  ASSUME ItemsInv, NEW d \in Dispatcher, NEW next \in DispatcherStates,
         GoodDispatcher(next, scores, revision), DispatcherStep(d, next),
         UNCHANGED <<evidence, now, fetched, item, ghosts, scores, active>>
  PROVE  ItemsInv'
<1>1. /\ UNCHANGED <<now, fetched, item, revision, unread, scores, active, versions, current>>
      /\ dispatchers' = [dispatchers EXCEPT ![d] = next]
  BY DEF DispatcherStep, evidence, ghosts
<1>2. ItemTypes'
  BY <1>1 DEF ItemsInv, ItemTypes, Items, MaybeFacts, Clock
<1>3. ScoreTypes'
  BY <1>1 DEF ItemsInv, ScoreTypes
<1>4. \A a \in Artifact : /\ Follows(item'[a], versions'[a], current'[a], a \in unread')
                          /\ GoodScores(scores'[a], revision'[a])
  BY <1>1 DEF ItemsInv
<1>5. ASSUME NEW e \in Dispatcher PROVE GoodDispatcher(dispatchers'[e], scores', revision')
  BY <1>1 DEF ItemsInv, ScoreTypes
<1> QED BY <1>2, <1>3, <1>4, <1>5 DEF ItemsInv

\* A dispatcher between two pairs, or at rest, knows nothing that can get old.
LEMMA IdleIsGood ==
  /\ IdleDispatcher \in DispatcherStates
  /\ IdleDispatcher.pc = "idle" /\ IdleDispatcher.at = 0
  /\ GoodDispatcher(IdleDispatcher, scores, revision)
<1>1. 0 \in Clock /\ None \in MaybeFacts
  BY OpportunitiesAssumption DEF Clock, MaybeFacts
<1> QED BY <1>1 DEF IdleDispatcher, DispatcherStates, GoodDispatcher

LEMMA DoneIsGood ==
  ASSUME ScoreTypes, NEW d \in Dispatcher, NEW a
  PROVE  /\ DoneWith(d, a) \in DispatcherStates
         /\ DoneWith(d, a).pc \in {"idle", "check"}
         /\ DoneWith(d, a).at \in {0, dispatchers[d].at}
<1> DEFINE x == dispatchers[d]
           rest == x.batch \ {a}
           y == [x EXCEPT !.pc = "check", !.batch = rest, !.artifact = None,
                          !.version = 0, !.facts = None, !.revision = 0]
<1>1. x \in DispatcherStates /\ None \in MaybeFacts
  BY DEF ScoreTypes, MaybeFacts
<1>2. y \in DispatcherStates /\ y.pc = "check" /\ y.at = x.at
  BY <1>1 DEF DispatcherStates
<1> QED BY <1>2, IdleIsGood DEF DoneWith

\* The items that a dispatch finds past their deadline change their status and
\* take its time.
LEMMA DispatchEffect ==
  ASSUME ItemsInv, NEW d \in Dispatcher, Dispatch(d), NEW a \in Artifact
  PROVE  /\ item'[a] \in Items
         /\ item'[a] = item[a] \/ ( /\ item[a] # NoItem
                                    /\ item'[a].version = item[a].version
                                    /\ item'[a].updatedAt = now' )
<1> DEFINE due == {b \in Artifact : item[b].status = "active" /\ Past(item[b].facts, now')}
<1>1. now' \in Clock
  BY TimePasses DEF Dispatch, ItemsInv
<1>2. item' = [b \in Artifact |->
        IF b \in due THEN [item[b] EXCEPT !.status = "expired", !.updatedAt = now']
        ELSE item[b]]
  BY DEF Dispatch
<1>3. item[a] \in Items
  BY DEF ItemsInv, ItemTypes
<1>4. CASE a \in due
  <2>1. item'[a] = [item[a] EXCEPT !.status = "expired", !.updatedAt = now']
    BY <1>2, <1>4
  <2>2. item[a] # NoItem
    BY <1>4, NoItemIsNone
  <2> QED BY <1>1, <1>3, <2>1, <2>2 DEF Items
<1>5. CASE a \notin due
  BY <1>2, <1>3, <1>5
<1> QED BY <1>4, <1>5

LEMMA DispatchKeeps ==
  ASSUME ItemsInv, NEW d \in Dispatcher, Dispatch(d)
  PROVE  ItemsInv'
<1> DEFINE next == [IdleDispatcher EXCEPT !.pc = "select", !.at = now']
<1>1. now' \in Clock
  BY TimePasses DEF Dispatch, ItemsInv
<1>2. /\ dispatchers' = [dispatchers EXCEPT ![d] = next]
      /\ UNCHANGED <<fetched, revision, unread, scores, active, versions, current>>
  BY DEF Dispatch, DispatcherStep, evidence, ghosts
<1>3. ItemTypes'
  <2>1. item' \in [Artifact -> Items]
    BY DispatchEffect DEF Dispatch
  <2> QED BY <1>1, <1>2, <2>1 DEF ItemsInv, ItemTypes, Items, MaybeFacts, Clock
<1>4. next \in DispatcherStates /\ next.pc = "select"
  BY <1>1, IdleIsGood DEF DispatcherStates
<1> HIDE DEF next
<1>5. ScoreTypes'
  BY <1>2, <1>4 DEF ItemsInv, ScoreTypes
<1>6. ASSUME NEW a \in Artifact
      PROVE  /\ Follows(item'[a], versions'[a], current'[a], a \in unread')
             /\ GoodScores(scores'[a], revision'[a])
  BY <1>2, DispatchEffect DEF ItemsInv, Follows
<1>7. ASSUME NEW e \in Dispatcher PROVE GoodDispatcher(dispatchers'[e], scores', revision')
  <2>1. GoodDispatcher(next, scores, revision)
    BY <1>4 DEF GoodDispatcher
  <2> QED BY <1>2, <2>1 DEF ItemsInv, ScoreTypes
<1> QED BY <1>3, <1>5, <1>6, <1>7 DEF ItemsInv

LEMMA SelectPendingKeeps ==
  ASSUME ItemsInv, NEW d \in Dispatcher, SelectPending(d)
  PROVE  ItemsInv'
<1> DEFINE x == dispatchers[d]
           next == [x EXCEPT !.pc = IF Pending = {} THEN "idle" ELSE "check",
                             !.batch = Pending]
<1>1. x \in DispatcherStates
  BY DEF ItemsInv, ScoreTypes
<1>2. next \in DispatcherStates /\ next.pc \in {"idle", "check"}
  BY <1>1 DEF DispatcherStates, Pending
<1>3. GoodDispatcher(next, scores, revision)
  BY <1>2 DEF GoodDispatcher
<1> QED BY <1>2, <1>3, DispatcherMoves DEF SelectPending

\* A dispatcher is done with a pair.
LEMMA DoneKeeps ==
  ASSUME ItemsInv, NEW d \in Dispatcher, NEW a, DispatcherStep(d, DoneWith(d, a)),
         UNCHANGED <<evidence, now, fetched, item, ghosts, scores, active>>
  PROVE  ItemsInv'
<1> DEFINE next == DoneWith(d, a)
<1>1. next \in DispatcherStates /\ next.pc \in {"idle", "check"}
  BY DoneIsGood DEF ItemsInv
<1> HIDE DEF next
<1>2. GoodDispatcher(next, scores, revision)
  BY <1>1 DEF GoodDispatcher
<1> QED BY <1>1, <1>2, DispatcherMoves DEF next

LEMMA CheckScoredKeeps ==
  ASSUME ItemsInv, NEW d \in Dispatcher, NEW a \in Artifact, CheckScored(d, a)
  PROVE  ItemsInv'
<1> DEFINE x == dispatchers[d]
           next == [x EXCEPT !.pc = "number", !.artifact = a]
<1>1. x \in DispatcherStates
  BY DEF ItemsInv, ScoreTypes
<1>2. next \in DispatcherStates /\ next.pc = "number" /\ next.artifact = a
  BY <1>1 DEF DispatcherStates
<1>3. GoodDispatcher(next, scores, revision)
  BY <1>2 DEF GoodDispatcher
<1> HIDE DEF next
<1>4. DispatcherStep(d, DoneWith(d, a)) \/ DispatcherStep(d, next)
  BY DEF CheckScored, next
<1> QED BY <1>2, <1>3, <1>4, DoneKeeps, DispatcherMoves DEF CheckScored

LEMMA NumberScoreKeeps ==
  ASSUME ItemsInv, NEW d \in Dispatcher, NumberScore(d)
  PROVE  ItemsInv'
<1> DEFINE x == dispatchers[d]
           number == Len(scores[x.artifact]) + 1
           next == [x EXCEPT !.pc = "read", !.version = number]
<1>1. x \in DispatcherStates /\ GoodDispatcher(x, scores, revision) /\ x.pc = "number"
  BY DEF ItemsInv, ScoreTypes, NumberScore
<1>2. x.artifact \in Artifact
  BY <1>1 DEF GoodDispatcher
<1>3. number \in Nat /\ number <= Len(scores[x.artifact]) + 1
  <2>1. scores[x.artifact] \in Seq(Scores)
    BY <1>2 DEF ItemsInv, ScoreTypes
  <2> QED BY <2>1
<1> HIDE DEF number
<1>4. /\ next \in DispatcherStates /\ next.pc = "read"
      /\ next.artifact = x.artifact /\ next.version = number
  BY <1>1, <1>3 DEF DispatcherStates
<1>5. GoodDispatcher(next, scores, revision)
  BY <1>2, <1>3, <1>4 DEF GoodDispatcher
<1> QED BY <1>4, <1>5, DispatcherMoves DEF NumberScore, number

LEMMA ReadFactsKeeps ==
  ASSUME ItemsInv, NEW d \in Dispatcher, ReadFacts(d)
  PROVE  ItemsInv'
<1> DEFINE x == dispatchers[d]
           a == x.artifact
           next == [x EXCEPT !.pc = "ask", !.facts = item[a].facts, !.revision = revision[a]]
<1>1. x \in DispatcherStates /\ GoodDispatcher(x, scores, revision) /\ x.pc = "read"
  BY DEF ItemsInv, ScoreTypes, ReadFacts
<1>2. a \in Artifact /\ x.version <= Len(scores[a]) + 1
  BY <1>1 DEF GoodDispatcher
<1>3. item[a].facts \in MaybeFacts /\ revision[a] \in Nat
  BY <1>2 DEF ItemsInv, ItemTypes, Items
<1>4. /\ next \in DispatcherStates /\ next.artifact = a
      /\ next.version = x.version /\ next.revision = revision[a]
  BY <1>1, <1>3 DEF DispatcherStates
<1>5. GoodDispatcher(next, scores, revision)
  <2>1. GoodScores(scores[a], revision[a])
    BY <1>2 DEF ItemsInv
  <2> QED BY <1>2, <1>3, <1>4, <2>1 DEF GoodDispatcher, GoodScores
<1> HIDE DEF next
<1>6. DispatcherStep(d, DoneWith(d, a)) \/ DispatcherStep(d, next)
  BY DEF ReadFacts, next
<1> QED BY <1>4, <1>5, <1>6, DoneKeeps, DispatcherMoves DEF ReadFacts

\* A score is written under the number its dispatcher has, the next, or not at
\* all.
LEMMA WriteAppends ==
  ASSUME ItemsInv, NEW d \in Dispatcher, NEW told \in BOOLEAN, WriteScore(d, Score(d, told))
  PROVE  \/ scores' = scores
         \/ /\ dispatchers[d].version = Len(scores[dispatchers[d].artifact]) + 1
            /\ scores' = [scores EXCEPT ![dispatchers[d].artifact] =
                            Append(scores[dispatchers[d].artifact], Score(d, told))]
BY DEF WriteScore

LEMMA EvaluateWrites ==
  ASSUME ItemsInv, NEW d \in Dispatcher, Evaluate(d)
  PROVE  \/ scores' = scores
         \/ /\ dispatchers[d].version = Len(scores[dispatchers[d].artifact]) + 1
            /\ \E told \in BOOLEAN :
                 scores' = [scores EXCEPT ![dispatchers[d].artifact] =
                              Append(scores[dispatchers[d].artifact], Score(d, told))]
<1>1. CASE WriteScore(d, Score(d, FALSE))
  BY <1>1, WriteAppends
<1>2. CASE \E high \in BOOLEAN : WriteScore(d, Score(d, high /\ MayTell(d)))
  <2>1. PICK high \in BOOLEAN : WriteScore(d, Score(d, high /\ MayTell(d)))
    BY <1>2
  <2>2. (high /\ MayTell(d)) \in BOOLEAN
    BY DEF MayTell
  <2> QED BY <2>1, <2>2, WriteAppends
<1>3. CASE scores' = scores
  BY <1>3
<1> QED BY <1>1, <1>2, <1>3 DEF Evaluate

\* What a score that follows the ones before its number says fits after them.
LEMMA AppendedIsGood ==
  ASSUME NEW old \in Seq(Scores), NEW s \in Scores, NEW last \in Nat, GoodScores(old, last),
         s.revision <= last, \A i \in DOMAIN old : old[i].revision <= s.revision
  PROVE  GoodScores(Append(old, s), last)
<1>1. /\ Len(old) \in Nat /\ DOMAIN old = 1 .. Len(old)
      /\ DOMAIN Append(old, s) = 1 .. Len(old) + 1
      /\ Append(old, s)[Len(old) + 1] = s
      /\ \A i \in DOMAIN old : Append(old, s)[i] = old[i]
  OBVIOUS
<1> DEFINE all == Append(old, s)
<1> HIDE DEF all
<1>2. \A i \in DOMAIN all : i \in DOMAIN old \/ i = Len(old) + 1
  BY <1>1 DEF all
<1>3. \A i \in DOMAIN old : i \in Nat /\ i <= Len(old)
  BY <1>1
<1>4. ASSUME NEW i \in DOMAIN all PROVE all[i].revision <= last
  BY <1>1, <1>2 DEF GoodScores, all
<1>5. ASSUME NEW i \in DOMAIN all, NEW j \in DOMAIN all, i < j
      PROVE  all[i].revision <= all[j].revision
  <2>1. i \in DOMAIN old
    BY <1>1, <1>2, <1>3, <1>5
  <2>2. CASE j \in DOMAIN old
    BY <1>1, <1>5, <2>1, <2>2 DEF GoodScores, all
  <2>3. CASE j = Len(old) + 1
    BY <1>1, <2>1, <2>3 DEF all
  <2> QED BY <1>2, <2>2, <2>3
<1> QED BY <1>4, <1>5 DEF GoodScores, all

LEMMA EvaluateKeeps ==
  ASSUME ItemsInv, NEW d \in Dispatcher, Evaluate(d)
  PROVE  ItemsInv'
<1> DEFINE x == dispatchers[d]
           a == x.artifact
           next == DoneWith(d, a)
<1>1. /\ UNCHANGED <<now, fetched, item, revision, unread, active, versions, current>>
      /\ dispatchers' = [dispatchers EXCEPT ![d] = next]
      /\ x.pc = "ask"
  BY DEF Evaluate, DispatcherStep, evidence, ghosts
<1>2. next \in DispatcherStates /\ next.pc \in {"idle", "check"}
  BY DoneIsGood DEF ItemsInv
<1>3. x \in DispatcherStates /\ GoodDispatcher(x, scores, revision) /\ a \in Artifact
  BY <1>1 DEF ItemsInv, ScoreTypes, GoodDispatcher
<1> HIDE DEF next
<1>4. /\ scores \in [Artifact -> Seq(Scores)] /\ revision \in [Artifact -> Nat]
      /\ \A b \in Artifact : GoodScores(scores[b], revision[b])
  BY DEF ItemsInv, ItemTypes, ScoreTypes
<1>5. CASE scores' = scores
  <2>1. DispatcherStep(d, DoneWith(d, a))
    BY DEF Evaluate
  <2>2. UNCHANGED <<evidence, now, fetched, item, ghosts, scores, active>>
    BY <1>5 DEF Evaluate
  <2> QED BY <2>1, <2>2, DoneKeeps
<1>6. ASSUME NEW told \in BOOLEAN, x.version = Len(scores[a]) + 1,
             scores' = [scores EXCEPT ![a] = Append(scores[a], Score(d, told))]
      PROVE  ItemsInv'
  <2> DEFINE s == Score(d, told)
             old == scores[a]
  <2>1. s \in Scores /\ s.revision = x.revision
    BY <1>3 DEF Score, Scores, DispatcherStates
  <2>2. old \in Seq(Scores) /\ GoodScores(old, revision[a]) /\ revision[a] \in Nat
    BY <1>3, <1>4
  <2>3. /\ x.revision <= revision[a]
        /\ \A i \in DOMAIN old : i < x.version => old[i].revision <= x.revision
    BY <1>1, <1>3 DEF GoodDispatcher
  <2> HIDE DEF s, old
  <2>4. \A i \in DOMAIN old : old[i].revision <= s.revision
    <3>1. \A i \in DOMAIN old : i < x.version
      BY <1>6, <2>2 DEF old
    <3> QED BY <2>1, <2>3, <3>1
  <2>5. GoodScores(Append(old, s), revision[a])
    BY <2>1, <2>2, <2>3, <2>4, AppendedIsGood
  <2>6. /\ Append(old, s) \in Seq(Scores) /\ Len(Append(old, s)) = Len(old) + 1
        /\ DOMAIN Append(old, s) = 1 .. Len(old) + 1 /\ Len(old) \in Nat
        /\ DOMAIN old = 1 .. Len(old)
        /\ \A i \in DOMAIN old : Append(old, s)[i] = old[i]
    BY <2>1, <2>2
  <2>7. /\ scores' \in [Artifact -> Seq(Scores)] /\ scores'[a] = Append(old, s)
        /\ \A b \in Artifact \ {a} : scores'[b] = scores[b]
    BY <1>3, <1>4, <1>6, <2>6 DEF old, s
  <2>8. ItemTypes'
    BY <1>1 DEF ItemsInv, ItemTypes, Items, MaybeFacts, Clock
  <2>9. ScoreTypes'
    <3>1. dispatchers' \in [Dispatcher -> DispatcherStates]
      BY <1>1, <1>2 DEF ItemsInv, ScoreTypes
    <3> QED BY <2>7, <3>1 DEF ScoreTypes, Scores, DispatcherStates, MaybeFacts, Clock
  <2>10. \A b \in Artifact : /\ Follows(item'[b], versions'[b], current'[b], b \in unread')
                             /\ GoodScores(scores'[b], revision'[b])
    BY <1>1, <1>4, <2>5, <2>7 DEF ItemsInv
  <2>11. ASSUME NEW e \in Dispatcher PROVE GoodDispatcher(dispatchers'[e], scores', revision')
    <3>1. CASE e = d
      <4>1. dispatchers'[e] = next
        BY <1>1, <3>1 DEF ItemsInv, ScoreTypes
      <4> QED BY <1>2, <4>1 DEF GoodDispatcher
    <3>2. CASE e # d
      <4>1. PICK y \in DispatcherStates : y = dispatchers[e] /\ y = dispatchers'[e]
        BY <1>1, <3>2 DEF ItemsInv, ScoreTypes
      <4>2. GoodDispatcher(y, scores, revision)
        BY <4>1 DEF ItemsInv
      <4>3. CASE y.artifact = a
        <5>1. y.version \in Nat
          BY DEF DispatcherStates
        <5>2. /\ y.pc \in {"read", "ask"} => y.version <= Len(old) + 1
              /\ y.pc = "ask" =>
                   \A i \in DOMAIN old : i < y.version => old[i].revision <= y.revision
          BY <4>2, <4>3 DEF GoodDispatcher, old
        <5>3. y.pc \in {"read", "ask"} => y.version <= Len(Append(old, s)) + 1
          BY <2>6, <5>1, <5>2
        <5>4. ASSUME y.pc = "ask", NEW i \in DOMAIN Append(old, s), i < y.version
              PROVE  Append(old, s)[i].revision <= y.revision
          <6>1. i \in DOMAIN old
            BY <2>6, <5>1, <5>2, <5>4
          <6> QED BY <2>6, <5>2, <5>4, <6>1
        <5> QED BY <1>1, <2>7, <4>1, <4>2, <4>3, <5>3, <5>4 DEF GoodDispatcher
      <4>4. CASE y.artifact # a
        <5>1. y.artifact \in Artifact => scores'[y.artifact] = scores[y.artifact]
          BY <2>7, <4>4
        <5> QED BY <1>1, <4>1, <4>2, <5>1 DEF GoodDispatcher
      <4> QED BY <4>3, <4>4
    <3> QED BY <3>1, <3>2
  <2> QED BY <2>8, <2>9, <2>10, <2>11 DEF ItemsInv
<1> QED BY <1>5, <1>6, EvaluateWrites

LEMMA DispatcherDiesKeeps ==
  ASSUME ItemsInv, NEW d \in Dispatcher, DispatcherDies(d)
  PROVE  ItemsInv'
BY IdleIsGood, DispatcherMoves DEF DispatcherDies

--------------------------------------------------------------------------------
\* A step that leaves everything alone but whether the radar is active.
LEMMA SwitchKeeps ==
  ASSUME ItemsInv, active' \in BOOLEAN,
         UNCHANGED <<versions, current, now, fetched, item, ghosts, scores, dispatchers>>
  PROVE  ItemsInv'
<1>1. UNCHANGED <<revision, unread>>
  BY DEF ghosts
<1>2. ItemTypes'
  BY <1>1 DEF ItemsInv, ItemTypes, Items, MaybeFacts, Clock
<1>3. ScoreTypes'
  BY DEF ItemsInv, ScoreTypes, Scores, DispatcherStates, MaybeFacts, Clock
<1>4. \A a \in Artifact : /\ Follows(item'[a], versions'[a], current'[a], a \in unread')
                          /\ GoodScores(scores'[a], revision'[a])
  BY <1>1 DEF ItemsInv
<1>5. \A d \in Dispatcher : GoodDispatcher(dispatchers'[d], scores', revision')
  BY <1>1 DEF ItemsInv
<1> QED BY <1>2, <1>3, <1>4, <1>5 DEF ItemsInv

\* A run that fails writes evidence only, and no version of it.
LEMMA RunFailsKeeps ==
  ASSUME ItemsInv, NEW r \in Run, RunFails(r)
  PROVE  ItemsInv'
<1>1. /\ UNCHANGED <<versions, current, now, fetched, item, ghosts, scores, dispatchers>>
      /\ active' \in BOOLEAN
  BY DEF RunFails, FailRun, evaluation, ItemsInv, ItemTypes
<1> QED BY <1>1, SwitchKeeps

LEMMA ItemsStep ==
  ASSUME EvidenceInv, ItemsInv, [OpportunitiesNext]_opportunityVars
  PROVE  ItemsInv'
<1>1. ASSUME SwitchRadar PROVE ItemsInv'
  <2>1. /\ UNCHANGED <<versions, current, now, fetched, item, ghosts, scores, dispatchers>>
        /\ active' \in BOOLEAN
    BY <1>1 DEF SwitchRadar, evidence
  <2> QED BY <2>1, SwitchKeeps
<1>2. ASSUME UNCHANGED opportunityVars PROVE ItemsInv'
  <2>1. /\ UNCHANGED <<versions, current, now, fetched, item, ghosts, scores, dispatchers>>
        /\ active' \in BOOLEAN
    BY <1>2 DEF opportunityVars, evidence, evaluation, ItemsInv, ItemTypes
  <2> QED BY <2>1, SwitchKeeps
<1> QED BY <1>1, <1>2, ObservePageKeeps, ObserveRunKeeps, RunFailsKeeps, ObserveLegacyKeeps,
           DispatchKeeps, SelectPendingKeeps, CheckScoredKeeps, NumberScoreKeeps,
           ReadFactsKeeps, EvaluateKeeps, DispatcherDiesKeeps
           DEF OpportunitiesNext

LEMMA ItemsInductive == OpportunitiesSpec => [](EvidenceInv /\ ItemsInv)
<1>1. EvidenceInv /\ ItemsInv /\ [OpportunitiesNext]_opportunityVars => ItemsInv'
  BY ItemsStep
<1>2. OpportunitiesSpec => []EvidenceInv
  BY ItemsLeaveEvidenceAlone, EvidenceInductive, PTL
<1> QED BY <1>1, <1>2, ItemsInit, PTL DEF OpportunitiesSpec

--------------------------------------------------------------------------------
\* The items, scores and dispatchers of any source have their types.
\* (models/opportunity.py)
THEOREM OpportunitiesTypeCorrect == OpportunitiesSpec => []OpportunitiesTypeOK
<1>1. EvidenceInv /\ ItemsInv => OpportunitiesTypeOK
  BY ItemsInvImplies
<1> QED BY <1>1, ItemsInductive, PTL

\* No order of changes, reverts, changes of the metadata and backfills leaves an
\* item with another content than its page shows, unless that content gave no
\* facts. (record_opportunity_items)
THEOREM ItemsFollowContents == OpportunitiesSpec => []ItemFollowsContent
<1>1. EvidenceInv /\ ItemsInv => ItemFollowsContent
  BY ItemsInvImplies
<1> QED BY <1>1, ItemsInductive, PTL

\* However long a provider takes and however many dispatchers ask, no score of
\* replaced facts comes after one of the later facts. (evaluate_opportunity)
THEOREM ScoresFollowFacts == OpportunitiesSpec => []LaterScoresJudgeLaterFacts
<1>1. EvidenceInv /\ ItemsInv => LaterScoresJudgeLaterFacts
  BY ItemsInvImplies
<1> QED BY <1>1, ItemsInductive, PTL

\* Any number of dispatchers evaluate a pair without one touching another's score.
\* (_write_score_bundle)
THEOREM ScoresAreFinal == OpportunitiesSpec => ScoresFinal
<1> DEFINE Kept == \A a \in Artifact :
                     /\ Len(scores[a]) <= Len(scores'[a])
                     /\ SubSeq(scores'[a], 1, Len(scores[a])) = scores[a]
<1>1. ASSUME ItemsInv, [OpportunitiesNext]_opportunityVars PROVE [Kept]_opportunityVars
  <2> SUFFICES ASSUME NEW a \in Artifact
               PROVE  /\ Len(scores[a]) <= Len(scores'[a])
                      /\ SubSeq(scores'[a], 1, Len(scores[a])) = scores[a]
    OBVIOUS
  <2> DEFINE old == scores[a]
  <2>1. old \in Seq(Scores)
    BY <1>1 DEF ItemsInv, ScoreTypes
  <2>2. scores'[a] = old \/ \E s : scores'[a] = Append(old, s)
    <3>1. ASSUME NEW d \in Dispatcher, Evaluate(d)
          PROVE  scores'[a] = old \/ \E s : scores'[a] = Append(old, s)
      <4>1. CASE scores' = scores
        BY <4>1
      <4>2. ASSUME NEW told \in BOOLEAN,
                   scores' = [scores EXCEPT ![dispatchers[d].artifact] =
                                Append(scores[dispatchers[d].artifact], Score(d, told))]
            PROVE  scores'[a] = old \/ \E s : scores'[a] = Append(old, s)
        BY <1>1, <4>2 DEF ItemsInv, ScoreTypes
      <4> QED BY <1>1, <3>1, <4>1, <4>2, EvaluateWrites
    <3>2. ASSUME ~\E d \in Dispatcher : Evaluate(d) PROVE scores' = scores
      BY <1>1, <3>2
         DEF OpportunitiesNext, ObservePage, ObserveRun, RunFails, ObserveLegacy, Dispatch,
             SelectPending, CheckScored, NumberScore, ReadFacts, DispatcherDies, SwitchRadar,
             evaluation, opportunityVars
    <3> QED BY <3>1, <3>2
  <2> HIDE DEF old
  <2>3. \A s : /\ Len(Append(old, s)) = Len(old) + 1
               /\ SubSeq(Append(old, s), 1, Len(old)) = old
    BY <2>1
  <2>4. SubSeq(old, 1, Len(old)) = old /\ Len(old) \in Nat
    BY <2>1
  <2>5. Len(old) <= Len(scores'[a]) /\ SubSeq(scores'[a], 1, Len(old)) = old
    BY <2>2, <2>3, <2>4
  <2> QED BY <2>5 DEF old
<1> QED BY <1>1, ItemsInductive, PTL DEF OpportunitiesSpec, ScoresFinal

--------------------------------------------------------------------------------
(* Which items are due.                                                       *)

\* Facts are written with a new time: no observation comes late, and no page is
\* changed back to a state it has been in.
RefreshedInTime ==
  [][\A a \in Artifact : revision'[a] # revision[a] => item'[a].updatedAt = now']_opportunityVars

\* A score that keeps an item from being due is about the present facts.
PresentFactsScored ==
  \A a \in Artifact :
    \A i \in DOMAIN scores[a] :
      scores[a][i].at >= item[a].updatedAt => scores[a][i].revision = revision[a]

\* A dispatcher that asks about an item with an older time than its dispatch asks
\* about the present facts.
PresentFactsAsked ==
  \A d \in Dispatcher :
    LET x == dispatchers[d] IN
    x.pc = "ask" /\ x.at >= item[x.artifact].updatedAt => x.revision = revision[x.artifact]

\* No dispatch began later than now.
NothingAhead ==
  /\ \A a \in Artifact : \A i \in DOMAIN scores[a] : scores[a][i].at <= now
  /\ \A d \in Dispatcher : dispatchers[d].at <= now

InTime == PresentFactsScored /\ PresentFactsAsked /\ NothingAhead

LEMMA InTimeInit == OpportunitiesInit => InTime
<1> SUFFICES ASSUME OpportunitiesInit PROVE InTime
  OBVIOUS
<1>1. DOMAIN <<>> = {} /\ 0 <= 0
  OBVIOUS
<1> QED BY <1>1, IdleIsGood
        DEF OpportunitiesInit, InTime, PresentFactsScored, PresentFactsAsked, NothingAhead

LEMMA TimesAreNumbers ==
  ASSUME ItemsInv
  PROVE  /\ now \in Nat
         /\ \A a \in Artifact : /\ item[a].updatedAt \in Nat
                                /\ \A i \in DOMAIN scores[a] : scores[a][i].at \in Nat
         /\ \A d \in Dispatcher : dispatchers[d].at \in Nat
<1>1. now \in Clock /\ \A t \in Clock : t \in Nat
  BY OpportunitiesAssumption DEF ItemsInv, ItemTypes, Clock
<1>2. \A a \in Artifact : item[a].updatedAt \in Clock
  BY DEF ItemsInv, ItemTypes, Items
<1>3. ASSUME NEW a \in Artifact, NEW i \in DOMAIN scores[a] PROVE scores[a][i].at \in Clock
  <2>1. scores[a] \in Seq(Scores)
    BY DEF ItemsInv, ScoreTypes
  <2>2. scores[a][i] \in Scores
    BY <2>1
  <2> QED BY <2>2 DEF Scores
<1>4. \A d \in Dispatcher : dispatchers[d].at \in Clock
  BY DEF ItemsInv, ScoreTypes, DispatcherStates
<1> QED BY <1>1, <1>2, <1>3, <1>4

\* Time passes and items are written with the time it is then, or keep what they
\* say.
LEMMA TimelyWriteKeeps ==
  ASSUME ItemsInv, InTime, ClockTicks, scores' = scores,
         \A a \in Artifact : \/ item'[a].updatedAt = now'
                             \/ /\ item'[a].updatedAt = item[a].updatedAt
                                /\ revision'[a] = revision[a],
         \A d \in Dispatcher : \/ dispatchers'[d] = dispatchers[d]
                               \/ dispatchers'[d].pc = "select" /\ dispatchers'[d].at = now'
  PROVE  InTime'
<1>1. now \in Nat /\ now' \in Nat /\ now < now'
  BY TimePasses DEF ItemsInv
<1>2. ASSUME NEW a \in Artifact, NEW i \in DOMAIN scores[a]
      PROVE  /\ scores[a][i].at <= now'
             /\ scores[a][i].at >= item'[a].updatedAt => scores[a][i].revision = revision'[a]
  <2>1. PICK at \in Nat : at = scores[a][i].at
    BY TimesAreNumbers
  <2>2. at <= now /\ (at >= item[a].updatedAt => scores[a][i].revision = revision[a])
    BY <2>1 DEF InTime, NothingAhead, PresentFactsScored
  <2>3. at <= now' /\ ~(at >= now')
    BY <1>1, <2>2
  <2> QED BY <2>1, <2>2, <2>3
<1>3. ASSUME NEW d \in Dispatcher
      PROVE  /\ dispatchers'[d].at <= now'
             /\ dispatchers'[d].pc = "ask"
                  /\ dispatchers'[d].at >= item'[dispatchers'[d].artifact].updatedAt
                => dispatchers'[d].revision = revision'[dispatchers'[d].artifact]
  <2>1. CASE dispatchers'[d].pc = "select" /\ dispatchers'[d].at = now'
    BY <1>1, <2>1
  <2>2. CASE dispatchers'[d] = dispatchers[d]
    <3>1. PICK x \in DispatcherStates : x = dispatchers[d] /\ x = dispatchers'[d]
      BY <2>2 DEF ItemsInv, ScoreTypes
    <3>2. /\ x.at \in Nat /\ x.at <= now
          /\ x.pc = "ask" => x.artifact \in Artifact
          /\ x.pc = "ask" /\ x.at >= item[x.artifact].updatedAt =>
               x.revision = revision[x.artifact]
      BY <3>1, TimesAreNumbers
         DEF ItemsInv, GoodDispatcher, InTime, NothingAhead, PresentFactsAsked
    <3>3. x.at <= now' /\ ~(x.at >= now')
      BY <1>1, <3>2
    <3>4. ASSUME x.pc = "ask", x.at >= item'[x.artifact].updatedAt
          PROVE  x.revision = revision'[x.artifact]
      <4>1. PICK a \in Artifact : a = x.artifact
        BY <3>2, <3>4
      <4>2. item'[a].updatedAt # now'
        BY <3>3, <3>4, <4>1
      <4>3. item'[a].updatedAt = item[a].updatedAt /\ revision'[a] = revision[a]
        BY <4>2
      <4> QED BY <3>2, <3>4, <4>1, <4>3
    <3> QED BY <3>1, <3>3, <3>4
  <2> QED BY <2>1, <2>2
<1> QED BY <1>2, <1>3 DEF InTime, NothingAhead, PresentFactsScored, PresentFactsAsked

LEMMA TimelyIngestKeeps ==
  ASSUME ItemsInv, InTime, ClockTicks, NEW seen, NEW shown, NEW at, Ingest(seen, shown, at),
         UNCHANGED evaluation,
         \A a \in Artifact : revision'[a] # revision[a] => item'[a].updatedAt = now'
  PROVE  InTime'
<1> DEFINE refreshed == {a \in DOMAIN seen : Refreshes(a, seen[a], shown[a])}
<1>1. scores' = scores /\ dispatchers' = dispatchers
  BY DEF evaluation
<1>2. ASSUME NEW a \in Artifact
      PROVE  \/ item'[a].updatedAt = now'
             \/ item'[a].updatedAt = item[a].updatedAt /\ revision'[a] = revision[a]
  <2>1. CASE a \in refreshed
    <3>1. revision'[a] = revision[a] + 1 /\ revision[a] \in Nat
      BY <2>1 DEF Ingest, ItemsInv, ItemTypes
    <3>2. revision'[a] # revision[a]
      BY <3>1
    <3> QED BY <3>2
  <2>2. CASE a \notin refreshed
    <3>1. item'[a] = item[a] /\ revision'[a] = revision[a]
      BY <2>2 DEF Ingest
    <3> QED BY <3>1
  <2> QED BY <2>1, <2>2
<1> QED BY <1>1, <1>2, TimelyWriteKeeps

LEMMA TimelyDispatchKeeps ==
  ASSUME ItemsInv, InTime, NEW d \in Dispatcher, Dispatch(d)
  PROVE  InTime'
<1> DEFINE next == [IdleDispatcher EXCEPT !.pc = "select", !.at = now']
<1>1. ClockTicks /\ scores' = scores /\ revision' = revision
  BY DEF Dispatch, ghosts
<1>2. \A a \in Artifact : \/ item'[a].updatedAt = now'
                          \/ item'[a].updatedAt = item[a].updatedAt
  BY DispatchEffect
<1>3. next.pc = "select" /\ next.at = now'
  BY DEF IdleDispatcher
<1>4. dispatchers' = [dispatchers EXCEPT ![d] = next]
  BY DEF Dispatch, DispatcherStep
<1> HIDE DEF next
<1>5. \A e \in Dispatcher : \/ dispatchers'[e] = dispatchers[e]
                            \/ dispatchers'[e].pc = "select" /\ dispatchers'[e].at = now'
  BY <1>3, <1>4 DEF ItemsInv, ScoreTypes
<1> QED BY <1>1, <1>2, <1>5, TimelyWriteKeeps

\* A dispatcher moves on, and if it is about to ask has just read the facts.
LEMMA MoveKeepsTimes ==
  ASSUME ItemsInv, InTime, NEW d \in Dispatcher, NEW next, DispatcherStep(d, next),
         next.at \in {0, dispatchers[d].at},
         next.pc = "ask" => next.revision = revision[next.artifact],
         UNCHANGED <<now, item, revision>>,
         \A a \in Artifact : \A i \in DOMAIN scores'[a] :
           /\ scores'[a][i].at <= now
           /\ scores'[a][i].at >= item[a].updatedAt => scores'[a][i].revision = revision[a]
  PROVE  InTime'
<1>1. 0 <= now
  BY TimesAreNumbers
<1>2. ASSUME NEW e \in Dispatcher
      PROVE  /\ dispatchers'[e].at <= now
             /\ dispatchers'[e].pc = "ask"
                  /\ dispatchers'[e].at >= item[dispatchers'[e].artifact].updatedAt
                => dispatchers'[e].revision = revision[dispatchers'[e].artifact]
  <2>1. dispatchers'[e] = IF e = d THEN next ELSE dispatchers[e]
    BY DEF DispatcherStep, ItemsInv, ScoreTypes
  <2>2. dispatchers[e].at <= now /\ dispatchers[d].at <= now
    BY DEF InTime, NothingAhead
  <2> QED BY <1>1, <2>1, <2>2 DEF InTime, PresentFactsAsked
<1> QED BY <1>2 DEF InTime, NothingAhead, PresentFactsScored, PresentFactsAsked

LEMMA TimelyMoveKeeps ==
  ASSUME ItemsInv, InTime, NEW d \in Dispatcher,
         \/ SelectPending(d) \/ NumberScore(d) \/ ReadFacts(d) \/ DispatcherDies(d)
         \/ \E a \in Artifact : CheckScored(d, a)
  PROVE  InTime'
<1> DEFINE x == dispatchers[d]
           Fits(next) == /\ next.at \in {0, x.at}
                         /\ next.pc = "ask" => next.revision = revision[next.artifact]
<1>1. x \in DispatcherStates
  BY DEF ItemsInv, ScoreTypes
<1>2. UNCHANGED <<now, item, revision, scores>>
  BY DEF SelectPending, NumberScore, ReadFacts, DispatcherDies, CheckScored, ghosts
<1>3. \A a : Fits(DoneWith(d, a))
  BY DoneIsGood DEF ItemsInv
<1>4. \E next : DispatcherStep(d, next) /\ Fits(next)
  <2>1. CASE SelectPending(d)
    <3> DEFINE next == [x EXCEPT !.pc = IF Pending = {} THEN "idle" ELSE "check",
                                 !.batch = Pending]
    <3>1. Fits(next)
      BY <1>1 DEF DispatcherStates
    <3> QED BY <2>1, <3>1 DEF SelectPending
  <2>2. CASE NumberScore(d)
    <3> DEFINE next == [x EXCEPT !.pc = "read", !.version = Len(scores[x.artifact]) + 1]
    <3>1. Fits(next)
      BY <1>1 DEF DispatcherStates
    <3> QED BY <2>2, <3>1 DEF NumberScore
  <2>3. CASE ReadFacts(d)
    <3> DEFINE a == x.artifact
               next == [x EXCEPT !.pc = "ask", !.facts = item[a].facts,
                                 !.revision = revision[a]]
    <3>1. Fits(next)
      BY <1>1 DEF DispatcherStates
    <3>2. DispatcherStep(d, next) \/ DispatcherStep(d, DoneWith(d, a))
      BY <2>3 DEF ReadFacts
    <3> HIDE DEF next, Fits
    <3> QED BY <1>3, <3>1, <3>2
  <2>4. CASE DispatcherDies(d)
    <3>1. Fits(IdleDispatcher)
      BY IdleIsGood
    <3> QED BY <2>4, <3>1 DEF DispatcherDies
  <2>5. ASSUME NEW a \in Artifact, CheckScored(d, a)
        PROVE  \E next : DispatcherStep(d, next) /\ Fits(next)
    <3> DEFINE next == [x EXCEPT !.pc = "number", !.artifact = a]
    <3>1. Fits(next)
      BY <1>1 DEF DispatcherStates
    <3>2. DispatcherStep(d, next) \/ DispatcherStep(d, DoneWith(d, a))
      BY <2>5 DEF CheckScored
    <3> HIDE DEF next, Fits
    <3> QED BY <1>3, <3>1, <3>2
  <2> QED BY <2>1, <2>2, <2>3, <2>4, <2>5
<1>5. \A a \in Artifact : \A i \in DOMAIN scores'[a] :
        /\ scores'[a][i].at <= now
        /\ scores'[a][i].at >= item[a].updatedAt => scores'[a][i].revision = revision[a]
  BY <1>2 DEF InTime, NothingAhead, PresentFactsScored
<1> QED BY <1>2, <1>4, <1>5, MoveKeepsTimes

\* The answer that a dispatcher writes has the time and the facts it asked with.
LEMMA TimelyEvaluateKeeps ==
  ASSUME ItemsInv, InTime, NEW d \in Dispatcher, Evaluate(d)
  PROVE  InTime'
<1> DEFINE x == dispatchers[d]
           a == x.artifact
           next == DoneWith(d, a)
           Fits(s, b) == /\ s.at <= now
                         /\ s.at >= item[b].updatedAt => s.revision = revision[b]
<1>1. /\ x.pc = "ask" /\ UNCHANGED <<now, item, revision>>
      /\ DispatcherStep(d, next)
  BY DEF Evaluate, ghosts
<1>2. a \in Artifact /\ scores \in [Artifact -> Seq(Scores)]
  BY <1>1 DEF ItemsInv, ScoreTypes, GoodDispatcher
<1>3. next.at \in {0, x.at} /\ next.pc # "ask"
  BY DoneIsGood DEF ItemsInv
<1>4. \A b \in Artifact : \A i \in DOMAIN scores[b] : Fits(scores[b][i], b)
  BY DEF InTime, NothingAhead, PresentFactsScored
<1>5. \A told \in BOOLEAN : Fits(Score(d, told), a) /\ Score(d, told) \in Scores
  <2>1. x.at <= now /\ (x.at >= item[a].updatedAt => x.revision = revision[a])
    BY <1>1 DEF InTime, NothingAhead, PresentFactsAsked
  <2>2. x \in DispatcherStates
    BY DEF ItemsInv, ScoreTypes
  <2> QED BY <2>1, <2>2 DEF Score, Scores, DispatcherStates
<1>6. ASSUME NEW b \in Artifact, NEW i \in DOMAIN scores'[b] PROVE Fits(scores'[b][i], b)
  <2>1. CASE scores' = scores
    BY <1>4, <2>1
  <2>2. ASSUME NEW told \in BOOLEAN,
               scores' = [scores EXCEPT ![a] = Append(scores[a], Score(d, told))]
        PROVE  Fits(scores'[b][i], b)
    <3> DEFINE s == Score(d, told)
               old == scores[a]
    <3>1. s \in Scores /\ Fits(s, a) /\ old \in Seq(Scores)
      BY <1>2, <1>5
    <3> HIDE DEF s, old, Fits
    <3>2. \A j \in DOMAIN Append(old, s) : \/ Append(old, s)[j] = s
                                           \/ j \in DOMAIN old /\ Append(old, s)[j] = old[j]
      BY <3>1
    <3>3. scores'[b] = IF b = a THEN Append(old, s) ELSE scores[b]
      BY <1>2, <2>2 DEF old, s
    <3>4. CASE b = a
      BY <1>4, <3>1, <3>2, <3>3, <3>4 DEF old
    <3>5. CASE b # a
      BY <1>4, <3>3, <3>5
    <3> QED BY <3>4, <3>5
  <2> QED BY <2>1, <2>2, EvaluateWrites
<1> QED BY <1>1, <1>3, <1>6, MoveKeepsTimes

\* Old times are the whole cause of items that are not due although their facts
\* have changed since they were scored: if each write of facts took the time it
\* happened at, scores as new as their item would all be of its present facts.
\* (_pending_pairs, create_or_update_opportunity)
THEOREM NewTimesMakeItemsDue ==
  OpportunitiesSpec /\ RefreshedInTime => []PresentFactsScored
<1> DEFINE InStep ==
             \A a \in Artifact : revision'[a] # revision[a] => item'[a].updatedAt = now'
<1>1. /\ ItemsInv /\ InTime
      /\ [OpportunitiesNext]_opportunityVars /\ [InStep]_opportunityVars
      => InTime'
  <2> SUFFICES ASSUME ItemsInv, InTime,
                      [OpportunitiesNext]_opportunityVars, [InStep]_opportunityVars
               PROVE  InTime'
    OBVIOUS
  <2>1. ASSUME UNCHANGED <<now, item, revision, scores, dispatchers>> PROVE InTime'
    BY <2>1 DEF InTime, NothingAhead, PresentFactsScored, PresentFactsAsked
  <2>2. CASE UNCHANGED opportunityVars
    BY <2>1, <2>2 DEF opportunityVars, evaluation, ghosts
  <2>3. CASE OpportunitiesNext /\ InStep
    <3>1. ASSUME NEW r \in Run, NEW a \in Artifact, NEW t \in Trio, ObservePage(r, a, t)
          PROVE  InTime'
      BY <2>3, <3>1, TimelyIngestKeeps DEF ObservePage
    <3>2. ASSUME NEW r \in Run, NEW seen \in Sightings, NEW crawled \in BOOLEAN,
                 ObserveRun(r, seen, crawled)
          PROVE  InTime'
      BY <2>3, <3>2, TimelyIngestKeeps DEF ObserveRun
    <3>3. ASSUME NEW r \in Run, RunFails(r) PROVE InTime'
      BY <2>1, <3>3 DEF RunFails, evaluation, ghosts
    <3>4. ASSUME ObserveLegacy PROVE InTime'
      BY <2>1, <3>4 DEF ObserveLegacy, evaluation, ghosts
    <3>5. ASSUME SwitchRadar PROVE InTime'
      BY <2>1, <3>5 DEF SwitchRadar, ghosts
    <3> QED BY <2>3, <3>1, <3>2, <3>3, <3>4, <3>5, TimelyDispatchKeeps, TimelyMoveKeeps,
               TimelyEvaluateKeeps DEF OpportunitiesNext
  <2> QED BY <2>2, <2>3
<1>2. InTime => PresentFactsScored
  BY DEF InTime
<1> QED BY <1>1, <1>2, InTimeInit, ItemsInductive, PTL DEF OpportunitiesSpec, RefreshedInTime

================================================================================
