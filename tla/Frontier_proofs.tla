----------------------------- MODULE Frontier_proofs -----------------------------
(******************************************************************************)
(* Lemmas about the checkpoint document: every transition of Frontier keeps   *)
(* it a sound document of finitely many URLs, for any caps and URLs.          *)
(******************************************************************************)
EXTENDS Frontier, FiniteSetTheorems, WellFoundedInduction, TLAPS

\* A document as the crawl may store it.
Document(d) == d \in Documents /\ IsFiniteSet(d.seen) /\ Sound(d)

--------------------------------------------------------------------------------
(* Sets of URLs.                                                              *)

\* A set of naturals that is not empty has a least element, and Min gives it:
\* an element with the fewest elements below it.
LEMMA MinIsMember ==
  ASSUME NEW S \in SUBSET Nat, S # {}
  PROVE  Min(S) \in S /\ \A y \in S : Min(S) =< y
<1> DEFINE Below(u) == {v \in S : v < u}
           Initial == {Below(u) : u \in S}
<1>1. \A u \in S : Below(u) \in FiniteSubsetsOf(S)
  <2> SUFFICES ASSUME NEW u \in S PROVE IsFiniteSet(Below(u))
    BY DEF FiniteSubsetsOf
  <2>0. u \in Nat /\ \A v \in S : v \in Nat
    OBVIOUS
  <2>1. \A v \in Below(u) : v \in S /\ v \in Nat /\ v =< u
    BY <2>0
  <2>2. Below(u) \in SUBSET Nat
    BY <2>1
  <2> HIDE DEF Below
  <2> QED BY <2>0, <2>1, <2>2, FS_BoundedSetOfNaturals
<1>2. PICK I \in Initial : \A J \in Initial : <<J, I>> \notin StrictSubsetOrdering(S)
  <2>1. Initial \subseteq FiniteSubsetsOf(S) /\ Initial # {}
    BY <1>1
  <2> HIDE DEF Initial
  <2> QED BY <2>1, FS_StrictSubsetOrderingWellFounded, WFMin
<1>3. PICK x \in S : I = Below(x)
  OBVIOUS
<1>4. \A y \in S : x =< y
  <2> SUFFICES ASSUME NEW y \in S, y < x PROVE FALSE
    OBVIOUS
  <2>0. x \in Nat /\ y \in Nat /\ \A v \in S : v \in Nat
    OBVIOUS
  <2>1. \A v \in Below(y) : v \in Below(x)
    BY <2>0
  <2>2. y \in Below(x) /\ y \notin Below(y)
    BY <2>1
  <2>3. <<Below(y), Below(x)>> \in StrictSubsetOrdering(S)
    BY <2>1, <2>2 DEF StrictSubsetOrdering
  <2> QED BY <1>2, <1>3, <2>3
<1> QED BY <1>4 DEF Min

\* The next target is an entry of the frontier that is not skipped.
LEMMA TargetIsEntry ==
  ASSUME NEW d \in Documents, NEW skipped, HasTarget(d, skipped)
  PROVE  NextTarget(d, skipped) \in d.frontier \ skipped
<1>1. d.frontier \ skipped \in SUBSET Nat
  BY FrontierAssumption DEF Documents
<1> QED BY <1>1, MinIsMember DEF HasTarget, NextTarget

\* Best takes elements of its set, finitely many of a finite set.
LEMMA BestIsSubset ==
  ASSUME NEW S, NEW n, IsFiniteSet(S)
  PROVE  Best(S, n) \subseteq S /\ IsFiniteSet(Best(S, n))
<1>1. Best(S, n) \in SUBSET S
  BY DEF Best
<1> QED BY <1>1, FS_Subset

\* Best takes at most n elements: each has a rank below n of its own.
LEMMA BestIsBounded ==
  ASSUME NEW S \in SUBSET Nat, IsFiniteSet(S), NEW n \in Int
  PROVE  \/ n \in Nat /\ Cardinality(Best(S, n)) =< n
         \/ Best(S, n) = {}
<1> DEFINE Below(u) == {v \in S : v < u}
           rank == [u \in Best(S, n) |-> Cardinality(Below(u))]
<1>1. \A u \in S : IsFiniteSet(Below(u)) /\ Cardinality(Below(u)) \in Nat
  BY FS_Subset, FS_CardinalityType
<1>2. ASSUME NEW u \in S, NEW v \in S, u < v
      PROVE  Cardinality(Below(u)) < Cardinality(Below(v))
  <2>1. Below(u) \cup {u} \in SUBSET Below(v)
    <3>1. u \in Nat /\ v \in Nat /\ \A x \in S : x \in Nat
      OBVIOUS
    <3>2. \A x \in Below(u) \cup {u} : x \in S /\ x < v
      BY <1>2, <3>1
    <3> QED BY <3>2
  <2>2. u \notin Below(u)
    OBVIOUS
  <2>3. Cardinality(Below(u) \cup {u}) = Cardinality(Below(u)) + 1
    BY <1>1, <2>2, FS_AddElement
  <2>4. Cardinality(Below(u) \cup {u}) =< Cardinality(Below(v))
    BY <1>1, <2>1, FS_Subset
  <2> QED BY <1>1, <2>3, <2>4
<1>3. \A u \in Best(S, n) : u \in S /\ Cardinality(Below(u)) < n
  BY DEF Best
<1>4. CASE n \in Nat
  <2>1. \A u \in Best(S, n) : Cardinality(Below(u)) \in 0..(n - 1)
    <3> SUFFICES ASSUME NEW u \in Best(S, n)
                 PROVE  Cardinality(Below(u)) \in 0..(n - 1)
      OBVIOUS
    <3>1. Cardinality(Below(u)) \in Nat /\ Cardinality(Below(u)) < n
      BY <1>1, <1>3
    <3> QED BY <1>4, <3>1
  <2>2. \A u, v \in Best(S, n) : rank[u] = rank[v] => u = v
    <3> SUFFICES ASSUME NEW u \in Best(S, n), NEW v \in Best(S, n), u # v
                 PROVE  rank[u] # rank[v]
      OBVIOUS
    <3>1. u \in Nat /\ v \in Nat /\ u \in S /\ v \in S
      BY <1>3
    <3>2. u < v \/ v < u
      BY <3>1
    <3>3. Cardinality(Below(u)) # Cardinality(Below(v))
      BY <1>1, <1>2, <3>1, <3>2
    <3> QED BY <3>3
  <2>3. rank \in Injection(Best(S, n), 0..(n - 1))
    BY <2>1, <2>2 DEF Injection, IsInjective
  <2>4. IsFiniteSet(0..(n - 1)) /\ Cardinality(0..(n - 1)) = n
    BY <1>4, FS_Interval
  <2>5. Cardinality(Best(S, n)) =< Cardinality(0..(n - 1))
    BY <2>3, <2>4, FS_Injection
  <2> QED BY <1>4, <2>4, <2>5
<1>5. CASE n \notin Nat
  <2>1. ASSUME NEW u \in Best(S, n) PROVE FALSE
    <3>1. Cardinality(Below(u)) \in Nat /\ Cardinality(Below(u)) < n
      BY <1>1, <1>3
    <3> QED BY <1>5, <3>1
  <2> QED BY <2>1
<1> QED BY <1>4, <1>5

\* The selection is a prefix of the set in crawl order.
THEOREM BestIsFirst ==
  ASSUME NEW S \in SUBSET Nat, IsFiniteSet(S), NEW n \in Int,
         NEW u \in Best(S, n), NEW v \in S \ Best(S, n)
  PROVE  u < v
<1> DEFINE Below(x) == {y \in S : y < x}
<1>1. u \in S /\ Cardinality(Below(u)) < n /\ ~(Cardinality(Below(v)) < n)
  BY DEF Best
<1>2. /\ Cardinality(Below(u)) \in Nat /\ Cardinality(Below(v)) \in Nat
      /\ IsFiniteSet(Below(u)) /\ IsFiniteSet(Below(v))
  BY FS_Subset, FS_CardinalityType
<1>3. u \in Nat /\ v \in Nat /\ u # v
  BY <1>1
<1>4. CASE v < u
  <2>1. Below(v) \in SUBSET Below(u)
    <3>1. \A y \in Below(v) : y \in S /\ y \in Nat /\ y < v
      OBVIOUS
    <3>2. \A y \in Below(v) : y \in Below(u)
      BY <1>3, <1>4, <3>1
    <3> QED BY <3>2
  <2>2. Cardinality(Below(v)) =< Cardinality(Below(u))
    BY <1>2, <2>1, FS_Subset
  <2> HIDE DEF Below
  <2> QED BY <1>1, <1>2, <2>2
<1> QED BY <1>3, <1>4

\* Nothing is left out while there is room: a selection that is not the whole set
\* has all the n members it may have. (merge_entries, plan_discovery)
THEOREM BestLeavesNoRoom ==
  ASSUME NEW S \in SUBSET Nat, IsFiniteSet(S), NEW n \in Nat, Best(S, n) # S
  PROVE  Cardinality(Best(S, n)) = n
<1> DEFINE Below(x) == {y \in S : y < x}
           rest == S \ Best(S, n)
           v == Min(rest)
<1>1. rest \in SUBSET Nat /\ rest # {} /\ Best(S, n) \subseteq S
  BY DEF Best
<1>2. v \in rest /\ \A y \in rest : v =< y
  <2> HIDE DEF rest
  <2> QED BY <1>1, MinIsMember
<1> HIDE DEF v
<1>3. Below(v) \in SUBSET Best(S, n)
  <2>1. v \in Nat
    BY <1>1, <1>2
  <2>2. \A y \in Below(v) : y \in S /\ y \in Nat /\ y < v
    OBVIOUS
  <2>3. \A y \in Below(v) : y \notin rest
    BY <1>2, <2>1, <2>2
  <2> QED BY <2>2, <2>3
<1>4. ~(Cardinality(Below(v)) < n)
  BY <1>2 DEF Best
<1>5. IsFiniteSet(Best(S, n)) /\ Cardinality(Best(S, n)) \in Nat
  BY BestIsSubset, FS_CardinalityType
<1>6. /\ Cardinality(Below(v)) \in Nat
      /\ Cardinality(Below(v)) =< Cardinality(Best(S, n))
  BY <1>3, <1>5, FS_Subset, FS_CardinalityType
<1> HIDE DEF Below
<1>7. Cardinality(Best(S, n)) =< n
  <2>1. CASE Best(S, n) = {}
    BY <2>1, FS_EmptySet
  <2>2. CASE Best(S, n) # {}
    BY <2>2, BestIsBounded
  <2> QED BY <2>1, <2>2
<1> QED BY <1>4, <1>5, <1>6, <1>7

\* The lesser of two numbers.
LEMMA MinOfTwo ==
  ASSUME NEW a \in Int, NEW b \in Int
  PROVE  Min({a, b}) \in Int /\ Min({a, b}) =< a /\ Min({a, b}) =< b
<1>1. \E x \in {a, b} : \A y \in {a, b} : x =< y
  <2>1. CASE a =< b
    BY <2>1
  <2>2. CASE b < a
    BY <2>2
  <2> QED BY <2>1, <2>2
<1>2. Min({a, b}) \in {a, b} /\ \A y \in {a, b} : Min({a, b}) =< y
  BY <1>1 DEF Min
<1> QED BY <1>2

--------------------------------------------------------------------------------
(* How a transition changes a document, field by field.                       *)

\* URLs that were not seen joined the frontier and nothing else changed.
Grown(d, e) ==
  /\ d.seen \subseteq e.seen
  /\ e.frontier = d.frontier \cup (e.seen \ d.seen)
  /\ e.tries = d.tries

\* The entry of u gave way to URLs that were not seen.
Consumed(d, u, e) ==
  /\ d.seen \subseteq e.seen
  /\ e.frontier = (d.frontier \ {u}) \cup (e.seen \ d.seen)
  /\ \A v \in Url : e.tries[v] = IF v = u THEN 0 ELSE d.tries[v]
  /\ e.lease = d.lease

\* The entry of u has one more attempt, or is gone after its last one.
Missed(d, u, e) ==
  /\ e.seen = d.seen
  /\ e.lease = d.lease
  /\ \A v \in Url \ {u} : e.tries[v] = d.tries[v]
  /\ \/ /\ d.tries[u] + 1 >= MaxAttempts
        /\ e.frontier = d.frontier \ {u}
        /\ e.tries[u] = 0
     \/ /\ d.tries[u] + 1 < MaxAttempts
        /\ e.frontier = d.frontier
        /\ e.tries[u] = d.tries[u] + 1

\* New URLs within the cap keep a document a document.
LEMMA AddKeepsDocument ==
  ASSUME NEW d, Document(d), NEW new \in SUBSET Url, IsFiniteSet(new),
         new \cap d.seen = {},
         \/ Cardinality(new) =< FrontierCap - Cardinality(d.frontier)
         \/ new = {}
  PROVE  /\ Document(Add(d, new))
         /\ Grown(d, Add(d, new))
         /\ Add(d, new).lease = d.lease
<1> DEFINE e == Add(d, new)
<1>1. /\ e.seen = d.seen \cup new /\ e.frontier = d.frontier \cup new
      /\ e.tries = d.tries /\ e.lease = d.lease
      /\ e.accepted = d.accepted + Cardinality(new)
  BY DEF Document, Documents, Add
<1>2. /\ d.frontier \subseteq d.seen /\ d.seen \subseteq Url /\ IsFiniteSet(d.seen)
      /\ d.accepted \in Nat /\ Cardinality(d.seen) = d.accepted
      /\ Cardinality(d.frontier) =< FrontierCap
  BY DEF Document, Documents, Sound
<1>3. /\ IsFiniteSet(d.frontier) /\ Cardinality(d.frontier) \in Nat
      /\ Cardinality(new) \in Nat /\ FrontierCap \in Nat
  BY <1>2, FS_Subset, FS_CardinalityType, FrontierAssumption
<1>4. /\ IsFiniteSet(e.seen)
      /\ Cardinality(e.seen) = e.accepted
  <2>1. d.seen \cap new = {} /\ Cardinality(d.seen \cap new) = 0
    BY FS_EmptySet
  <2>2. /\ IsFiniteSet(d.seen \cup new)
        /\ Cardinality(d.seen \cup new) = Cardinality(d.seen) + Cardinality(new) - 0
    BY <1>2, <2>1, FS_Union
  <2> HIDE DEF e
  <2> QED BY <1>1, <1>2, <1>3, <2>2
<1>5. Cardinality(e.frontier) =< FrontierCap
  <2>1. CASE new = {}
    <3>1. e.frontier = d.frontier
      BY <1>1, <2>1
    <3> QED BY <1>2, <3>1
  <2>2. CASE Cardinality(new) =< FrontierCap - Cardinality(d.frontier)
    <3>1. d.frontier \cap new = {} /\ Cardinality(d.frontier \cap new) = 0
      BY <1>2, FS_EmptySet
    <3>2. Cardinality(d.frontier \cup new)
            = Cardinality(d.frontier) + Cardinality(new) - 0
      BY <1>3, <3>1, FS_Union
    <3> QED BY <1>1, <1>3, <2>2, <3>2
  <2> QED BY <2>1, <2>2
<1>6. e \in Documents
  <2>1. /\ d \in Documents /\ d.accepted + Cardinality(new) \in Nat
        /\ d.seen \cup new \in SUBSET Url /\ d.frontier \cup new \in SUBSET Url
    BY <1>2, <1>3 DEF Document
  <2> QED BY <2>1 DEF Documents, Add
<1>7. Sound(e)
  <2>1. \A u \in Url : /\ e.tries[u] < MaxAttempts
                       /\ e.tries[u] > 0 => u \in e.frontier
    BY <1>1 DEF Document, Sound
  <2> HIDE DEF e
  <2> QED BY <1>1, <1>2, <1>4, <1>5, <2>1 DEF Sound
<1>8. Grown(d, e)
  <2> HIDE DEF e
  <2> QED BY <1>1, <1>2 DEF Grown
<1> QED BY <1>1, <1>4, <1>6, <1>7, <1>8 DEF Document

\* merge_entries grows a document.
LEMMA MergeKeepsDocument ==
  ASSUME NEW d, Document(d), NEW entries \in SUBSET Url, IsFiniteSet(entries)
  PROVE  /\ Document(Merge(d, entries))
         /\ Grown(d, Merge(d, entries))
<1> DEFINE free == entries \ (d.seen \cup d.frontier)
           n == FrontierCap - Cardinality(d.frontier)
<1>1. free \in SUBSET entries /\ IsFiniteSet(free) /\ free \in SUBSET Nat
  BY FS_Subset, FrontierAssumption
<1>2. IsFiniteSet(d.frontier)
  BY FS_Subset DEF Document, Sound
<1>3. n \in Int
  BY <1>2, FS_CardinalityType, FrontierAssumption
<1>4. free \cap d.seen = {} /\ free \subseteq Url
  OBVIOUS
<1>5. Merge(d, entries) = Add(d, Best(free, n))
  BY DEF Merge
<1> HIDE DEF free, n
<1>6. /\ Best(free, n) \subseteq free /\ IsFiniteSet(Best(free, n))
      /\ Cardinality(Best(free, n)) =< n \/ Best(free, n) = {}
  BY <1>1, <1>3, BestIsSubset, BestIsBounded
<1>7. Best(free, n) \in SUBSET Url /\ Best(free, n) \cap d.seen = {}
  BY <1>4, <1>6
<1>8. \/ Cardinality(Best(free, n)) =< FrontierCap - Cardinality(d.frontier)
      \/ Best(free, n) = {}
  BY <1>6 DEF n
<1> QED BY <1>5, <1>6, <1>7, <1>8, AddKeepsDocument

\* What plan_discovery plans is finite, unseen, and fits.
LEMMA PlannedFits ==
  ASSUME NEW d, Document(d), NEW links \in SUBSET Url, IsFiniteSet(links)
  PROVE  /\ Planned(d, links) \in SUBSET Url
         /\ IsFiniteSet(Planned(d, links))
         /\ Planned(d, links) \cap d.seen = {}
         /\ \/ Cardinality(Planned(d, links)) =< FrontierCap - Cardinality(d.frontier)
            \/ Planned(d, links) = {}
<1> DEFINE free == links \ d.seen
           a == FrontierCap - Cardinality(d.frontier)
           b == UrlCap - d.accepted
           n == Min({a, b})
<1>1. free \in SUBSET Url /\ IsFiniteSet(free) /\ free \in SUBSET Nat
  BY FS_Subset, FrontierAssumption
<1>2. IsFiniteSet(d.frontier)
  BY FS_Subset DEF Document, Sound
<1>3. a \in Int /\ b \in Int
  BY <1>2, FS_CardinalityType, FrontierAssumption DEF Document, Documents
<1>4. free \cap d.seen = {}
  OBVIOUS
<1>5. Planned(d, links) = Best(free, n)
  BY DEF Planned
<1> HIDE DEF free, a, b
<1>6. n \in Int /\ n =< a
  BY <1>3, MinOfTwo
<1> HIDE DEF n
<1>7. Best(free, n) \subseteq free /\ IsFiniteSet(Best(free, n))
  BY <1>1, BestIsSubset
<1>8. Cardinality(Best(free, n)) =< a \/ Best(free, n) = {}
  <2>1. Cardinality(Best(free, n)) \in Nat
    BY <1>7, FS_CardinalityType
  <2>2. \/ n \in Nat /\ Cardinality(Best(free, n)) =< n
        \/ Best(free, n) = {}
    BY <1>1, <1>6, BestIsBounded
  <2> QED BY <1>3, <1>6, <2>1, <2>2
<1> QED BY <1>1, <1>4, <1>5, <1>7, <1>8 DEF a

\* What plan_discovery plans stays within max_discovered_urls.
LEMMA PlannedKeepsCap ==
  ASSUME NEW d, Document(d), d.accepted =< UrlCap,
         NEW links \in SUBSET Url, IsFiniteSet(links)
  PROVE  /\ Cardinality(Planned(d, links)) \in Nat
         /\ d.accepted + Cardinality(Planned(d, links)) =< UrlCap
<1> DEFINE free == links \ d.seen
           a == FrontierCap - Cardinality(d.frontier)
           b == UrlCap - d.accepted
           n == Min({a, b})
<1>1. free \in SUBSET Nat /\ IsFiniteSet(free)
  BY FS_Subset, FrontierAssumption
<1>2. IsFiniteSet(d.frontier)
  BY FS_Subset DEF Document, Sound
<1>3. a \in Int /\ b \in Nat /\ d.accepted \in Nat /\ UrlCap \in Nat
  BY <1>2, FS_CardinalityType, FrontierAssumption DEF Document, Documents
<1>4. Planned(d, links) = Best(free, n)
  BY DEF Planned
<1> HIDE DEF free, a, b
<1>5. n \in Int /\ n =< b
  BY <1>3, MinOfTwo
<1> HIDE DEF n
<1>6. Cardinality(Best(free, n)) \in Nat
  BY <1>1, BestIsSubset, FS_CardinalityType
<1>7. Cardinality(Best(free, n)) =< b
  <2>1. CASE Best(free, n) = {}
    BY <1>3, <2>1, FS_EmptySet
  <2>2. CASE Best(free, n) # {}
    BY <1>1, <1>3, <1>5, <1>6, <2>2, BestIsBounded
  <2> QED BY <2>1, <2>2
<1> QED BY <1>3, <1>4, <1>6, <1>7 DEF b

\* merge_entries counts no more than the entries it is given.
LEMMA MergeCounts ==
  ASSUME NEW d, Document(d), NEW entries \in SUBSET Url, IsFiniteSet(entries)
  PROVE  /\ Cardinality(entries) \in Nat
         /\ Merge(d, entries).accepted =< d.accepted + Cardinality(entries)
<1> DEFINE free == entries \ (d.seen \cup d.frontier)
           n == FrontierCap - Cardinality(d.frontier)
<1>1. free \in SUBSET entries /\ IsFiniteSet(free) /\ free \in SUBSET Nat
  BY FS_Subset, FrontierAssumption
<1>2. Merge(d, entries).accepted = d.accepted + Cardinality(Best(free, n))
  BY DEF Merge, Add, Document, Documents
<1>3. d.accepted \in Nat
  BY DEF Document, Documents
<1> HIDE DEF free, n
<1>4. Best(free, n) \subseteq entries
  BY <1>1, BestIsSubset
<1>5. /\ Cardinality(Best(free, n)) \in Nat /\ Cardinality(entries) \in Nat
      /\ Cardinality(Best(free, n)) =< Cardinality(entries)
  BY <1>4, FS_Subset, FS_CardinalityType
<1> QED BY <1>2, <1>3, <1>5

\* set_crawl_lease changes the lease alone.
LEMMA SetLeaseKeepsDocument ==
  ASSUME NEW d, Document(d), NEW r \in Run \cup {NoRun}
  PROVE  /\ Document(SetLease(d, r))
         /\ SetLease(d, r).lease = r
         /\ SetLease(d, r).seen = d.seen
         /\ SetLease(d, r).frontier = d.frontier
         /\ SetLease(d, r).tries = d.tries
         /\ SetLease(d, r).accepted = d.accepted
<1> DEFINE e == SetLease(d, r)
<1>1. /\ e \in Documents /\ e.lease = r /\ e.seen = d.seen
      /\ e.frontier = d.frontier /\ e.tries = d.tries /\ e.accepted = d.accepted
  BY DEF SetLease, Document, Documents
<1> HIDE DEF e
<1>2. Document(e)
  BY <1>1 DEF Document, Sound
<1> QED BY <1>1, <1>2 DEF e

\* crawl_begin_page takes one entry out.
LEMMA BeginPageKeepsDocument ==
  ASSUME NEW d, Document(d), NEW u \in d.frontier
  PROVE  /\ Document(BeginPage(d, u))
         /\ BeginPage(d, u).seen = d.seen
         /\ BeginPage(d, u).frontier = d.frontier \ {u}
         /\ \A v \in Url : BeginPage(d, u).tries[v] = IF v = u THEN 0 ELSE d.tries[v]
         /\ BeginPage(d, u).lease = d.lease
         /\ BeginPage(d, u).accepted = d.accepted
<1> DEFINE e == BeginPage(d, u)
<1>1. /\ u \in Url /\ d.seen \cup {u} = d.seen /\ d.frontier \subseteq d.seen
      /\ IsFiniteSet(d.seen)
      /\ d.tries \in [Url -> Nat] /\ d \in Documents
  BY DEF Document, Documents, Sound
<1>2. /\ e.seen = d.seen /\ e.frontier = d.frontier \ {u} /\ e.lease = d.lease
      /\ e.accepted = d.accepted /\ e.tries = [d.tries EXCEPT ![u] = 0]
  BY <1>1 DEF BeginPage, Documents
<1>3. e \in Documents
  BY <1>1 DEF BeginPage, Documents
<1>4. \A v \in Url : e.tries[v] = IF v = u THEN 0 ELSE d.tries[v]
  BY <1>1, <1>2
<1> HIDE DEF e
<1>5. Cardinality(e.frontier) =< FrontierCap
  <2>1. IsFiniteSet(d.frontier)
    BY <1>1, FS_Subset
  <2>2. IsFiniteSet(e.frontier) /\ Cardinality(e.frontier) =< Cardinality(d.frontier)
    BY <1>2, <2>1, FS_Subset
  <2>3. /\ Cardinality(d.frontier) \in Nat /\ Cardinality(e.frontier) \in Nat
        /\ FrontierCap \in Nat /\ Cardinality(d.frontier) =< FrontierCap
    BY <2>1, <2>2, FS_CardinalityType, FrontierAssumption DEF Document, Sound
  <2> QED BY <2>2, <2>3
<1>6. \A v \in Url : /\ e.tries[v] < MaxAttempts
                     /\ e.tries[v] > 0 => v \in e.frontier
  BY <1>2, <1>4, FrontierAssumption DEF Document, Sound
<1>7. Document(e)
  BY <1>1, <1>2, <1>3, <1>5, <1>6 DEF Document, Sound
<1> QED BY <1>2, <1>4, <1>7 DEF e

\* A crawled page consumes its entry.
LEMMA PageCrawledKeepsDocument ==
  ASSUME NEW d, Document(d), NEW u \in d.frontier,
         NEW links \in SUBSET Url, IsFiniteSet(links)
  PROVE  /\ Document(PageCrawled(d, u, links))
         /\ Consumed(d, u, PageCrawled(d, u, links))
<1> DEFINE begun == BeginPage(d, u)
           e == Add(begun, Planned(begun, links))
<1>1. PageCrawled(d, u, links) = e
  BY DEF PageCrawled
<1>2. /\ Document(begun) /\ begun.seen = d.seen
      /\ begun.frontier = d.frontier \ {u} /\ begun.lease = d.lease
      /\ \A v \in Url : begun.tries[v] = IF v = u THEN 0 ELSE d.tries[v]
  BY BeginPageKeepsDocument
<1> HIDE DEF begun
<1>3. Document(e) /\ Grown(begun, e) /\ e.lease = begun.lease
  BY <1>2, PlannedFits, AddKeepsDocument
<1> HIDE DEF e
<1>4. Consumed(d, u, e)
  BY <1>2, <1>3 DEF Grown, Consumed
<1> QED BY <1>1, <1>3, <1>4

\* Neither a page nor its failure takes the document over max_discovered_urls.
LEMMA PagesKeepCap ==
  ASSUME NEW d, Document(d), d.accepted =< UrlCap, NEW u \in d.frontier
  PROVE  /\ PageFailed(d, u).accepted = d.accepted
         /\ \A links \in SUBSET Url :
              IsFiniteSet(links) => PageCrawled(d, u, links).accepted =< UrlCap
<1> DEFINE begun == BeginPage(d, u)
<1>1. Document(begun) /\ begun.accepted = d.accepted
  BY BeginPageKeepsDocument
<1>2. PageFailed(d, u).accepted = d.accepted
  BY <1>1 DEF PageFailed, Document, Documents
<1>3. ASSUME NEW links \in SUBSET Url, IsFiniteSet(links)
      PROVE  PageCrawled(d, u, links).accepted =< UrlCap
  <2>1. PageCrawled(d, u, links) = Add(begun, Planned(begun, links))
    BY DEF PageCrawled
  <2> HIDE DEF begun
  <2>2. begun.accepted + Cardinality(Planned(begun, links)) =< UrlCap
    BY <1>1, <1>3, PlannedKeepsCap
  <2> QED BY <1>1, <2>1, <2>2 DEF Add, Document, Documents
<1> QED BY <1>2, <1>3

\* crawl_fail_page counts an attempt or takes the entry out.
LEMMA PageFailedKeepsDocument ==
  ASSUME NEW d, Document(d), NEW u \in d.frontier
  PROVE  /\ Document(PageFailed(d, u))
         /\ Missed(d, u, PageFailed(d, u))
<1>1. /\ u \in Url /\ d \in Documents /\ d.tries \in [Url -> Nat]
      /\ d.tries[u] \in Nat /\ MaxAttempts \in Nat
  BY FrontierAssumption DEF Document, Documents
<1>2. CASE d.tries[u] + 1 >= MaxAttempts
  <2>1. PageFailed(d, u) = BeginPage(d, u)
    BY <1>2 DEF PageFailed
  <2> DEFINE e == BeginPage(d, u)
  <2>2. /\ Document(e) /\ e.seen = d.seen
        /\ e.frontier = d.frontier \ {u} /\ e.lease = d.lease
        /\ \A v \in Url : e.tries[v] = IF v = u THEN 0 ELSE d.tries[v]
    BY BeginPageKeepsDocument
  <2> HIDE DEF e
  <2>3. Missed(d, u, e)
    BY <1>1, <1>2, <2>2 DEF Missed
  <2> QED BY <2>1, <2>2, <2>3 DEF e
<1>3. CASE ~(d.tries[u] + 1 >= MaxAttempts)
  <2> DEFINE e == [d EXCEPT !.tries[u] = @ + 1]
  <2>1. PageFailed(d, u) = e
    BY <1>3 DEF PageFailed
  <2>2. /\ e.seen = d.seen /\ e.frontier = d.frontier /\ e.lease = d.lease
        /\ e.accepted = d.accepted /\ e.tries = [d.tries EXCEPT ![u] = @ + 1]
    BY <1>1 DEF Documents
  <2>3. \A v \in Url : e.tries[v] = IF v = u THEN d.tries[u] + 1 ELSE d.tries[v]
    BY <1>1, <2>2
  <2>4. e \in Documents
    BY <1>1 DEF Documents
  <2> HIDE DEF e
  <2>5. \A v \in Url : /\ e.tries[v] < MaxAttempts
                       /\ e.tries[v] > 0 => v \in e.frontier
    <3>1. \A v \in Url : /\ d.tries[v] < MaxAttempts
                         /\ d.tries[v] > 0 => v \in d.frontier
      BY DEF Document, Sound
    <3> QED BY <1>1, <1>3, <2>2, <2>3, <3>1
  <2>6. Document(e)
    BY <2>2, <2>4, <2>5 DEF Document, Sound
  <2>7. Missed(d, u, e)
    BY <1>1, <1>3, <2>2, <2>3 DEF Missed
  <2> QED BY <2>1, <2>6, <2>7
<1> QED BY <1>2, <1>3

\* The document of a source that was never crawled.
LEMMA EmptyDocumentIsDocument == Document(EmptyDocument)
<1>1. IsFiniteSet({}) /\ Cardinality({}) = 0
  BY FS_EmptySet
<1>2. EmptyDocument \in Documents
  BY FrontierAssumption DEF EmptyDocument, Documents
<1>3. Sound(EmptyDocument)
  BY <1>1, FrontierAssumption DEF EmptyDocument, Sound
<1> QED BY <1>1, <1>2, <1>3 DEF Document, EmptyDocument

================================================================================
