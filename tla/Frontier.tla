-------------------------------- MODULE Frontier --------------------------------
(******************************************************************************)
(* The checkpoint document of a discovery crawl and the pure transitions on   *)
(* it (services/discovery_frontier.py).  URLs are numbers in crawl order:     *)
(* the sort key (-score, depth, url) of the code is the order <.  A link that *)
(* scope, paths, score or depth reject is not a link here.  The seen set is   *)
(* not truncated: it is as large as the accepted counter (Sound below), which *)
(* planning caps at 5 times 100 pages, and bounded_seen starts at 2000.       *)
(******************************************************************************)
EXTENDS Naturals, FiniteSets, FiniteSetsExt

CONSTANTS
  Url,
  Run,
  NoRun,
  FrontierCap,   \* max_frontier_size, at most FRONTIER_HARD_CAP = 500
  UrlCap,        \* max_discovered_urls, 5 * max_pages
  MaxAttempts    \* MAX_TARGET_ATTEMPTS, 3 in the code

ASSUME FrontierAssumption ==
  /\ Url \subseteq Nat
  /\ NoRun \notin Run
  /\ FrontierCap \in Nat
  /\ UrlCap \in Nat
  /\ MaxAttempts \in Nat \ {0}

\* tries[u] is the "attempts" field of u's frontier entry, 0 without an entry.
Documents ==
  [seen : SUBSET Url, frontier : SUBSET Url, tries : [Url -> Nat],
   accepted : Nat, lease : Run \cup {NoRun}]

EmptyDocument ==
  [seen |-> {}, frontier |-> {}, tries |-> [u \in Url |-> 0],
   accepted |-> 0, lease |-> NoRun]

\* The first n members of S in crawl order.
Best(S, n) == {u \in S : Cardinality({v \in S : v < u}) < n}

\* plan_discovery: the links of a page that survive both caps.
Planned(d, links) ==
  Best(links \ d.seen, Min({FrontierCap - Cardinality(d.frontier),
                            UrlCap - d.accepted}))

\* Mutant: the new entries are not marked seen.
AddUnseen(d, new) ==
  [d EXCEPT !.frontier = @ \cup new, !.accepted = @ + Cardinality(new)]

Add(d, new) ==
  [d EXCEPT !.seen = @ \cup new, !.frontier = @ \cup new,
            !.accepted = @ + Cardinality(new)]

\* merge_entries: entries planned earlier join the document as it is now.  Only
\* the frontier cap is applied again.
Merge(d, entries) ==
  Add(d, Best(entries \ (d.seen \cup d.frontier),
              FrontierCap - Cardinality(d.frontier)))

\* Mutant: the document is rebuilt around the frontier alone.
SetLeaseRebuilt(d, r) ==
  [EmptyDocument EXCEPT !.frontier = d.frontier, !.tries = d.tries, !.lease = r]

\* set_crawl_lease, with NoRun for a lease that is cleared.
SetLease(d, r) == [d EXCEPT !.lease = r]

\* next_crawl_target
HasTarget(d, skipped) == d.frontier \ skipped # {}
NextTarget(d, skipped) == Min(d.frontier \ skipped)

\* Mutant: the page is marked seen and keeps its frontier entry.
BeginPageKept(d, u) == [d EXCEPT !.seen = @ \cup {u}]

\* crawl_begin_page
BeginPage(d, u) ==
  [d EXCEPT !.seen = @ \cup {u}, !.frontier = @ \ {u}, !.tries[u] = 0]

\* A crawled page: begin, then the children that a page of good quality plans.
PageCrawled(d, u, links) ==
  LET begun == BeginPage(d, u) IN Add(begun, Planned(begun, links))

\* crawl_fail_page: the target keeps its entry until the last attempt.
PageFailed(d, u) ==
  IF d.tries[u] + 1 >= MaxAttempts
  THEN BeginPage(d, u)
  ELSE [d EXCEPT !.tries[u] = @ + 1]

\* What every document satisfies: an entry was seen, the caps hold, the counter
\* counts the seen hashes, only entries have attempts and these are not used up.
Sound(d) ==
  /\ d.frontier \subseteq d.seen
  /\ Cardinality(d.frontier) <= FrontierCap
  /\ Cardinality(d.seen) = d.accepted
  /\ \A u \in Url : /\ d.tries[u] < MaxAttempts
                    /\ d.tries[u] > 0 => u \in d.frontier

================================================================================
