--------------------------- MODULE MCDiscoveryCrawl ---------------------------
(* Instances of DiscoveryCrawl for TLC: a small site whose seed page changes. *)
EXTENDS DiscoveryCrawl, TLC

\* The seed page links to 2, and at times to 3 as well.
MCSeedContents == {{2}, {2, 3}}

\* Page 2 links back to itself and to 1, which ranks before it.
MCContents == [u \in Url |-> IF u = 2 THEN {{1, 2}} ELSE {{}}]

Interchangeable == Permutations(Run) \cup Permutations(Worker)

================================================================================
