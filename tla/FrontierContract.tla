---------------------------- MODULE FrontierContract ----------------------------
(******************************************************************************)
(* What the discovery crawl promises about the URLs of a source, with no      *)
(* document, versions, leases or workers: a URL is discovered once, waits     *)
(* until it is fetched or has failed MaxAttempts times, is fetched once, and  *)
(* the links of a fetched page are discovered by the step that records it.    *)
(******************************************************************************)
EXTENDS Naturals

CONSTANTS Url, MaxAttempts

VARIABLES stage,    \* unknown, waiting, fetched or abandoned
          misses    \* failed attempts

contractVars == <<stage, misses>>

Init ==
  /\ stage = [u \in Url |-> "unknown"]
  /\ misses = [u \in Url |-> 0]

Unknown == {u \in Url : stage[u] = "unknown"}

Discover ==
  /\ \E S \in SUBSET Unknown :
       stage' = [u \in Url |-> IF u \in S THEN "waiting" ELSE stage[u]]
  /\ UNCHANGED misses

Fetch(u) ==
  /\ stage[u] = "waiting"
  /\ \E S \in SUBSET Unknown :
       stage' = [v \in Url |-> IF v = u THEN "fetched"
                               ELSE IF v \in S THEN "waiting" ELSE stage[v]]
  /\ UNCHANGED misses

Fail(u) ==
  /\ stage[u] = "waiting"
  /\ misses' = [misses EXCEPT ![u] = @ + 1]
  /\ stage' = [stage EXCEPT ![u] =
                 IF misses[u] + 1 = MaxAttempts THEN "abandoned" ELSE "waiting"]

Next == Discover \/ \E u \in Url : Fetch(u) \/ Fail(u)

Spec == Init /\ [][Next]_contractVars

================================================================================
