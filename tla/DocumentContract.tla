--------------------------- MODULE DocumentContract ---------------------------
(******************************************************************************)
(* What the document pipeline promises: an arrival or the result of an        *)
(* analysis gives the document, in one step, the status all its analyses call *)
(* for at that very moment.  There are no transactions, locks or workers.     *)
(* Two steps may depart from that status: an embedding ends as it ends,       *)
(* whatever has happened to the document since it was begun, and a retry may  *)
(* leave the document as it is.                                               *)
(******************************************************************************)
CONSTANTS Content, Radar

VARIABLES
  document,   \* the status of the document of a content, "none" before it exists
  analysis,   \* [Content -> [Radar -> status]]
  embedding   \* the contents somebody is embedding

vars == <<document, analysis, embedding>>

Open == {"pending", "running"}

\* The status a set of analysis statuses calls for.
Verdict(statuses) ==
  IF statuses \cap Open # {} THEN "analyzing"
  ELSE IF statuses \subseteq {"none"} \/ "completed" \in statuses THEN "embedding"
  ELSE "failed"

StatusesOf(c) == {analysis[c][k] : k \in Radar}

Init ==
  /\ document = [c \in Content |-> "none"]
  /\ analysis = [c \in Content |-> [k \in Radar |-> "none"]]
  /\ embedding = {}

Resynced(c) == document' = [document EXCEPT ![c] = Verdict(StatusesOf(c)')]

\* A raw item arrives: the radars that follow it and have no analysis get one.
Arrive(c, ks) ==
  /\ analysis' = [analysis EXCEPT ![c] =
                    [k \in Radar |-> IF k \in ks /\ @[k] = "none" THEN "pending"
                                     ELSE @[k]]]
  /\ Resynced(c)
  /\ UNCHANGED embedding

\* An analysis is taken up or given back: it stays open.
Move(c, k, from, to) ==
  /\ analysis[c][k] = from
  /\ analysis' = [analysis EXCEPT ![c][k] = to]
  /\ UNCHANGED <<document, embedding>>

Finish(c, k, result) ==
  /\ analysis[c][k] = "running"
  /\ analysis' = [analysis EXCEPT ![c][k] = result]
  /\ Resynced(c)
  /\ UNCHANGED embedding

\* An analysis that is not completed is asked for once more.
Retry(c, k) ==
  /\ analysis[c][k] \in Open \cup {"failed"}
  /\ analysis' = [analysis EXCEPT ![c][k] = IF @ = "failed" THEN "pending" ELSE @]
  /\ UNCHANGED document \/ document' = [document EXCEPT ![c] = "analyzing"]
  /\ UNCHANGED embedding

\* The chunks are there already.
Reuse(c) ==
  /\ document[c] = "embedding"
  /\ document' = [document EXCEPT ![c] = "ready"]
  /\ UNCHANGED <<analysis, embedding>>

BeginEmbedding(c) ==
  /\ document[c] = "embedding" /\ c \notin embedding
  /\ embedding' = embedding \cup {c}
  /\ UNCHANGED <<document, analysis>>

EndEmbedding(c) ==
  /\ c \in embedding
  /\ \E to \in {"ready", "failed"} : document' = [document EXCEPT ![c] = to]
  /\ embedding' = embedding \ {c}
  /\ UNCHANGED analysis

AbandonEmbedding(c) ==
  /\ c \in embedding
  /\ embedding' = embedding \ {c}
  /\ UNCHANGED <<document, analysis>>

Next ==
  \E c \in Content :
    \/ \E ks \in SUBSET Radar : Arrive(c, ks)
    \/ \E k \in Radar :
         \/ Move(c, k, "pending", "running") \/ Move(c, k, "running", "pending")
         \/ Finish(c, k, "completed") \/ Finish(c, k, "failed")
         \/ Retry(c, k)
    \/ Reuse(c) \/ BeginEmbedding(c) \/ EndEmbedding(c) \/ AbandonEmbedding(c)

Spec == Init /\ [][Next]_vars

================================================================================
