---------------------------- MODULE Documents_proofs ----------------------------
(******************************************************************************)
(* Proofs about the document pipeline, for any raw items, contents, radars    *)
(* and sessions, and any number of faults, retries and radar changes: its     *)
(* type, what the status of a document says of its analyses, and the contract.*)
(******************************************************************************)
EXTENDS Documents, TLAPS

--------------------------------------------------------------------------------
(* The inductive invariant.                                                   *)

Found(c) == {analysis[c][k] : k \in Radar}

LocksDocument(x, c) == x.pc \in {"clean", "synced"} /\ x.content = c

OwnsRow(x, c, k) ==
  x.pc \in {"saved", "synced", "retry"} /\ x.content = c /\ x.radar = k

\* The status of an analysis once the session that has locked the document commits.
Due(x, k) ==
  IF x.pc = "clean" /\ <<x.content, k>> \in x.batch THEN "pending"
  ELSE IF x.pc = "synced" /\ k = x.radar THEN x.result
  ELSE analysis[x.content][k]

\* What a session in state x relies on: what it has read under its locks still
\* holds, and the verdict is the one of the analyses at the commit.
Relies(w, x) ==
  /\ x.pc \in {"clean", "provider", "saved", "synced", "asked", "retry", "embed"} =>
       x.content \in Content
  /\ x.pc \in {"provider", "saved", "synced", "asked", "retry"} => x.radar \in Radar
  /\ x.pc = "clean" =>
       /\ x.item \in RawItem
       /\ \A k \in Radar : <<x.content, k>> \in x.batch => analysis[x.content][k] = "none"
  /\ x.pc \in {"saved", "synced"} =>
       /\ analysis[x.content][x.radar] = "running"
       /\ claimant[x.content][x.radar] = w
       /\ x.result \in {"completed", "failed"}
  /\ x.pc = "asked" => analysis[x.content][x.radar] # "none"
  /\ x.pc = "retry" => analysis[x.content][x.radar] \in {"pending", "running", "failed"}
  /\ x.pc \in {"clean", "synced"} => x.verdict = Verdict({Due(x, k) : k \in Radar})

OneDocumentLock ==
  \A v, w \in Worker, c \in Content :
    LocksDocument(workers[v], c) /\ LocksDocument(workers[w], c) => v = w

OneRowOwner ==
  \A v, w \in Worker, c \in Content, k \in Radar :
    OwnsRow(workers[v], c, k) /\ OwnsRow(workers[w], c, k) => v = w

WorkersRely == \A w \in Worker : Relies(w, workers[w])

IndInv ==
  /\ TypeOK /\ StatusSupported /\ AnnouncedOnce
  /\ WorkersRely /\ OneDocumentLock /\ OneRowOwner

--------------------------------------------------------------------------------
(* Verdicts.                                                                  *)

\* Which of the open statuses the analyses have does not matter.
LEMMA VerdictOfOpen ==
  ASSUME NEW S, NEW T, S \cap Open = {} <=> T \cap Open = {}, S \ Open = T \ Open
  PROVE  Verdict(S) = Verdict(T)
<1>1. CASE S \cap Open = {}
  <2>1. S = T
    BY <1>1
  <2> QED BY <2>1
<1>2. CASE S \cap Open # {}
  BY <1>2 DEF Verdict
<1> QED BY <1>1, <1>2

\* A document that has just been given its verdict agrees with its analyses.
LEMMA VerdictAgrees ==
  ASSUME NEW S
  PROVE  /\ (Verdict(S) = "analyzing") <=> (S \cap Open # {})
         /\ Verdict(S) = "embedding" => S \subseteq {"none"} \/ "completed" \in S
         /\ Verdict(S) # "none" /\ Verdict(S) # "ready"
         /\ Verdict(S) \in DocumentStatuses
BY DEF Verdict, DocumentStatuses

--------------------------------------------------------------------------------
(* The initial states.                                                        *)

LEMMA IdleState == Idle \in WorkerStates /\ Idle.pc = "idle"
BY DEF Idle, WorkerStates, Pcs, DocumentStatuses

LEMMA IdleRelies == ASSUME NEW w PROVE Relies(w, Idle)
BY IdleState DEF Relies

LEMMA InitIsInductive == Init => IndInv
<1> SUFFICES ASSUME Init PROVE IndInv
  OBVIOUS
<1>1. TypeOK
  BY IdleState DEF Init, TypeOK, DocumentStatuses, AnalysisStatuses
<1>2. StatusSupported
  BY DEF Init, StatusSupported, Open
<1>3. AnnouncedOnce
  BY DEF Init, AnnouncedOnce
<1>4. WorkersRely /\ OneDocumentLock /\ OneRowOwner
  BY IdleState, IdleRelies
     DEF Init, WorkersRely, OneDocumentLock, OneRowOwner, LocksDocument, OwnsRow
<1> QED BY <1>1, <1>2, <1>3, <1>4 DEF IndInv

--------------------------------------------------------------------------------
(* What the steps of one session have in common.                              *)

\* Locks: a session that goes on has a row or document to itself if it had it
\* before, or it was free.
LEMMA LocksKept ==
  ASSUME IndInv, NEW w \in Worker, NEW next \in WorkerStates, Step(w, next),
         \A c \in Content : LocksDocument(next, c) =>
           LocksDocument(workers[w], c) \/ DocumentFree(w, c),
         \A c \in Content, k \in Radar : OwnsRow(next, c, k) =>
           OwnsRow(workers[w], c, k) \/ RowFree(w, <<c, k>>)
  PROVE  /\ workers' \in [Worker -> WorkerStates]
         /\ workers'[w] = next
         /\ \A v \in Worker \ {w} : workers'[v] = workers[v]
         /\ OneDocumentLock' /\ OneRowOwner'
<1>1. /\ workers' \in [Worker -> WorkerStates]
      /\ workers'[w] = next
      /\ \A v \in Worker \ {w} : workers'[v] = workers[v]
  BY DEF IndInv, TypeOK, Step
<1>2. ASSUME NEW v \in Worker \ {w}, NEW c \in Content, LocksDocument(workers[v], c)
      PROVE  ~LocksDocument(next, c)
  BY <1>2 DEF IndInv, OneDocumentLock, DocumentFree, LocksDocument
<1>3. ASSUME NEW v \in Worker \ {w}, NEW c \in Content, NEW k \in Radar,
             OwnsRow(workers[v], c, k)
      PROVE  ~OwnsRow(next, c, k)
  <2>1. <<c, k>> \in Rows(v)
    BY <1>3 DEF OwnsRow, Rows
  <2> QED BY <1>3, <2>1 DEF IndInv, OneRowOwner, RowFree
<1>4. OneDocumentLock'
  BY <1>1, <1>2 DEF IndInv, OneDocumentLock
<1>5. OneRowOwner'
  BY <1>1, <1>3 DEF IndInv, OneRowOwner
<1> QED BY <1>1, <1>4, <1>5

\* Steps that change no analysis: the others still rely on the same.
LEMMA AnalysesStay ==
  ASSUME IndInv, NEW w \in Worker, NEW next \in WorkerStates, Step(w, next),
         Relies(w, next),
         \A c \in Content : LocksDocument(next, c) =>
           LocksDocument(workers[w], c) \/ DocumentFree(w, c),
         \A c \in Content, k \in Radar : OwnsRow(next, c, k) =>
           OwnsRow(workers[w], c, k) \/ RowFree(w, <<c, k>>),
         UNCHANGED <<analysis, claimant>>
  PROVE  /\ workers' \in [Worker -> WorkerStates]
         /\ WorkersRely' /\ OneDocumentLock' /\ OneRowOwner'
<1>1. /\ workers' \in [Worker -> WorkerStates]
      /\ workers'[w] = next
      /\ \A v \in Worker \ {w} : workers'[v] = workers[v]
      /\ OneDocumentLock' /\ OneRowOwner'
  BY LocksKept
<1>2. \A v \in Worker : Relies(v, workers'[v])
  BY <1>1 DEF IndInv, WorkersRely
<1>3. ASSUME NEW v \in Worker PROVE Relies(v, workers[v])'
  <2>1. PICK y : y = workers'[v]
    OBVIOUS
  <2>2. Relies(v, y)
    BY <1>2, <2>1
  <2>3. \A l : Due(y, l)' = Due(y, l)
    BY DEF Due
  <2>4. {Due(y, l) : l \in Radar} = {Due(y, l)' : l \in Radar}
    BY <2>3
  <2>5. Verdict({Due(y, l) : l \in Radar}) = Verdict({Due(y, l)' : l \in Radar})
    BY <2>4
  <2>6. Relies(v, y)'
    BY <2>2, <2>5 DEF Relies
  <2> QED BY <2>1, <2>6 DEF Relies, Due
<1> QED BY <1>1, <1>3 DEF WorkersRely

\* Steps of no session, or of one that changes neither its state nor an analysis.
LEMMA SessionsStay ==
  ASSUME IndInv, UNCHANGED <<workers, analysis, claimant>>
  PROVE  WorkersRely' /\ OneDocumentLock' /\ OneRowOwner'
<1>1. ASSUME NEW v \in Worker PROVE Relies(v, workers[v])'
  <2>1. PICK y : y = workers[v] /\ y = workers'[v]
    OBVIOUS
  <2>2. Relies(v, y)
    BY <2>1 DEF IndInv, WorkersRely
  <2>3. {Due(y, l) : l \in Radar} = {Due(y, l)' : l \in Radar}
    BY DEF Due
  <2>4. Verdict({Due(y, l) : l \in Radar}) = Verdict({Due(y, l)' : l \in Radar})
    BY <2>3
  <2>5. Relies(v, y)'
    BY <2>2, <2>4 DEF Relies
  <2> QED BY <2>1, <2>5 DEF Relies, Due
<1> QED BY <1>1 DEF IndInv, WorkersRely, OneDocumentLock, OneRowOwner

\* A session that returns to idle.
LEMMA IdleLocks ==
  /\ \A c \in Content : ~LocksDocument(Idle, c)
  /\ \A c \in Content, k \in Radar : ~OwnsRow(Idle, c, k)
BY IdleState DEF LocksDocument, OwnsRow

LEMMA GoesIdle ==
  ASSUME IndInv, NEW w \in Worker, Step(w, Idle), UNCHANGED <<analysis, claimant>>
  PROVE  /\ workers' \in [Worker -> WorkerStates]
         /\ WorkersRely' /\ OneDocumentLock' /\ OneRowOwner'
BY IdleState, IdleRelies, IdleLocks, AnalysesStay

\* One analysis moves: another session relies on what it did unless it owns the
\* row, or has locked the document and the analysis is not open before and after.
LEMMA OneRowMoves ==
  ASSUME IndInv, NEW c \in Content, NEW k \in Radar,
         NEW to \in AnalysisStatuses \ {"none"}, NEW who \in Worker \cup {None},
         analysis' = [analysis EXCEPT ![c][k] = to],
         claimant' = [claimant EXCEPT ![c][k] = who],
         NEW v \in Worker, workers'[v] = workers[v],
         ~OwnsRow(workers[v], c, k),
         (analysis[c][k] \in Open /\ to \in Open) \/ ~LocksDocument(workers[v], c)
  PROVE  Relies(v, workers[v])'
<1> DEFINE x == workers[v]
<1>1. /\ Relies(v, x) /\ x \in WorkerStates
      /\ analysis \in [Content -> [Radar -> AnalysisStatuses]]
      /\ claimant \in [Content -> [Radar -> Worker \cup {None}]]
  BY DEF IndInv, WorkersRely, TypeOK
<1>2. /\ analysis'[c][k] = to /\ claimant'[c][k] = who
      /\ \A l \in Radar \ {k} : /\ analysis'[c][l] = analysis[c][l]
                                /\ claimant'[c][l] = claimant[c][l]
      /\ \A b \in Content \ {c} : analysis'[b] = analysis[b] /\ claimant'[b] = claimant[b]
  BY <1>1
<1>3. PICK y \in WorkerStates : y = workers[v] /\ y = workers'[v]
  BY <1>1
<1>4. Relies(v, y)
  BY <1>1, <1>3
<1>5. ASSUME y.pc \in {"clean", "synced"}, y.content = c
      PROVE  /\ analysis[c][k] \in Open /\ to \in Open
             /\ y.pc = "clean" => <<c, k>> \notin y.batch
             /\ y.pc = "synced" => y.radar # k
  BY <1>3, <1>4, <1>5 DEF LocksDocument, OwnsRow, Relies, Open
<1>6. ASSUME y.pc \in {"clean", "synced"}
      PROVE  Verdict({Due(y, l) : l \in Radar}) = Verdict({Due(y, l)' : l \in Radar})
  <2>1. CASE y.content # c
    <3>1. \A l \in Radar : Due(y, l)' = Due(y, l)
      BY <1>2, <1>4, <1>6, <2>1 DEF Due, Relies
    <3> QED BY <3>1
  <2>2. CASE y.content = c
    <3>1. Due(y, k) \in Open /\ Due(y, k)' \in Open
      BY <1>2, <1>5, <1>6, <2>2 DEF Due
    <3>2. PICK S, T : S = {Due(y, l) : l \in Radar} /\ T = {Due(y, l)' : l \in Radar}
      OBVIOUS
    <3>3. S \cap Open # {} /\ T \cap Open # {}
      BY <3>1, <3>2
    <3>4. Verdict(S) = Verdict(T)
      BY <3>3 DEF Verdict
    <3> QED BY <3>2, <3>4
  <2> QED BY <2>1, <2>2
<1>7. ASSUME y.pc \in {"saved", "synced", "retry"}
      PROVE  /\ analysis'[y.content][y.radar] = analysis[y.content][y.radar]
             /\ claimant'[y.content][y.radar] = claimant[y.content][y.radar]
  BY <1>2, <1>3, <1>4, <1>7 DEF OwnsRow, Relies
<1>8. ASSUME y.pc = "clean", NEW l \in Radar, <<y.content, l>> \in y.batch
      PROVE  analysis'[y.content][l] = "none"
  <2>1. analysis[y.content][l] = "none" /\ y.content \in Content
    BY <1>4, <1>8 DEF Relies
  <2> QED BY <1>2, <1>5, <1>8, <2>1
<1>9. ASSUME y.pc = "asked"
      PROVE  analysis'[y.content][y.radar] # "none"
  <2>1. analysis[y.content][y.radar] # "none" /\ y.content \in Content /\ y.radar \in Radar
    BY <1>4, <1>9 DEF Relies
  <2> QED BY <1>2, <2>1
<1>10. Relies(v, y)'
  BY <1>4, <1>6, <1>7, <1>8, <1>9 DEF Relies
<1> QED BY <1>3, <1>10 DEF Relies, Due

--------------------------------------------------------------------------------
(* Documents follow their analyses.                                           *)

\* What every step that changes an analysis of a content does.
Resyncs(c) ==
  /\ \A b \in Content \ {c} : analysis'[b] = analysis[b]
  /\ document' = [document EXCEPT ![c] = Verdict(Found(c)')]

LEMMA ResyncSupports ==
  ASSUME IndInv, NEW c \in Content, Resyncs(c), UNCHANGED chunks
  PROVE  /\ StatusSupported'
         /\ document' \in [Content -> DocumentStatuses]
<1>1. PICK S : S = Found(c)'
  OBVIOUS
<1>2. document' = [document EXCEPT ![c] = Verdict(S)]
  BY <1>1 DEF Resyncs
<1>3. Verdict(S) \in DocumentStatuses
  BY VerdictAgrees
<1>4. /\ document' \in [Content -> DocumentStatuses]
      /\ document'[c] = Verdict(S)
      /\ \A b \in Content \ {c} : document'[b] = document[b]
  BY <1>2, <1>3 DEF IndInv, TypeOK
<1>5. ASSUME NEW b \in Content, NEW F, F = Found(b)'
      PROVE  /\ document'[b] = "analyzing" => F \cap Open # {}
             /\ document'[b] = "embedding" => F \subseteq {"none"} \/ "completed" \in F
             /\ document'[b] = "ready" => b \in chunks'
             /\ document'[b] = "none" => F \subseteq {"none"}
  <2>1. CASE b = c
    <3>1. document'[b] = Verdict(F)
      BY <1>1, <1>4, <1>5, <2>1
    <3> QED BY <3>1, VerdictAgrees
  <2>2. CASE b # c
    <3>1. F = Found(b)
      BY <1>5, <2>2 DEF Resyncs, Found
    <3> QED BY <1>4, <2>2, <3>1 DEF IndInv, StatusSupported, Found
  <2> QED BY <2>1, <2>2
<1>6. StatusSupported'
  BY <1>5 DEF StatusSupported, Found
<1> QED BY <1>4, <1>6

\* An open analysis supports every status but that of a document that is not there,
\* and no completed one is lost when it opens: an analysis that opens or stays open
\* leaves its document supported, reopened or not.
LEMMA OpeningSupports ==
  ASSUME IndInv, NEW c \in Content, NEW k \in Radar, NEW to \in Open,
         analysis[c][k] \in {"pending", "running", "failed"},
         analysis' = [analysis EXCEPT ![c][k] = to],
         UNCHANGED document \/ document' = [document EXCEPT ![c] = "analyzing"],
         UNCHANGED chunks
  PROVE  /\ StatusSupported'
         /\ document' \in [Content -> DocumentStatuses]
<1>1. /\ analysis \in [Content -> [Radar -> AnalysisStatuses]]
      /\ document \in [Content -> DocumentStatuses]
  BY DEF IndInv, TypeOK
<1>2. /\ document' \in [Content -> DocumentStatuses]
      /\ document'[c] \in {document[c], "analyzing"}
      /\ \A b \in Content \ {c} : document'[b] = document[b]
  BY <1>1 DEF DocumentStatuses
<1>3. /\ analysis'[c][k] = to
      /\ \A l \in Radar \ {k} : analysis'[c][l] = analysis[c][l]
      /\ \A b \in Content \ {c} : analysis'[b] = analysis[b]
  BY <1>1
<1>4. PICK F, G : F = Found(c) /\ G = Found(c)'
  OBVIOUS
<1>5. /\ to \in G /\ analysis[c][k] \in F
      /\ "completed" \in F => "completed" \in G
  BY <1>3, <1>4 DEF Found, Open
<1>6. /\ document[c] = "embedding" => F \subseteq {"none"} \/ "completed" \in F
      /\ document[c] = "ready" => c \in chunks
      /\ document[c] = "none" => F \subseteq {"none"}
  BY <1>4 DEF IndInv, StatusSupported, Found
<1>7. ASSUME NEW b \in Content, NEW H, H = Found(b)'
      PROVE  /\ document'[b] = "analyzing" => H \cap Open # {}
             /\ document'[b] = "embedding" => H \subseteq {"none"} \/ "completed" \in H
             /\ document'[b] = "ready" => b \in chunks'
             /\ document'[b] = "none" => H \subseteq {"none"}
  <2>1. CASE b = c
    BY <1>2, <1>4, <1>5, <1>6, <1>7, <2>1
  <2>2. CASE b # c
    <3>1. H = Found(b)
      BY <1>3, <1>7, <2>2 DEF Found
    <3> QED BY <1>2, <2>2, <3>1 DEF IndInv, StatusSupported, Found
  <2> QED BY <2>1, <2>2
<1>8. StatusSupported'
  BY <1>7 DEF StatusSupported, Found
<1> QED BY <1>2, <1>8

\* A session that commits under the lock of its document leaves each analysis as
\* due, which its verdict is about.
LEMMA DueResyncs ==
  ASSUME IndInv, NEW w \in Worker, workers[w].pc \in {"clean", "synced"},
         \A b \in Content \ {workers[w].content} : analysis'[b] = analysis[b],
         \A k \in Radar : analysis'[workers[w].content][k] = Due(workers[w], k),
         document' = [document EXCEPT ![workers[w].content] = workers[w].verdict]
  PROVE  workers[w].content \in Content /\ Resyncs(workers[w].content)
<1>1. /\ workers[w].content \in Content
      /\ workers[w].verdict = Verdict({Due(workers[w], k) : k \in Radar})
  BY DEF IndInv, WorkersRely, Relies
<1>2. PICK c \in Content : c = workers[w].content
  BY <1>1
<1>3. PICK S : S = {Due(workers[w], k) : k \in Radar}
  OBVIOUS
<1>4. S = Found(c)'
  BY <1>2, <1>3 DEF Found
<1>5. workers[w].verdict = Verdict(S)
  BY <1>1, <1>3
<1>6. Resyncs(c)
  BY <1>2, <1>4, <1>5 DEF Resyncs
<1> QED BY <1>2, <1>6

LEMMA CleanCommitResyncs ==
  ASSUME IndInv, NEW w \in Worker, CleanCommit(w)
  PROVE  workers[w].content \in Content /\ Resyncs(workers[w].content)
<1> DEFINE c == workers[w].content
<1>1. /\ workers[w].pc = "clean" /\ c \in Content
      /\ analysis \in [Content -> [Radar -> AnalysisStatuses]]
  BY DEF CleanCommit, IndInv, WorkersRely, Relies, TypeOK
<1>2. analysis' = [analysis EXCEPT ![c] =
                     [k \in Radar |-> IF <<c, k>> \in workers[w].batch
                                      THEN "pending" ELSE analysis[c][k]]]
  BY DEF CleanCommit
<1>3. /\ \A b \in Content \ {c} : analysis'[b] = analysis[b]
      /\ \A k \in Radar : analysis'[c][k] = Due(workers[w], k)
  BY <1>1, <1>2 DEF Due
<1>4. document' = [document EXCEPT ![c] = workers[w].verdict]
  BY DEF CleanCommit
<1> QED BY <1>1, <1>3, <1>4, DueResyncs

LEMMA SettleResyncs ==
  ASSUME IndInv, NEW w \in Worker, Settle(w)
  PROVE  workers[w].content \in Content /\ Resyncs(workers[w].content)
<1> DEFINE c == workers[w].content
<1>1. /\ workers[w].pc = "synced" /\ c \in Content /\ workers[w].radar \in Radar
      /\ analysis \in [Content -> [Radar -> AnalysisStatuses]]
      /\ analysis' = [analysis EXCEPT ![c][workers[w].radar] = workers[w].result]
      /\ document' = [document EXCEPT ![c] = workers[w].verdict]
  BY DEF Settle, IndInv, WorkersRely, Relies, TypeOK
<1>2. /\ \A b \in Content \ {c} : analysis'[b] = analysis[b]
      /\ \A k \in Radar : analysis'[c][k] = Due(workers[w], k)
  BY <1>1 DEF Due
<1> QED BY <1>1, <1>2, DueResyncs

LEMMA RetryCommitOpens ==
  ASSUME IndInv, NEW w \in Worker, RetryCommit(w)
  PROVE  \E c \in Content, k \in Radar, to \in Open :
           /\ c = workers[w].content /\ k = workers[w].radar
           /\ analysis[c][k] \in {"pending", "running", "failed"}
           /\ to = IF analysis[c][k] = "failed" THEN "pending" ELSE analysis[c][k]
           /\ analysis' = [analysis EXCEPT ![c][k] = to]
           /\ document' = IF workers[w].reopened THEN document
                          ELSE [document EXCEPT ![c] = "analyzing"]
<1>1. workers[w].pc = "retry" /\ Relies(w, workers[w])
  BY DEF RetryCommit, IndInv, WorkersRely
<1>2. PICK c \in Content, k \in Radar : c = workers[w].content /\ k = workers[w].radar
  BY <1>1 DEF Relies
<1>3. analysis[c][k] \in {"pending", "running", "failed"}
  BY <1>1, <1>2 DEF Relies
<1>4. PICK to \in Open :
        to = IF analysis[c][k] = "failed" THEN "pending" ELSE analysis[c][k]
  BY <1>3 DEF Open
<1>5. /\ analysis' = [analysis EXCEPT ![c][k] = to]
      /\ document' = IF workers[w].reopened THEN document
                     ELSE [document EXCEPT ![c] = "analyzing"]
  BY <1>2, <1>4 DEF RetryCommit
<1> QED BY <1>2, <1>3, <1>4, <1>5

--------------------------------------------------------------------------------
(* The actions that change no analysis.                                       *)

\* A step that only moves a session.
LEMMA QuietStep ==
  ASSUME IndInv, NEW w \in Worker, NEW next \in WorkerStates, Step(w, next),
         Relies(w, next),
         \A c \in Content : LocksDocument(next, c) =>
           LocksDocument(workers[w], c) \/ DocumentFree(w, c),
         \A c \in Content, k \in Radar : OwnsRow(next, c, k) =>
           OwnsRow(workers[w], c, k) \/ RowFree(w, <<c, k>>),
         UNCHANGED <<raw, document, chunks, analysis, claimant, above, notified,
                     events, radar>>,
         faults' \in Nat, retries' \in Nat, changes' \in Nat
  PROVE  IndInv'
<1>1. /\ workers' \in [Worker -> WorkerStates]
      /\ WorkersRely' /\ OneDocumentLock' /\ OneRowOwner'
  BY AnalysesStay
<1>2. TypeOK'
  BY <1>1 DEF IndInv, TypeOK
<1>3. StatusSupported'
  <2>1. \A c \in Content : {analysis'[c][k] : k \in Radar} = {analysis[c][k] : k \in Radar}
    OBVIOUS
  <2> QED BY <2>1 DEF IndInv, StatusSupported
<1>4. AnnouncedOnce'
  BY DEF IndInv, AnnouncedOnce
<1> QED BY <1>1, <1>2, <1>3, <1>4 DEF IndInv

\* A session that locks nothing.
LEMMA LocklessStep ==
  ASSUME IndInv, NEW w \in Worker, NEW next \in WorkerStates, Step(w, next),
         next.pc \in {"idle", "provider", "asked", "embed", "eligible", "notify"},
         next.pc \in {"provider", "asked", "embed"} => next.content \in Content,
         next.pc \in {"provider", "asked"} => next.radar \in Radar,
         next.pc = "asked" => analysis[next.content][next.radar] # "none",
         UNCHANGED <<raw, document, chunks, analysis, claimant, above, notified,
                     events, radar>>,
         faults' \in Nat, retries' \in Nat, changes' \in Nat
  PROVE  IndInv'
<1>1. Relies(w, next)
  BY DEF Relies
<1>2. /\ \A c \in Content : ~LocksDocument(next, c)
      /\ \A c \in Content, k \in Radar : ~OwnsRow(next, c, k)
  BY DEF LocksDocument, OwnsRow
<1> QED BY <1>1, <1>2, QuietStep

LEMMA CountersAreNaturals ==
  ASSUME IndInv PROVE faults \in Nat /\ retries \in Nat /\ changes \in Nat
BY DEF IndInv, TypeOK

\* Locked and read: the missing analyses are due to be pending, and the verdict is
\* the one of all analyses then.
LEMMA CleanReadKeeps ==
  ASSUME IndInv, NEW w \in Worker, NEW x \in RawItem, CleanRead(w, x)
  PROVE  IndInv'
<1>1. PICK c \in Content, new \in SUBSET Radar : c = ContentOf[x] /\ new = Missing(x)
  BY DocumentsAssumption DEF Missing
<1> DEFINE found == {analysis[c][k] : k \in Radar}
                    \cup (IF new = {} THEN {} ELSE {"pending"})
           next == [Idle EXCEPT !.pc = "clean", !.item = x, !.content = c,
                                !.batch = {c} \X new, !.verdict = Verdict(found)]
<1>2. /\ Step(w, next) /\ DocumentFree(w, c)
      /\ UNCHANGED <<raw, document, chunks, analysis, claimant, above, notified,
                     events, radar, counters>>
  BY <1>1 DEF CleanRead
<1>3. \A k \in new : analysis[c][k] = "none"
  BY <1>1 DEF Missing
<1>4. PICK F : F = found
  OBVIOUS
<1>5. /\ next \in WorkerStates /\ next.pc = "clean" /\ next.item = x
      /\ next.content = c /\ next.batch = {c} \X new /\ next.verdict = Verdict(F)
  <2>1. Verdict(found) \in DocumentStatuses
    BY VerdictAgrees
  <2>2. {c} \X new \in SUBSET Job
    BY DEF Job
  <2> HIDE DEF found
  <2> QED BY <1>4, <2>1, <2>2, IdleState DEF WorkerStates, Pcs
<1> HIDE DEF next
<1>6. Verdict(F) = Verdict({Due(next, k) : k \in Radar})
  <2>1. PICK S : S = {Due(next, k) : k \in Radar}
    OBVIOUS
  <2>2. \A k \in Radar : Due(next, k) = IF k \in new THEN "pending" ELSE analysis[c][k]
    BY <1>5 DEF Due
  <2>3. CASE new = {}
    <3>1. S = F
      BY <1>4, <2>1, <2>2, <2>3
    <3> QED BY <2>1, <3>1
  <2>4. CASE new # {}
    <3>1. "pending" \in F
      BY <1>4, <2>4
    <3>2. "pending" \in S
      <4>1. PICK k \in new : Due(next, k) = "pending"
        BY <2>2, <2>4
      <4> QED BY <2>1, <4>1
    <3>3. Verdict(F) = "analyzing" /\ Verdict(S) = "analyzing"
      BY <3>1, <3>2 DEF Verdict, Open
    <3> QED BY <2>1, <3>3
  <2> QED BY <2>3, <2>4
<1>7. Relies(w, next)
  BY <1>3, <1>5, <1>6 DEF Relies
<1>8. /\ \A b \in Content : LocksDocument(next, b) => DocumentFree(w, b)
      /\ \A b \in Content, k \in Radar : ~OwnsRow(next, b, k)
  BY <1>2, <1>5 DEF LocksDocument, OwnsRow
<1> QED BY <1>2, <1>5, <1>7, <1>8, CountersAreNaturals, QuietStep DEF counters

LEMMA CleanRejectsKeeps ==
  ASSUME IndInv, NEW w \in Worker, NEW x \in RawItem, CleanRejects(w, x)
  PROVE  IndInv'
<1>1. /\ raw' = [raw EXCEPT ![x] = "failed"]
      /\ UNCHANGED <<document, chunks, analysis, claimant, above, notified, events,
                     radar, workers, counters>>
  BY DEF CleanRejects
<1>2. TypeOK'
  BY <1>1 DEF IndInv, TypeOK, counters
<1>3. StatusSupported' /\ AnnouncedOnce'
  BY <1>1 DEF IndInv, StatusSupported, AnnouncedOnce
<1> QED BY <1>1, <1>2, <1>3, SessionsStay DEF IndInv

\* The row of a claim that holds is locked; one that does not hold is dropped.
LEMMA SaveKeeps ==
  ASSUME IndInv, NEW w \in Worker, Save(w)
  PROVE  IndInv'
<1>1. PICK x \in WorkerStates : x = workers[w]
  BY DEF IndInv, TypeOK
<1>2. /\ x.pc = "provider" /\ RowFree(w, <<x.content, x.radar>>)
      /\ x.content \in Content /\ x.radar \in Radar
      /\ UNCHANGED <<raw, document, chunks, analysis, claimant, above, notified,
                     events, radar, counters>>
  BY <1>1 DEF Save, IndInv, WorkersRely, Relies
<1>3. CASE ~Holds(w)
  <2>1. Step(w, Idle)
    BY <1>3 DEF Save
  <2> QED BY <1>2, <2>1, IdleState, CountersAreNaturals, LocklessStep DEF counters
<1>4. CASE Holds(w)
  <2>1. PICK result \in {"failed", "completed"}, over \in BOOLEAN :
          Step(w, [x EXCEPT !.pc = "saved", !.result = result, !.over = over])
    <3>1. ASSUME Step(w, [x EXCEPT !.pc = "saved", !.result = "failed"])
          PROVE  \E over \in BOOLEAN :
                   Step(w, [x EXCEPT !.pc = "saved", !.result = "failed", !.over = over])
      <4>1. x.over \in BOOLEAN
        BY DEF WorkerStates
      <4>2. [x EXCEPT !.pc = "saved", !.result = "failed"]
            = [x EXCEPT !.pc = "saved", !.result = "failed", !.over = x.over]
        BY DEF WorkerStates
      <4> QED BY <3>1, <4>1, <4>2
    <3> QED BY <1>1, <1>4, <3>1 DEF Save
  <2> DEFINE next == [x EXCEPT !.pc = "saved", !.result = result, !.over = over]
  <2>2. /\ next \in WorkerStates /\ next.pc = "saved" /\ next.content = x.content
        /\ next.radar = x.radar /\ next.result = result
    BY <2>1 DEF WorkerStates, Pcs
  <2>3. Step(w, next)
    BY <2>1
  <2> HIDE DEF next
  <2>4. Relies(w, next)
    BY <1>1, <1>2, <1>4, <2>1, <2>2 DEF Relies, Holds
  <2>5. /\ \A c \in Content : ~LocksDocument(next, c)
        /\ \A c \in Content, k \in Radar : OwnsRow(next, c, k) => RowFree(w, <<c, k>>)
    BY <1>2, <2>2 DEF LocksDocument, OwnsRow
  <2> QED BY <1>2, <2>2, <2>3, <2>4, <2>5, CountersAreNaturals, QuietStep DEF counters
<1> QED BY <1>3, <1>4

\* The statuses of the others are read with the document locked, and its own.
LEMMA SyncKeeps ==
  ASSUME IndInv, NEW w \in Worker, Sync(w)
  PROVE  IndInv'
<1>1. PICK x \in WorkerStates : x = workers[w]
  BY DEF IndInv, TypeOK
<1>2. PICK c \in Content, k \in Radar : c = x.content /\ k = x.radar
  BY <1>1 DEF Sync, IndInv, WorkersRely, Relies
<1>3. /\ x.pc = "saved" /\ DocumentFree(w, c)
      /\ analysis[c][k] = "running" /\ claimant[c][k] = w
      /\ x.result \in {"completed", "failed"}
      /\ UNCHANGED <<raw, document, chunks, analysis, claimant, above, notified,
                     events, radar, counters>>
  BY <1>1, <1>2 DEF Sync, IndInv, WorkersRely, Relies
<1> DEFINE found == {analysis[c][l] : l \in Radar \ {k}} \cup {x.result}
<1>4. PICK F : F = found
  OBVIOUS
<1> DEFINE next == [x EXCEPT !.pc = "synced", !.verdict = Verdict(found)]
<1>5. Step(w, next)
  BY <1>1, <1>2 DEF Sync
<1>6. /\ next \in WorkerStates /\ next.pc = "synced" /\ next.content = c
      /\ next.radar = k /\ next.result = x.result /\ next.verdict = Verdict(F)
  <2>1. Verdict(found) \in DocumentStatuses
    BY VerdictAgrees
  <2> HIDE DEF found
  <2> QED BY <1>2, <1>4, <2>1 DEF WorkerStates, Pcs
<1> HIDE DEF next
<1>7. Verdict(F) = Verdict({Due(next, l) : l \in Radar})
  <2>1. PICK S : S = {Due(next, l) : l \in Radar}
    OBVIOUS
  <2>2. \A l \in Radar : Due(next, l) = IF l = k THEN x.result ELSE analysis[c][l]
    BY <1>6 DEF Due
  <2>3. S = F
    BY <1>4, <2>1, <2>2
  <2> QED BY <2>1, <2>3
<1>8. Relies(w, next)
  BY <1>3, <1>6, <1>7 DEF Relies
<1>9. /\ \A b \in Content : LocksDocument(next, b) => DocumentFree(w, b)
      /\ \A b \in Content, l \in Radar : OwnsRow(next, b, l) => OwnsRow(workers[w], b, l)
  BY <1>1, <1>2, <1>3, <1>6 DEF LocksDocument, OwnsRow
<1> QED BY <1>3, <1>5, <1>6, <1>8, <1>9, CountersAreNaturals, QuietStep DEF counters

LEMMA RetrySelectKeeps ==
  ASSUME IndInv, NEW w \in Worker, NEW c \in Content, NEW k \in Radar, RetrySelect(w, c, k)
  PROVE  IndInv'
<1> DEFINE next(open) == [Idle EXCEPT !.pc = "asked", !.content = c, !.radar = k,
                                      !.reopened = open]
<1>1. PICK open \in BOOLEAN : open = (document[c] = "analyzing")
  OBVIOUS
<1>2. /\ Step(w, next(open))
      /\ UNCHANGED <<raw, document, chunks, analysis, claimant, above, notified,
                     events, radar, faults, changes>>
      /\ retries' = retries + 1
      /\ analysis[c][k] # "none"
  BY <1>1 DEF RetrySelect
<1>3. /\ next(open) \in WorkerStates /\ next(open).pc = "asked"
      /\ next(open).content = c /\ next(open).radar = k
  BY IdleState DEF WorkerStates, Pcs
<1> HIDE DEF next
<1>4. faults' \in Nat /\ retries' \in Nat /\ changes' \in Nat
  BY <1>2, CountersAreNaturals
<1> QED BY <1>2, <1>3, <1>4, LocklessStep

\* The row of an analysis that is not completed is locked, or the request refused.
LEMMA RetryLockKeeps ==
  ASSUME IndInv, NEW w \in Worker, RetryLock(w)
  PROVE  IndInv'
<1>1. PICK x \in WorkerStates, c \in Content, k \in Radar :
        x = workers[w] /\ c = x.content /\ k = x.radar
  BY DEF RetryLock, IndInv, TypeOK, WorkersRely, Relies
<1>2. /\ RowFree(w, <<c, k>>)
      /\ UNCHANGED <<raw, document, chunks, analysis, claimant, above, notified,
                     events, radar, counters>>
  BY <1>1 DEF RetryLock
<1>3. CASE analysis[c][k] = "completed"
  <2>1. Step(w, Idle)
    BY <1>1, <1>3 DEF RetryLock
  <2> QED BY <1>2, <2>1, IdleState, CountersAreNaturals, LocklessStep DEF counters
<1>4. CASE analysis[c][k] # "completed"
  <2> DEFINE next == [x EXCEPT !.pc = "retry"]
  <2>1. Step(w, next)
    BY <1>1, <1>4 DEF RetryLock
  <2>2. next \in WorkerStates /\ next.pc = "retry" /\ next.content = c /\ next.radar = k
    BY <1>1 DEF WorkerStates, Pcs
  <2> HIDE DEF next
  <2>3. analysis[c][k] \in {"pending", "running", "failed"}
    <3>1. x.pc = "asked" /\ Relies(w, x)
      BY <1>1 DEF RetryLock, IndInv, WorkersRely
    <3>2. analysis[c][k] # "none"
      BY <1>1, <3>1 DEF Relies
    <3> QED BY <1>4, <3>2 DEF IndInv, TypeOK, AnalysisStatuses, Open
  <2>4. Relies(w, next)
    BY <2>2, <2>3 DEF Relies
  <2>5. /\ \A b \in Content : ~LocksDocument(next, b)
        /\ \A b \in Content, l \in Radar : OwnsRow(next, b, l) => RowFree(w, <<b, l>>)
    BY <1>2, <2>2 DEF LocksDocument, OwnsRow
  <2> QED BY <1>2, <2>1, <2>2, <2>4, <2>5, CountersAreNaturals, QuietStep DEF counters
<1> QED BY <1>3, <1>4

\* The end of an embedding, whatever the document's status has become.
LEMMA EmbeddingEnds ==
  ASSUME IndInv, NEW c \in Content,
         NEW to \in {"ready", "failed"}, document' = [document EXCEPT ![c] = to],
         chunks' = chunks \/ chunks' = chunks \cup {c},
         to = "ready" => c \in chunks',
         UNCHANGED analysis
  PROVE  /\ StatusSupported' /\ chunks' \in SUBSET Content
         /\ document' \in [Content -> DocumentStatuses]
<1>1. /\ document' \in [Content -> DocumentStatuses] /\ document'[c] = to
      /\ \A b \in Content \ {c} : document'[b] = document[b]
      /\ chunks' \in SUBSET Content /\ chunks \subseteq chunks'
  BY DEF IndInv, TypeOK, DocumentStatuses
<1>2. ASSUME NEW b \in Content, NEW F, F = Found(b)
      PROVE  /\ document'[b] = "analyzing" => F \cap Open # {}
             /\ document'[b] = "embedding" => F \subseteq {"none"} \/ "completed" \in F
             /\ document'[b] = "ready" => b \in chunks'
             /\ document'[b] = "none" => F \subseteq {"none"}
  BY <1>1, <1>2 DEF IndInv, StatusSupported, Found
<1>3. \A b \in Content : Found(b)' = Found(b)
  BY DEF Found
<1>4. StatusSupported'
  BY <1>2, <1>3 DEF StatusSupported, Found
<1> QED BY <1>1, <1>4

LEMMA EmbedReadKeeps ==
  ASSUME IndInv, NEW w \in Worker, NEW c \in Content, EmbedRead(w, c)
  PROVE  IndInv'
<1>1. /\ document[c] = "embedding"
      /\ UNCHANGED <<raw, chunks, analysis, claimant, above, notified, events, radar,
                     counters>>
  BY DEF EmbedRead
<1>2. CASE c \in chunks
  <2>1. document' = [document EXCEPT ![c] = "ready"] /\ UNCHANGED workers
    BY <1>2 DEF EmbedRead
  <2>2. /\ StatusSupported' /\ chunks' \in SUBSET Content
        /\ document' \in [Content -> DocumentStatuses]
    BY <1>1, <1>2, <2>1, EmbeddingEnds
  <2>3. TypeOK'
    BY <1>1, <2>1, <2>2 DEF IndInv, TypeOK, counters
  <2>4. AnnouncedOnce'
    BY <1>1 DEF IndInv, AnnouncedOnce
  <2> QED BY <1>1, <2>1, <2>2, <2>3, <2>4, SessionsStay DEF IndInv
<1>3. CASE c \notin chunks
  <2> DEFINE next == [Idle EXCEPT !.pc = "embed", !.content = c]
  <2>1. Step(w, next) /\ UNCHANGED document
    BY <1>3 DEF EmbedRead
  <2>2. next \in WorkerStates /\ next.pc = "embed" /\ next.content = c
    BY IdleState DEF WorkerStates, Pcs
  <2> HIDE DEF next
  <2> QED BY <1>1, <2>1, <2>2, CountersAreNaturals, LocklessStep DEF counters
<1> QED BY <1>2, <1>3

LEMMA EmbedEndKeeps ==
  ASSUME IndInv, NEW w \in Worker, EmbedEnd(w)
  PROVE  IndInv'
<1>1. PICK c \in Content : c = workers[w].content
  BY DEF EmbedEnd, IndInv, WorkersRely, Relies
<1>2. /\ Step(w, Idle)
      /\ UNCHANGED <<raw, analysis, claimant, above, notified, events, radar, counters>>
  BY DEF EmbedEnd
<1>3. /\ workers' \in [Worker -> WorkerStates]
      /\ WorkersRely' /\ OneDocumentLock' /\ OneRowOwner'
  BY <1>2, GoesIdle
<1>4. /\ StatusSupported' /\ chunks' \in SUBSET Content
      /\ document' \in [Content -> DocumentStatuses]
  <2>1. \/ document' = [document EXCEPT ![c] = "ready"] /\ chunks' = chunks \cup {c}
        \/ document' = [document EXCEPT ![c] = "failed"] /\ chunks' = chunks
    BY <1>1 DEF EmbedEnd
  <2> QED BY <1>2, <2>1, EmbeddingEnds
<1>5. TypeOK'
  BY <1>2, <1>3, <1>4 DEF IndInv, TypeOK, counters
<1>6. AnnouncedOnce'
  BY <1>2 DEF IndInv, AnnouncedOnce
<1> QED BY <1>3, <1>4, <1>5, <1>6 DEF IndInv

LEMMA NotifySelectKeeps ==
  ASSUME IndInv, NEW w \in Worker, NEW batch \in SUBSET Eligible, NotifySelect(w, batch)
  PROVE  IndInv'
<1> DEFINE next == [Idle EXCEPT !.pc = "eligible", !.batch = batch]
<1>1. /\ Step(w, next)
      /\ UNCHANGED <<raw, document, chunks, analysis, claimant, above, notified,
                     events, radar, counters>>
  BY DEF NotifySelect
<1>2. batch \in SUBSET Job
  BY DEF IndInv, TypeOK, Eligible
<1>3. next \in WorkerStates /\ next.pc = "eligible"
  BY <1>2, IdleState DEF WorkerStates, Pcs
<1> HIDE DEF next
<1> QED BY <1>1, <1>3, CountersAreNaturals, LocklessStep DEF counters

LEMMA NotifyLockKeeps ==
  ASSUME IndInv, NEW w \in Worker, NotifyLock(w)
  PROVE  IndInv'
<1>1. PICK x \in WorkerStates : x = workers[w]
  BY DEF IndInv, TypeOK
<1> DEFINE free == {j \in x.batch : RowFree(w, j)}
           next == [x EXCEPT !.pc = "notify", !.batch = free]
<1>2. /\ Step(w, next)
      /\ UNCHANGED <<raw, document, chunks, analysis, claimant, above, notified,
                     events, radar, counters>>
  BY <1>1 DEF NotifyLock, Step
<1>3. free \in SUBSET Job
  BY DEF WorkerStates
<1> HIDE DEF free
<1>4. next \in WorkerStates /\ next.pc = "notify"
  BY <1>3 DEF WorkerStates, Pcs
<1> HIDE DEF next
<1> QED BY <1>2, <1>4, CountersAreNaturals, LocklessStep DEF counters

\* A notification that is inserted is announced for the first time.
LEMMA NotifyCommitKeeps ==
  ASSUME IndInv, NEW w \in Worker, NotifyCommit(w)
  PROVE  IndInv'
<1>1. PICK batch \in SUBSET Job : batch = workers[w].batch
  BY DEF IndInv, TypeOK, WorkerStates
<1>2. /\ Step(w, Idle)
      /\ notified' = notified \cup batch
      /\ events' = [j \in Job |-> IF j \in batch \ notified THEN events[j] + 1 ELSE events[j]]
      /\ UNCHANGED <<raw, document, chunks, analysis, claimant, above, radar, counters>>
  BY <1>1 DEF NotifyCommit
<1>3. /\ workers' \in [Worker -> WorkerStates]
      /\ WorkersRely' /\ OneDocumentLock' /\ OneRowOwner'
  BY <1>2, GoesIdle
<1>4. AnnouncedOnce' /\ events' \in [Job -> Nat]
  <2>1. \A j \in Job : events[j] \in Nat /\ events[j] <= 1 /\ (events[j] = 1 => j \in notified)
    BY DEF IndInv, TypeOK, AnnouncedOnce
  <2>2. \A j \in Job : events'[j] = IF j \in batch \ notified THEN events[j] + 1 ELSE events[j]
    BY <1>2
  <2>3. ASSUME NEW j \in Job
        PROVE  /\ events'[j] \in Nat /\ events'[j] <= 1
               /\ events'[j] = 1 => j \in notified \cup batch
    <3>1. CASE j \in batch \ notified
      <4>1. events[j] = 0
        BY <2>1, <3>1
      <4> QED BY <2>2, <3>1, <4>1
    <3>2. CASE j \notin batch \ notified
      BY <2>1, <2>2, <3>2
    <3> QED BY <3>1, <3>2
  <2> QED BY <1>2, <2>3 DEF AnnouncedOnce
<1>5. TypeOK'
  BY <1>2, <1>3, <1>4 DEF IndInv, TypeOK, counters
<1>6. StatusSupported'
  <2>1. \A c \in Content : {analysis'[c][k] : k \in Radar} = {analysis[c][k] : k \in Radar}
    BY <1>2
  <2> QED BY <1>2, <2>1 DEF IndInv, StatusSupported
<1> QED BY <1>3, <1>4, <1>5, <1>6 DEF IndInv

LEMMA CrashKeeps ==
  ASSUME IndInv, NEW w \in Worker, Crash(w)
  PROVE  IndInv'
<1>1. /\ Step(w, Idle) /\ faults' = faults + 1
      /\ UNCHANGED <<raw, document, chunks, analysis, claimant, above, notified,
                     events, radar, retries, changes>>
  BY DEF Crash
<1>2. faults' \in Nat /\ retries' \in Nat /\ changes' \in Nat
  BY <1>1, CountersAreNaturals
<1> QED BY <1>1, <1>2, IdleState, LocklessStep

LEMMA SurroundingsKeep ==
  ASSUME IndInv,
         \/ \E k \in Radar, to \in {"active", "paused", "deleted"} : ChangeRadar(k, to)
         \/ Rest \/ UNCHANGED vars
  PROVE  IndInv'
<1>1. /\ UNCHANGED <<raw, document, chunks, analysis, claimant, above, notified,
                     events, workers, faults, retries>>
      /\ changes' \in Nat
      /\ radar' \in [Radar -> {"active", "paused", "deleted"}]
  <2>1. ASSUME NEW k \in Radar, NEW to \in {"active", "paused", "deleted"},
               ChangeRadar(k, to)
        PROVE  /\ UNCHANGED <<raw, document, chunks, analysis, claimant, above, notified,
                              events, workers, faults, retries>>
               /\ changes' \in Nat
               /\ radar' \in [Radar -> {"active", "paused", "deleted"}]
    BY <2>1 DEF ChangeRadar, IndInv, TypeOK
  <2>2. CASE UNCHANGED vars
    BY <2>2 DEF vars, counters, IndInv, TypeOK
  <2> QED BY <2>1, <2>2 DEF Rest
<1>2. TypeOK'
  BY <1>1 DEF IndInv, TypeOK
<1>3. StatusSupported' /\ AnnouncedOnce'
  BY <1>1 DEF IndInv, StatusSupported, AnnouncedOnce
<1> QED BY <1>1, <1>2, <1>3, SessionsStay DEF IndInv

--------------------------------------------------------------------------------
(* The actions that change an analysis.                                       *)

LEMMA CleanCommitKeeps ==
  ASSUME IndInv, NEW w \in Worker, CleanCommit(w)
  PROVE  IndInv'
<1>1. PICK x \in WorkerStates, c \in Content : x = workers[w] /\ c = x.content
  BY DEF CleanCommit, IndInv, TypeOK, WorkersRely, Relies
<1>2. /\ x.pc = "clean" /\ x.item \in RawItem
      /\ \A k \in Radar : <<c, k>> \in x.batch => analysis[c][k] = "none"
      /\ analysis \in [Content -> [Radar -> AnalysisStatuses]]
  BY <1>1 DEF CleanCommit, IndInv, TypeOK, WorkersRely, Relies
<1>3. /\ raw' = [raw EXCEPT ![x.item] = IF document[c] = "none" THEN "cleaned" ELSE "duplicate"]
      /\ analysis' = [analysis EXCEPT ![c] =
                        [k \in Radar |-> IF <<c, k>> \in x.batch THEN "pending"
                                         ELSE analysis[c][k]]]
      /\ Step(w, Idle)
      /\ UNCHANGED <<chunks, claimant, above, notified, events, radar, counters>>
  BY <1>1 DEF CleanCommit
<1>4. /\ \A k \in Radar : analysis'[c][k] = IF <<c, k>> \in x.batch THEN "pending"
                                            ELSE analysis[c][k]
      /\ \A b \in Content \ {c} : analysis'[b] = analysis[b]
      /\ analysis' \in [Content -> [Radar -> AnalysisStatuses]]
  BY <1>2, <1>3 DEF AnalysisStatuses, Open
<1>5. StatusSupported' /\ document' \in [Content -> DocumentStatuses]
  BY <1>1, <1>3, CleanCommitResyncs, ResyncSupports
<1>6. /\ workers' \in [Worker -> WorkerStates] /\ workers'[w] = Idle
      /\ \A v \in Worker \ {w} : workers'[v] = workers[v]
      /\ OneDocumentLock' /\ OneRowOwner'
  BY <1>3, IdleState, IdleLocks, LocksKept
<1>7. ASSUME NEW v \in Worker \ {w} PROVE Relies(v, workers[v])'
  <2>1. PICK y \in WorkerStates : y = workers[v] /\ y = workers'[v]
    BY <1>6 DEF IndInv, TypeOK
  <2>2. Relies(v, y)
    BY <2>1 DEF IndInv, WorkersRely
  <2>3. y.pc \in {"clean", "synced"} => y.content \in Content \ {c}
    BY <1>1, <1>2, <2>1, <2>2 DEF IndInv, OneDocumentLock, LocksDocument, Relies
  <2>4. ASSUME y.pc \in {"clean", "synced"}
        PROVE  Verdict({Due(y, l) : l \in Radar}) = Verdict({Due(y, l)' : l \in Radar})
    <3>1. \A l \in Radar : Due(y, l)' = Due(y, l)
      BY <1>4, <2>3, <2>4 DEF Due
    <3>2. {Due(y, l) : l \in Radar} = {Due(y, l)' : l \in Radar}
      BY <3>1
    <3> QED BY <3>2
  <2>5. ASSUME y.pc \in {"saved", "synced", "retry"}
        PROVE  analysis'[y.content][y.radar] = analysis[y.content][y.radar]
    <3>1. /\ y.content \in Content /\ y.radar \in Radar
          /\ analysis[y.content][y.radar] # "none"
      BY <2>2, <2>5 DEF Relies
    <3>2. CASE y.content = c
      <4>1. <<c, y.radar>> \notin x.batch
        BY <1>2, <3>1, <3>2
      <4> QED BY <1>4, <3>1, <3>2, <4>1
    <3>3. CASE y.content # c
      BY <1>4, <3>1, <3>3
    <3> QED BY <3>2, <3>3
  <2>6. ASSUME y.pc = "clean", NEW l \in Radar, <<y.content, l>> \in y.batch
        PROVE  analysis'[y.content][l] = "none"
    BY <1>4, <2>2, <2>3, <2>6 DEF Relies
  <2>7. y.pc = "asked" => analysis'[y.content][y.radar] # "none"
    BY <1>4, <2>2 DEF Relies
  <2>8. Relies(v, y)'
    BY <1>3, <2>2, <2>4, <2>5, <2>6, <2>7 DEF Relies
  <2> QED BY <2>1, <2>8 DEF Relies, Due
<1>8. WorkersRely'
  <2>1. Relies(w, workers[w])'
    BY <1>6, IdleState DEF Relies
  <2> QED BY <1>7, <2>1 DEF WorkersRely
<1>9. TypeOK'
  BY <1>2, <1>3, <1>4, <1>5, <1>6 DEF IndInv, TypeOK, counters
<1>10. AnnouncedOnce'
  BY <1>3 DEF IndInv, AnnouncedOnce
<1> QED BY <1>5, <1>6, <1>8, <1>9, <1>10 DEF IndInv

LEMMA ClaimKeeps ==
  ASSUME IndInv, NEW w \in Worker, NEW c \in Content, NEW k \in Radar, Claim(w, c, k)
  PROVE  IndInv'
<1> DEFINE next == [Idle EXCEPT !.pc = "provider", !.content = c, !.radar = k]
<1>1. /\ analysis[c][k] = "pending" /\ RowFree(w, <<c, k>>)
      /\ analysis' = [analysis EXCEPT ![c][k] = "running"]
      /\ claimant' = [claimant EXCEPT ![c][k] = w]
      /\ Step(w, next)
      /\ UNCHANGED <<raw, document, chunks, above, notified, events, radar, counters>>
  BY DEF Claim
<1>2. /\ next \in WorkerStates /\ next.pc = "provider"
      /\ next.content = c /\ next.radar = k
  BY IdleState DEF WorkerStates, Pcs
<1> HIDE DEF next
<1>3. /\ workers' \in [Worker -> WorkerStates] /\ workers'[w] = next
      /\ \A v \in Worker \ {w} : workers'[v] = workers[v]
      /\ OneDocumentLock' /\ OneRowOwner'
  BY <1>1, <1>2, LocksKept DEF LocksDocument, OwnsRow
<1>4. "running" \in AnalysisStatuses /\ "running" \in Open /\ "pending" \in Open
  BY DEF AnalysisStatuses, Open
<1>5. \A v \in Worker \ {w} : Relies(v, workers[v])'
  <2>1. \A v \in Worker \ {w} : ~OwnsRow(workers[v], c, k)
    BY <1>1 DEF RowFree, Rows, OwnsRow
  <2> QED BY <1>1, <1>3, <1>4, <2>1, OneRowMoves
<1>6. WorkersRely'
  <2>1. Relies(w, workers[w])'
    BY <1>2, <1>3 DEF Relies
  <2> QED BY <1>5, <2>1 DEF WorkersRely
<1>7. StatusSupported'
  BY <1>1, <1>4, OpeningSupports
<1>8. TypeOK'
  BY <1>1, <1>3, <1>4 DEF IndInv, TypeOK, counters
<1>9. AnnouncedOnce'
  BY <1>1 DEF IndInv, AnnouncedOnce
<1> QED BY <1>3, <1>6, <1>7, <1>8, <1>9 DEF IndInv

LEMMA RecoverKeeps ==
  ASSUME IndInv, NEW c \in Content, NEW k \in Radar, Recover(c, k)
  PROVE  IndInv'
<1>1. /\ analysis[c][k] = "running" /\ \A w \in Worker : <<c, k>> \notin Rows(w)
      /\ analysis' = [analysis EXCEPT ![c][k] = "pending"]
      /\ claimant' = [claimant EXCEPT ![c][k] = None]
      /\ UNCHANGED <<raw, document, chunks, above, notified, events, radar, workers,
                     retries, changes>>
  BY DEF Recover
<1>2. faults' \in Nat
  BY CountersAreNaturals DEF Recover
<1>3. "pending" \in AnalysisStatuses /\ "running" \in Open /\ "pending" \in Open
  BY DEF AnalysisStatuses, Open
<1>4. WorkersRely'
  <2>1. \A v \in Worker : ~OwnsRow(workers[v], c, k)
    BY <1>1 DEF Rows, OwnsRow
  <2>2. \A v \in Worker : Relies(v, workers[v])'
    BY <1>1, <1>3, <2>1, OneRowMoves
  <2> QED BY <2>2 DEF WorkersRely
<1>5. StatusSupported'
  BY <1>1, <1>3, OpeningSupports
<1>6. TypeOK'
  BY <1>1, <1>2, <1>3 DEF IndInv, TypeOK
<1>7. AnnouncedOnce' /\ OneDocumentLock' /\ OneRowOwner'
  BY <1>1 DEF IndInv, AnnouncedOnce, OneDocumentLock, OneRowOwner
<1> QED BY <1>4, <1>5, <1>6, <1>7 DEF IndInv

\* The end of a transaction that owns a row and has the document to itself.
LEMMA SettleKeeps ==
  ASSUME IndInv, NEW w \in Worker, Settle(w)
  PROVE  IndInv'
<1>1. PICK x \in WorkerStates, c \in Content, k \in Radar :
        x = workers[w] /\ c = x.content /\ k = x.radar
  BY DEF Settle, IndInv, TypeOK, WorkersRely, Relies
<1>2. x.pc = "synced" /\ x.result \in {"completed", "failed"}
  BY <1>1 DEF Settle, IndInv, WorkersRely, Relies
<1>3. /\ analysis' = [analysis EXCEPT ![c][k] = x.result]
      /\ claimant' = [claimant EXCEPT ![c][k] = None]
      /\ above' = IF x.over THEN above \cup {<<c, k>>} ELSE above
      /\ Step(w, Idle)
      /\ UNCHANGED <<raw, chunks, notified, events, radar, counters>>
  BY <1>1 DEF Settle
<1>4. /\ workers' \in [Worker -> WorkerStates] /\ workers'[w] = Idle
      /\ \A v \in Worker \ {w} : workers'[v] = workers[v]
      /\ OneDocumentLock' /\ OneRowOwner'
  BY <1>3, IdleState, IdleLocks, LocksKept
<1>5. x.result \in AnalysisStatuses \ {"none"}
  BY <1>2 DEF AnalysisStatuses
<1>6. WorkersRely'
  <2>1. \A v \in Worker \ {w} :
          ~OwnsRow(workers[v], c, k) /\ ~LocksDocument(workers[v], c)
    BY <1>1, <1>2 DEF IndInv, OneRowOwner, OneDocumentLock, OwnsRow, LocksDocument
  <2>2. \A v \in Worker \ {w} : Relies(v, workers[v])'
    BY <1>3, <1>4, <1>5, <2>1, OneRowMoves
  <2>3. Relies(w, workers[w])'
    BY <1>4, IdleState DEF Relies
  <2> QED BY <2>2, <2>3 DEF WorkersRely
<1>7. StatusSupported' /\ document' \in [Content -> DocumentStatuses]
  BY <1>3, SettleResyncs, ResyncSupports
<1>8. TypeOK'
  <2>1. above' \in SUBSET Job
    BY <1>3 DEF IndInv, TypeOK, Job
  <2> QED BY <1>3, <1>4, <1>5, <1>7, <2>1 DEF IndInv, TypeOK, counters
<1>9. AnnouncedOnce'
  BY <1>3 DEF IndInv, AnnouncedOnce
<1> QED BY <1>4, <1>6, <1>7, <1>8, <1>9 DEF IndInv

LEMMA RetryCommitKeeps ==
  ASSUME IndInv, NEW w \in Worker, RetryCommit(w)
  PROVE  IndInv'
<1>1. PICK x \in WorkerStates, c \in Content, k \in Radar :
        x = workers[w] /\ c = x.content /\ k = x.radar
  BY DEF RetryCommit, IndInv, TypeOK, WorkersRely, Relies
<1>2. PICK to \in AnalysisStatuses \ {"none"}, who \in Worker \cup {None} :
        /\ to = IF analysis[c][k] = "failed" THEN "pending" ELSE analysis[c][k]
        /\ who = claimant[c][k]
  <2>1. x.pc = "retry" /\ Relies(w, x)
    BY <1>1 DEF RetryCommit, IndInv, WorkersRely
  <2>2. analysis[c][k] \in {"pending", "running", "failed"}
    BY <1>1, <2>1 DEF Relies
  <2> QED BY <2>2 DEF IndInv, TypeOK, AnalysisStatuses, Open
<1>3. /\ x.pc = "retry" /\ DocumentFree(w, c)
      /\ analysis' = [analysis EXCEPT ![c][k] = to]
      /\ Step(w, Idle)
      /\ UNCHANGED <<raw, chunks, claimant, above, notified, events, radar, counters>>
  BY <1>1, <1>2 DEF RetryCommit
<1>4. claimant' = [claimant EXCEPT ![c][k] = who]
  BY <1>2, <1>3 DEF IndInv, TypeOK
<1>5. /\ workers' \in [Worker -> WorkerStates] /\ workers'[w] = Idle
      /\ \A v \in Worker \ {w} : workers'[v] = workers[v]
      /\ OneDocumentLock' /\ OneRowOwner'
  BY <1>3, IdleState, IdleLocks, LocksKept
<1>6. WorkersRely'
  <2>1. \A v \in Worker \ {w} :
          ~OwnsRow(workers[v], c, k) /\ ~LocksDocument(workers[v], c)
    BY <1>1, <1>3 DEF IndInv, OneRowOwner, OwnsRow, LocksDocument, DocumentFree
  <2>2. \A v \in Worker \ {w} : Relies(v, workers[v])'
    BY <1>3, <1>4, <1>5, <2>1, OneRowMoves
  <2>3. Relies(w, workers[w])'
    BY <1>5, IdleState DEF Relies
  <2> QED BY <2>2, <2>3 DEF WorkersRely
<1>7. StatusSupported' /\ document' \in [Content -> DocumentStatuses]
  <2>1. PICK b \in Content, l \in Radar, open \in Open :
          /\ analysis[b][l] \in {"pending", "running", "failed"}
          /\ analysis' = [analysis EXCEPT ![b][l] = open]
          /\ UNCHANGED document \/ document' = [document EXCEPT ![b] = "analyzing"]
    BY RetryCommitOpens
  <2> QED BY <1>3, <2>1, OpeningSupports
<1>8. TypeOK'
  BY <1>3, <1>5, <1>7 DEF IndInv, TypeOK, counters
<1>9. AnnouncedOnce'
  BY <1>3 DEF IndInv, AnnouncedOnce
<1> QED BY <1>5, <1>6, <1>7, <1>8, <1>9 DEF IndInv

--------------------------------------------------------------------------------
LEMMA StepIsInductive ==
  ASSUME IndInv, [Next]_vars
  PROVE  IndInv'
<1>1. ASSUME NEW w \in Worker, Start(w) PROVE IndInv'
  BY <1>1, CleanReadKeeps, CleanRejectsKeeps, EmbedReadKeeps, ClaimKeeps, RetrySelectKeeps,
     NotifySelectKeeps DEF Start
<1>2. ASSUME NEW w \in Worker, Continue(w) PROVE IndInv'
  BY <1>2, CleanCommitKeeps, SaveKeeps, SyncKeeps, SettleKeeps, RetryLockKeeps,
     RetryCommitKeeps, EmbedEndKeeps, NotifyLockKeeps, NotifyCommitKeeps DEF Continue
<1> QED BY <1>1, <1>2, CrashKeeps, RecoverKeeps, SurroundingsKeep DEF Next

LEMMA Inductive == Spec => []IndInv
<1>1. IndInv /\ [Next]_vars => IndInv'
  BY StepIsInductive
<1> QED BY <1>1, InitIsInductive, PTL DEF Spec

\* Every row and session keeps its type. (models/entities.py)
THEOREM DocumentsTypeCorrect == Spec => []TypeOK
<1>1. IndInv => TypeOK
  BY DEF IndInv
<1> QED BY <1>1, Inductive, PTL

\* With any number of radars, sessions, crashes and retries no document is stranded
\* in a status that nothing will end. (_sync_document, run_embedding)
THEOREM DocumentSupported == Spec => []StatusSupported
<1>1. IndInv => StatusSupported
  BY DEF IndInv
<1> QED BY <1>1, Inductive, PTL

\* No number of dispatchers announces an analysis twice. (dispatch_notifications)
THEOREM AnnouncementIsUnique == Spec => []AnnouncedOnce
<1>1. IndInv => AnnouncedOnce
  BY DEF IndInv
<1> QED BY <1>1, Inductive, PTL

--------------------------------------------------------------------------------
(* What a step does to the analyses.                                          *)

\* The other actions leave analyses alone, and documents but for an embedding.
LEMMA QuietActions ==
  ASSUME [Next]_vars, IndInv,
         ~\E c \in Content, k \in Radar : Recover(c, k),
         ~\E w \in Worker :
            \/ CleanCommit(w) \/ Settle(w) \/ RetryCommit(w)
            \/ \E c \in Content, k \in Radar : Claim(w, c, k)
  PROVE  /\ UNCHANGED <<analysis, above>>
         /\ \/ UNCHANGED document
            \/ \E w \in Worker : EmbedEnd(w) \/ \E c \in Content : EmbedRead(w, c)
<1> DEFINE Embedding == \E w \in Worker : EmbedEnd(w) \/ \E c \in Content : EmbedRead(w, c)
           Quiet == UNCHANGED <<analysis, above>> /\ (UNCHANGED document \/ Embedding)
<1>1. ASSUME NEW w \in Worker, NEW c \in Content, EmbedRead(w, c)
      PROVE  Quiet
  BY <1>1 DEF EmbedRead
<1>2. ASSUME NEW w \in Worker, EmbedEnd(w)
      PROVE  Quiet
  BY <1>2 DEF EmbedEnd
<1> HIDE DEF Embedding
<1>3. ASSUME NEW w \in Worker, Start(w)
      PROVE  Quiet
  <2>1. ASSUME NEW x \in RawItem, CleanRead(w, x) \/ CleanRejects(w, x) PROVE Quiet
    BY <2>1 DEF CleanRead, CleanRejects
  <2>2. ASSUME NEW c \in Content, NEW k \in Radar, RetrySelect(w, c, k) PROVE Quiet
    BY <2>2 DEF RetrySelect
  <2>3. ASSUME NEW batch, NotifySelect(w, batch) PROVE Quiet
    BY <2>3 DEF NotifySelect
  <2> HIDE DEF Quiet
  <2> QED BY <1>1, <1>3, <2>1, <2>2, <2>3 DEF Start
<1>4. ASSUME NEW w \in Worker, Continue(w) \/ Crash(w)
      PROVE  Quiet
  <2>1. ASSUME \/ Save(w) \/ Sync(w) \/ RetryLock(w)
               \/ NotifyLock(w) \/ NotifyCommit(w) \/ Crash(w)
        PROVE  Quiet
    BY <2>1 DEF Save, Sync, RetryLock, NotifyLock, NotifyCommit, Crash
  <2> HIDE DEF Quiet
  <2> QED BY <1>2, <1>4, <2>1 DEF Continue
<1>5. ASSUME NEW k \in Radar, NEW to, ChangeRadar(k, to)
      PROVE  Quiet
  BY <1>5 DEF ChangeRadar
<1>6. ASSUME UNCHANGED vars PROVE Quiet
  BY <1>6 DEF vars
<1> HIDE DEF Quiet
<1>7. ASSUME Next PROVE Quiet
  BY <1>3, <1>4, <1>5, <1>6, <1>7 DEF Next, Rest
<1>8. Quiet
  BY <1>6, <1>7
<1> QED BY <1>8 DEF Quiet, Embedding

\* A step moves at most one session, and only certain actions lead to a cleaning or
\* an embedding, or out of an embedding.
LEMMA OneSessionMoves ==
  ASSUME IndInv, [Next]_vars
  PROVE  \/ UNCHANGED workers
         \/ \E w \in Worker :
              /\ \A v \in Worker \ {w} : workers'[v] = workers[v]
              /\ workers'[w].pc = "clean" => \E x \in RawItem : CleanRead(w, x)
              /\ workers'[w].pc = "embed" => \E c \in Content : EmbedRead(w, c)
              /\ workers[w].pc = "embed" => EmbedEnd(w) \/ Crash(w)
<1> DEFINE Moved(w) ==
             /\ \A v \in Worker \ {w} : workers'[v] = workers[v]
             /\ workers'[w].pc = "clean" => \E x \in RawItem : CleanRead(w, x)
             /\ workers'[w].pc = "embed" => \E c \in Content : EmbedRead(w, c)
             /\ workers[w].pc = "embed" => EmbedEnd(w) \/ Crash(w)
           Goal == UNCHANGED workers \/ \E w \in Worker : Moved(w)
<1>1. workers \in [Worker -> WorkerStates]
  BY DEF IndInv, TypeOK
<1>2. ASSUME NEW w \in Worker, NEW next, Step(w, next),
             next.pc = "clean" => \E x \in RawItem : CleanRead(w, x),
             next.pc = "embed" => \E c \in Content : EmbedRead(w, c),
             workers[w].pc = "embed" => EmbedEnd(w) \/ Crash(w)
      PROVE  Goal
  <2>1. workers'[w] = next /\ \A v \in Worker \ {w} : workers'[v] = workers[v]
    BY <1>1, <1>2 DEF Step
  <2>2. Moved(w)
    BY <1>2, <2>1
  <2> QED BY <2>2
<1>3. ASSUME UNCHANGED workers PROVE Goal
  BY <1>3
<1> HIDE DEF Goal
<1>4. ASSUME NEW w \in Worker, Step(w, Idle), workers[w].pc = "embed" => EmbedEnd(w) \/ Crash(w)
      PROVE  Goal
  BY <1>2, <1>4, IdleState
<1>5. ASSUME NEW w \in Worker, Continue(w) PROVE Goal
  <2>1. workers[w] \in WorkerStates
    BY <1>1
  <2>2. CASE Save(w)
    <3> DEFINE end(result) == [workers[w] EXCEPT !.pc = "saved", !.result = result]
               high(over) == [workers[w] EXCEPT !.pc = "saved", !.result = "completed",
                                                !.over = over]
    <3>1. /\ \A result : end(result).pc = "saved"
          /\ \A over : high(over).pc = "saved"
      BY <2>1 DEF WorkerStates
    <3>2. /\ workers[w].pc # "embed"
          /\ Step(w, end("failed")) \/ (\E over \in BOOLEAN : Step(w, high(over))) \/ Step(w, Idle)
      BY <2>2, Zenon DEF Save
    <3> HIDE DEF end, high
    <3> QED BY <1>2, <1>4, <3>1, <3>2
  <2>3. CASE Sync(w)
    <3> DEFINE next(verdict) == [workers[w] EXCEPT !.pc = "synced", !.verdict = verdict]
    <3>1. \A verdict : next(verdict).pc = "synced"
      BY <2>1 DEF WorkerStates
    <3>2. workers[w].pc # "embed" /\ \E verdict : Step(w, next(verdict))
      BY <2>3, Zenon DEF Sync
    <3> HIDE DEF next
    <3> QED BY <1>2, <3>1, <3>2
  <2>4. CASE NotifyLock(w)
    <3> DEFINE next(batch) == [workers[w] EXCEPT !.pc = "notify", !.batch = batch]
    <3>1. \A batch : next(batch).pc = "notify"
      BY <2>1 DEF WorkerStates
    <3>2. workers[w].pc # "embed" /\ \E batch : Step(w, next(batch))
      BY <2>4, Zenon DEF NotifyLock
    <3> HIDE DEF next
    <3> QED BY <1>2, <3>1, <3>2
  <2>5. CASE RetryLock(w)
    <3> DEFINE next == [workers[w] EXCEPT !.pc = "retry"]
    <3>1. next.pc = "retry"
      BY <2>1 DEF WorkerStates
    <3>2. workers[w].pc # "embed" /\ (Step(w, Idle) \/ Step(w, next))
      BY <2>5 DEF RetryLock
    <3> HIDE DEF next
    <3> QED BY <1>2, <1>4, <3>1, <3>2
  <2>6. CASE CleanCommit(w) \/ Settle(w) \/ RetryCommit(w) \/ EmbedEnd(w) \/ NotifyCommit(w)
    <3>1. Step(w, Idle) /\ (workers[w].pc = "embed" => EmbedEnd(w))
      BY <2>6 DEF CleanCommit, Settle, RetryCommit, EmbedEnd, NotifyCommit
    <3> QED BY <1>4, <3>1
  <2> QED BY <1>5, <2>2, <2>3, <2>4, <2>5, <2>6 DEF Continue
<1>6. ASSUME NEW w \in Worker, Start(w) PROVE Goal
  <2> DEFINE named(c) == [Idle EXCEPT !.pc = "embed", !.content = c]
             claiming(c, k) == [Idle EXCEPT !.pc = "provider", !.content = c, !.radar = k]
             asking(c, k, open) == [Idle EXCEPT !.pc = "asked", !.content = c, !.radar = k,
                                                !.reopened = open]
             telling(batch) == [Idle EXCEPT !.pc = "eligible", !.batch = batch]
             cleaning(x, batch, verdict) ==
               [Idle EXCEPT !.pc = "clean", !.item = x, !.content = ContentOf[x],
                            !.batch = batch, !.verdict = verdict]
  <2>1. /\ \A c : named(c).pc = "embed"
        /\ \A c, k : claiming(c, k).pc = "provider"
        /\ \A c, k, open : asking(c, k, open).pc = "asked"
        /\ \A batch : telling(batch).pc = "eligible"
        /\ \A x, batch, verdict : cleaning(x, batch, verdict).pc = "clean"
    BY DEF Idle
  <2>2. ASSUME NEW c \in Content, EmbedRead(w, c)
        PROVE  workers[w].pc # "embed" /\ (UNCHANGED workers \/ Step(w, named(c)))
    BY <2>2 DEF EmbedRead
  <2>3. ASSUME NEW c \in Content, NEW k \in Radar, Claim(w, c, k)
        PROVE  workers[w].pc # "embed" /\ Step(w, claiming(c, k))
    BY <2>3 DEF Claim
  <2>4. ASSUME NEW c \in Content, NEW k \in Radar, RetrySelect(w, c, k)
        PROVE  workers[w].pc # "embed" /\ \E open : Step(w, asking(c, k, open))
    BY <2>4, Zenon DEF RetrySelect
  <2>5. ASSUME NEW batch, NotifySelect(w, batch)
        PROVE  workers[w].pc # "embed" /\ Step(w, telling(batch))
    BY <2>5 DEF NotifySelect
  <2>6. ASSUME NEW x \in RawItem, CleanRead(w, x)
        PROVE  workers[w].pc # "embed" /\ \E batch, verdict : Step(w, cleaning(x, batch, verdict))
    BY <2>6, Zenon DEF CleanRead
  <2> HIDE DEF named, claiming, asking, telling, cleaning
  <2>7. ASSUME NEW c \in Content, EmbedRead(w, c) PROVE Goal
    BY <1>2, <1>3, <2>1, <2>2, <2>7
  <2>8. ASSUME NEW c \in Content, NEW k \in Radar, Claim(w, c, k) PROVE Goal
    BY <1>2, <2>1, <2>3, <2>8
  <2>9. ASSUME NEW c \in Content, NEW k \in Radar, RetrySelect(w, c, k) PROVE Goal
    BY <1>2, <2>1, <2>4, <2>9
  <2>10. ASSUME NEW batch, NotifySelect(w, batch) PROVE Goal
    BY <1>2, <2>1, <2>5, <2>10
  <2>11. ASSUME NEW x \in RawItem, CleanRead(w, x) PROVE Goal
    BY <1>2, <2>1, <2>6, <2>11
  <2>12. ASSUME NEW x \in RawItem, CleanRejects(w, x) PROVE Goal
    BY <1>3, <2>12 DEF CleanRejects
  <2> QED BY <1>6, <2>7, <2>8, <2>9, <2>10, <2>11, <2>12 DEF Start
<1>7. ASSUME NEW w \in Worker, Crash(w) PROVE Goal
  BY <1>4, <1>7 DEF Crash
<1>8. ASSUME NEW c \in Content, NEW k \in Radar, Recover(c, k) PROVE Goal
  BY <1>3, <1>8 DEF Recover
<1>9. ASSUME NEW k \in Radar, NEW to, ChangeRadar(k, to) PROVE Goal
  BY <1>3, <1>9 DEF ChangeRadar
<1>10. ASSUME UNCHANGED vars PROVE Goal
  BY <1>3, <1>10 DEF vars
<1>11. Goal
  BY <1>5, <1>6, <1>7, <1>8, <1>9, <1>10 DEF Next, Rest
<1> QED BY <1>11 DEF Goal

\* A settling session owns a running analysis under its own claim.
LEMMA SettleMoves ==
  ASSUME IndInv, NEW w \in Worker, Settle(w)
  PROVE  \E c \in Content, k \in Radar :
           /\ c = workers[w].content /\ k = workers[w].radar
           /\ analysis[c][k] = "running" /\ claimant[c][k] = w
           /\ workers[w].result \in {"completed", "failed"}
           /\ analysis' = [analysis EXCEPT ![c][k] = workers[w].result]
           /\ above' = IF workers[w].over THEN above \cup {<<c, k>>} ELSE above
BY DEF Settle, IndInv, WorkersRely, Relies

\* Whether a score is over the threshold is settled with the analysis. (run_analysis)
LEMMA OthersKeepScores ==
  ASSUME NEW w \in Worker,
         CleanCommit(w) \/ RetryCommit(w) \/ \E c \in Content, k \in Radar : Claim(w, c, k)
  PROVE  above' = above
BY DEF CleanCommit, RetryCommit, Claim

LEMMA CompletedStays ==
  ASSUME IndInv, [Next]_vars, NEW c \in Content, NEW k \in Radar,
         analysis[c][k] = "completed"
  PROVE  analysis'[c][k] = "completed" /\ ((<<c, k>> \in above) = (<<c, k>> \in above'))
<1>1. analysis \in [Content -> [Radar -> AnalysisStatuses]]
  BY DEF IndInv, TypeOK
<1>2. ASSUME NEW w \in Worker, CleanCommit(w)
      PROVE  analysis'[c][k] = "completed" /\ above' = above
  <2>1. \A l \in Radar : <<workers[w].content, l>> \in workers[w].batch =>
          analysis[workers[w].content][l] = "none"
    BY <1>2 DEF CleanCommit, IndInv, WorkersRely, Relies
  <2>2. analysis' = [analysis EXCEPT ![workers[w].content] =
                       [l \in Radar |-> IF <<workers[w].content, l>> \in workers[w].batch
                                        THEN "pending"
                                        ELSE analysis[workers[w].content][l]]]
    BY <1>2 DEF CleanCommit
  <2> QED BY <1>1, <1>2, <2>1, <2>2, OthersKeepScores
<1>3. ASSUME NEW w \in Worker, Settle(w)
      PROVE  analysis'[c][k] = "completed" /\ ((<<c, k>> \in above) = (<<c, k>> \in above'))
  <2>1. PICK b \in Content, l \in Radar :
          /\ analysis[b][l] = "running"
          /\ analysis' = [analysis EXCEPT ![b][l] = workers[w].result]
          /\ above' = IF workers[w].over THEN above \cup {<<b, l>>} ELSE above
    BY <1>3, SettleMoves
  <2>2. <<b, l>> # <<c, k>>
    BY <2>1
  <2>3. analysis'[c][k] = "completed"
    BY <1>1, <2>1, <2>2
  <2>4. (<<c, k>> \in above) = (<<c, k>> \in above')
    BY <2>1, <2>2
  <2> QED BY <2>3, <2>4
<1>4. ASSUME NEW w \in Worker, RetryCommit(w)
      PROVE  analysis'[c][k] = "completed" /\ above' = above
  <2>1. analysis' = [analysis EXCEPT ![workers[w].content][workers[w].radar] =
                       IF @ = "failed" THEN "pending" ELSE @]
    BY <1>4 DEF RetryCommit
  <2>2. analysis'[c][k] = "completed"
    BY <1>1, <2>1
  <2> QED BY <1>4, <2>2, OthersKeepScores
<1>5. ASSUME NEW w \in Worker, NEW b \in Content, NEW l \in Radar, Claim(w, b, l)
      PROVE  analysis'[c][k] = "completed" /\ above' = above
  BY <1>1, <1>5 DEF Claim
<1>6. ASSUME NEW b \in Content, NEW l \in Radar, Recover(b, l)
      PROVE  analysis'[c][k] = "completed" /\ above' = above
  BY <1>1, <1>6 DEF Recover
<1>7. CASE UNCHANGED <<analysis, above>>
  BY <1>7
<1> QED BY <1>2, <1>3, <1>4, <1>5, <1>6, <1>7, QuietActions

LEMMA ResultHasClaim ==
  ASSUME IndInv, [Next]_vars, NEW c \in Content, NEW k \in Radar,
         analysis[c][k] # analysis'[c][k], analysis'[c][k] \in {"completed", "failed"}
  PROVE  \E w \in Worker :
           /\ claimant[c][k] = w
           /\ workers[w].content = c /\ workers[w].radar = k
           /\ analysis'[c][k] = workers[w].result
<1>1. analysis \in [Content -> [Radar -> AnalysisStatuses]]
  BY DEF IndInv, TypeOK
<1>2. ASSUME NEW w \in Worker, CleanCommit(w) PROVE FALSE
  <2>1. analysis' = [analysis EXCEPT ![workers[w].content] =
                       [l \in Radar |-> IF <<workers[w].content, l>> \in workers[w].batch
                                        THEN "pending"
                                        ELSE analysis[workers[w].content][l]]]
    BY <1>2 DEF CleanCommit
  <2> QED BY <1>1, <2>1
<1>3. ASSUME NEW w \in Worker, RetryCommit(w) PROVE FALSE
  <2>1. analysis' = [analysis EXCEPT ![workers[w].content][workers[w].radar] =
                       IF @ = "failed" THEN "pending" ELSE @]
    BY <1>3 DEF RetryCommit
  <2> QED BY <1>1, <2>1
<1>4. ASSUME NEW w \in Worker, NEW b \in Content, NEW l \in Radar, Claim(w, b, l)
      PROVE  FALSE
  BY <1>1, <1>4 DEF Claim
<1>5. ASSUME NEW b \in Content, NEW l \in Radar, Recover(b, l) PROVE FALSE
  BY <1>1, <1>5 DEF Recover
<1>6. analysis' # analysis
  OBVIOUS
<1>7. PICK w \in Worker : Settle(w)
  BY <1>2, <1>3, <1>4, <1>5, <1>6, QuietActions
<1>8. PICK b \in Content, l \in Radar :
        /\ b = workers[w].content /\ l = workers[w].radar /\ claimant[b][l] = w
        /\ analysis' = [analysis EXCEPT ![b][l] = workers[w].result]
  BY <1>7, SettleMoves
<1>9. b = c /\ l = k /\ analysis'[c][k] = workers[w].result
  BY <1>1, <1>8
<1> QED BY <1>8, <1>9

\* A completed analysis keeps its content through any number of retries, recoveries
\* and late answers. (retry_analysis, recover_stale_analyses, _complete_analysis)
THEOREM CompletedAnalysisIsFinal == Spec => CompletedIsFinal
<1>1. IndInv /\ [Next]_vars =>
        [\A c \in Content, k \in Radar :
           analysis[c][k] = "completed" =>
             /\ analysis'[c][k] = "completed"
             /\ (<<c, k>> \in above) = (<<c, k>> \in above')]_vars
  BY CompletedStays
<1> QED BY <1>1, Inductive, PTL DEF Spec, CompletedIsFinal

\* A result is always the latest claimant's. (_claim_analysis, _complete_analysis)
THEOREM ResultHasItsClaimant == Spec => ResultIsClaimants
<1>1. IndInv /\ [Next]_vars =>
        [\A c \in Content, k \in Radar :
           analysis[c][k] # analysis'[c][k] /\ analysis'[c][k] \in {"completed", "failed"} =>
             \E w \in Worker :
               /\ claimant[c][k] = w
               /\ workers[w].content = c /\ workers[w].radar = k
               /\ analysis'[c][k] = workers[w].result]_vars
  BY ResultHasClaim
<1> QED BY <1>1, Inductive, PTL DEF Spec, ResultIsClaimants

--------------------------------------------------------------------------------
(* What the statuses would say if none were written from a stale object.      *)

\* A document is analyzing exactly as long as an analysis of it is open, and waits
\* for its embedding or is ready only if that is what its analyses call for.
StatusAgrees ==
  \A c \in Content :
    /\ (document[c] = "analyzing") <=> (Found(c) \cap Open # {})
    /\ document[c] \in {"embedding", "ready"} => Verdict(Found(c)) = "embedding"

\* The status a session has loaded before it asks the model or waits for a lock is
\* still the document's when it writes.
Fresh ==
  \A w \in Worker :
    /\ EmbedEnd(w) => document[workers[w].content] = "embedding"
    /\ RetryCommit(w) /\ workers[w].reopened => document[workers[w].content] = "analyzing"

NoStaleWrites == [][Fresh]_vars

LEMMA ResyncAgrees ==
  ASSUME IndInv, StatusAgrees, NEW c \in Content, Resyncs(c)
  PROVE  StatusAgrees'
<1>1. PICK S : S = Found(c)'
  OBVIOUS
<1>2. document' = [document EXCEPT ![c] = Verdict(S)]
  BY <1>1 DEF Resyncs
<1>3. /\ document'[c] = Verdict(S)
      /\ \A b \in Content \ {c} : document'[b] = document[b]
  BY <1>2 DEF IndInv, TypeOK
<1>4. ASSUME NEW b \in Content, NEW F, F = Found(b)'
      PROVE  /\ (document'[b] = "analyzing") <=> (F \cap Open # {})
             /\ document'[b] \in {"embedding", "ready"} => Verdict(F) = "embedding"
  <2>1. CASE b = c
    <3>1. document'[b] = Verdict(F)
      BY <1>1, <1>3, <1>4, <2>1
    <3> QED BY <3>1, VerdictAgrees
  <2>2. CASE b # c
    <3>1. F = Found(b)
      BY <1>4, <2>2 DEF Resyncs, Found
    <3> QED BY <1>3, <2>2, <3>1 DEF StatusAgrees
  <2> QED BY <2>1, <2>2
<1> QED BY <1>4 DEF StatusAgrees

\* An analysis that is open after the step, of a document that is analyzing then.
LEMMA OpeningAgrees ==
  ASSUME IndInv, StatusAgrees, NEW c \in Content, NEW k \in Radar, NEW to \in Open,
         analysis' = [analysis EXCEPT ![c][k] = to],
         document' = [document EXCEPT ![c] = "analyzing"]
  PROVE  StatusAgrees'
<1>1. /\ analysis'[c][k] = to
      /\ \A b \in Content \ {c} : analysis'[b] = analysis[b]
  BY DEF IndInv, TypeOK
<1>2. PICK S : S = Found(c)'
  OBVIOUS
<1>3. to \in S
  BY <1>1, <1>2 DEF Found
<1>4. Verdict(S) = "analyzing"
  BY <1>3 DEF Verdict
<1>5. Resyncs(c)
  BY <1>1, <1>2, <1>4 DEF Resyncs
<1> QED BY <1>5, ResyncAgrees

LEMMA OpenStays ==
  ASSUME IndInv, StatusAgrees, NEW c \in Content, NEW k \in Radar,
         analysis[c][k] \in Open, NEW to \in Open,
         analysis' = [analysis EXCEPT ![c][k] = to], UNCHANGED document
  PROVE  StatusAgrees'
<1>1. analysis[c][k] \in Found(c)
  BY DEF Found
<1>2. document[c] = "analyzing"
  BY <1>1 DEF StatusAgrees
<1>3. document' = [document EXCEPT ![c] = "analyzing"]
  BY <1>2 DEF IndInv, TypeOK
<1> QED BY <1>3, OpeningAgrees

LEMMA FreshRetryAgrees ==
  ASSUME IndInv, StatusAgrees, Fresh, NEW w \in Worker, RetryCommit(w)
  PROVE  StatusAgrees'
<1>1. PICK c \in Content, k \in Radar, to \in Open :
        /\ c = workers[w].content
        /\ analysis' = [analysis EXCEPT ![c][k] = to]
        /\ document' = IF workers[w].reopened THEN document
                       ELSE [document EXCEPT ![c] = "analyzing"]
  BY RetryCommitOpens
<1>2. document' = [document EXCEPT ![c] = "analyzing"]
  <2>1. CASE workers[w].reopened
    <3>1. document[c] = "analyzing"
      BY <1>1, <2>1 DEF Fresh
    <3> QED BY <1>1, <2>1, <3>1 DEF IndInv, TypeOK
  <2> QED BY <1>1, <2>1
<1> QED BY <1>1, <1>2, OpeningAgrees

\* An embedding that is due ends, or is found to be done.
LEMMA FreshEmbeddingAgrees ==
  ASSUME IndInv, StatusAgrees, UNCHANGED analysis,
         NEW c \in Content, document[c] = "embedding",
         \E to \in {"ready", "failed"} : document' = [document EXCEPT ![c] = to]
  PROVE  StatusAgrees'
<1>1. /\ document'[c] \in {"ready", "failed"}
      /\ \A b \in Content \ {c} : document'[b] = document[b]
  BY DEF IndInv, TypeOK
<1>2. \A b \in Content : Found(b)' = Found(b)
  BY DEF Found
<1>3. ASSUME NEW b \in Content, NEW F, F = Found(b)
      PROVE  /\ (document'[b] = "analyzing") <=> (F \cap Open # {})
             /\ document'[b] \in {"embedding", "ready"} => Verdict(F) = "embedding"
  BY <1>1, <1>3 DEF StatusAgrees
<1> QED BY <1>2, <1>3 DEF StatusAgrees

\* If no session wrote a document's status from the object it had loaded before it
\* asked the model or waited for a lock, every status would always be the one the
\* analyses call for: the stale objects are the only way to a document that is not
\* analyzing although an analysis of it is open. (run_embedding, retry_analysis)
THEOREM FreshStatusAgrees == Spec /\ NoStaleWrites => []StatusAgrees
<1>1. Init => StatusAgrees
  BY DEF Init, StatusAgrees, Found, Open
<1>2. IndInv /\ StatusAgrees /\ [Next]_vars /\ [Fresh]_vars => StatusAgrees'
  <2> SUFFICES ASSUME IndInv, StatusAgrees, [Next]_vars, [Fresh]_vars
               PROVE  StatusAgrees'
    OBVIOUS
  <2>1. CASE UNCHANGED <<analysis, document>>
    <3>1. \A c \in Content : Found(c)' = Found(c)
      BY <2>1 DEF Found
    <3> QED BY <2>1, <3>1 DEF StatusAgrees
  <2>2. CASE ~UNCHANGED <<analysis, document>>
    <3>1. Fresh
      BY <2>2 DEF vars
    <3>2. ASSUME NEW w \in Worker, CleanCommit(w) \/ Settle(w)
          PROVE  StatusAgrees'
      BY <3>2, CleanCommitResyncs, SettleResyncs, ResyncAgrees
    <3>3. ASSUME NEW w \in Worker, RetryCommit(w)
          PROVE  StatusAgrees'
      BY <3>1, <3>3, FreshRetryAgrees
    <3>4. ASSUME NEW w \in Worker, NEW c \in Content, NEW k \in Radar, Claim(w, c, k)
          PROVE  StatusAgrees'
      BY <3>4, OpenStays DEF Claim, Open
    <3>5. ASSUME NEW c \in Content, NEW k \in Radar, Recover(c, k)
          PROVE  StatusAgrees'
      BY <3>5, OpenStays DEF Recover, Open
    <3>6. ASSUME UNCHANGED analysis, NEW w \in Worker, EmbedEnd(w)
          PROVE  StatusAgrees'
      <4>1. workers[w].pc = "embed" /\ Relies(w, workers[w])
        BY <3>6 DEF EmbedEnd, IndInv, WorkersRely
      <4>2. PICK c \in Content : c = workers[w].content
        BY <4>1 DEF Relies
      <4>3. /\ document[c] = "embedding"
            /\ \E to \in {"ready", "failed"} : document' = [document EXCEPT ![c] = to]
        BY <3>1, <3>6, <4>2 DEF Fresh, EmbedEnd
      <4> QED BY <3>6, <4>3, FreshEmbeddingAgrees
    <3>7. ASSUME UNCHANGED analysis, NEW w \in Worker, NEW c \in Content, EmbedRead(w, c)
          PROVE  StatusAgrees'
      <4>1. /\ document[c] = "embedding"
            /\ document' = [document EXCEPT ![c] = "ready"]
        BY <2>2, <3>7 DEF EmbedRead
      <4> QED BY <3>7, <4>1, FreshEmbeddingAgrees
    <3> QED BY <2>2, <3>2, <3>3, <3>4, <3>5, <3>6, <3>7, QuietActions
  <2> QED BY <2>1, <2>2
<1> QED BY <1>1, <1>2, Inductive, PTL DEF Spec, NoStaleWrites

--------------------------------------------------------------------------------
(* The contract.                                                              *)

LEMMA SameVerdict == ASSUME NEW S PROVE Contract!Verdict(S) = Verdict(S)
BY DEF Verdict, Contract!Verdict, Open, Contract!Open

LEMMA ResyncsAsPromised ==
  ASSUME NEW c \in Content, Resyncs(c)
  PROVE  Contract!Resynced(c)
<1>1. PICK S : S = Found(c)' /\ S = Contract!StatusesOf(c)'
  BY DEF Found, Contract!StatusesOf
<1>2. Contract!Verdict(S) = Verdict(S)
  BY SameVerdict
<1>3. document' = [document EXCEPT ![c] = Contract!Verdict(S)]
  BY <1>1, <1>2 DEF Resyncs
<1> QED BY <1>1, <1>3, SameVerdict DEF Contract!Resynced

\* The contents that are being embedded, as the contract sees them.
Embedded == {workers[w].content : w \in {v \in Worker : workers[v].pc = "embed"}}

\* The advisory lock of a document has one holder.
OneEmbedder ==
  \A v, w \in Worker :
    /\ workers[v].pc = "embed" /\ workers[w].pc = "embed"
    /\ workers[v].content = workers[w].content
    => v = w

\* The steps that neither begin nor end an embedding.
LEMMA EmbeddersUntouched ==
  ASSUME IndInv, [Next]_vars,
         ~\E w \in Worker : EmbedEnd(w) \/ Crash(w) \/ \E c \in Content : EmbedRead(w, c)
  PROVE  /\ \A v \in Worker : workers'[v].pc = "embed" <=> workers[v].pc = "embed"
         /\ \A v \in Worker : workers[v].pc = "embed" => workers'[v] = workers[v]
<1>1. CASE UNCHANGED workers
  BY <1>1
<1>2. ASSUME NEW w \in Worker,
             \A v \in Worker \ {w} : workers'[v] = workers[v],
             workers'[w].pc # "embed", workers[w].pc # "embed"
      PROVE  /\ \A v \in Worker : workers'[v].pc = "embed" <=> workers[v].pc = "embed"
             /\ \A v \in Worker : workers[v].pc = "embed" => workers'[v] = workers[v]
  BY <1>2
<1> QED BY <1>1, <1>2, OneSessionMoves

LEMMA EmbeddedStays ==
  ASSUME \A v \in Worker : workers'[v].pc = "embed" <=> workers[v].pc = "embed",
         \A v \in Worker : workers[v].pc = "embed" => workers'[v] = workers[v]
  PROVE  Embedded' = Embedded
BY DEF Embedded

\* A session begins to embed a content nobody else embeds.
LEMMA EmbedReadBegins ==
  ASSUME IndInv, OneEmbedder, NEW w \in Worker, NEW c \in Content, EmbedRead(w, c)
  PROVE  /\ OneEmbedder' /\ UNCHANGED analysis
         /\ document[c] = "embedding"
         /\ \/ document' = [document EXCEPT ![c] = "ready"] /\ Embedded' = Embedded
            \/ UNCHANGED document /\ c \notin Embedded /\ Embedded' = Embedded \cup {c}
<1>1. CASE c \in chunks
  BY <1>1 DEF EmbedRead, OneEmbedder, Embedded
<1>2. CASE c \notin chunks
  <2> DEFINE next == [Idle EXCEPT !.pc = "embed", !.content = c]
  <2>1. Step(w, next) /\ next.pc = "embed" /\ next.content = c
    BY <1>2, IdleState DEF EmbedRead, Idle
  <2> HIDE DEF next
  <2>2. /\ workers'[w].pc = "embed" /\ workers'[w].content = c
        /\ \A v \in Worker \ {w} : workers'[v] = workers[v]
    BY <2>1 DEF Step, IndInv, TypeOK
  <2>3. /\ workers[w].pc = "idle"
        /\ \A v \in Worker : ~(workers[v].pc = "embed" /\ workers[v].content = c)
        /\ document[c] = "embedding" /\ UNCHANGED <<document, analysis>>
    BY <1>2 DEF EmbedRead
  <2>4. OneEmbedder'
    BY <2>2, <2>3 DEF OneEmbedder
  <2>5. c \notin Embedded
    BY <2>3 DEF Embedded
  <2>6. Embedded' = Embedded \cup {c}
    BY <2>2, <2>3 DEF Embedded
  <2> QED BY <2>3, <2>4, <2>5, <2>6
<1> QED BY <1>1, <1>2

\* An embedding is left by the only session that was at it.
LEMMA EmbeddingIsLeft ==
  ASSUME IndInv, OneEmbedder, NEW w \in Worker, Step(w, Idle)
  PROVE  /\ OneEmbedder'
         /\ workers[w].pc = "embed" =>
              workers[w].content \in Embedded /\ Embedded' = Embedded \ {workers[w].content}
         /\ workers[w].pc # "embed" => Embedded' = Embedded
<1>1. workers'[w].pc = "idle" /\ \A v \in Worker \ {w} : workers'[v] = workers[v]
  BY IdleState DEF Step, IndInv, TypeOK
<1>2. OneEmbedder'
  BY <1>1 DEF OneEmbedder
<1>3. CASE workers[w].pc = "embed"
  <2>1. workers[w].content \in Embedded
    BY <1>3 DEF Embedded
  <2>2. \A v \in Worker \ {w} : workers[v].pc = "embed" => workers[v].content # workers[w].content
    BY <1>3 DEF OneEmbedder
  <2>3. Embedded' = Embedded \ {workers[w].content}
    BY <1>1, <1>3, <2>2 DEF Embedded
  <2> QED BY <1>2, <1>3, <2>1, <2>3
<1>4. CASE workers[w].pc # "embed"
  BY <1>1, <1>2, <1>4 DEF Embedded
<1> QED BY <1>3, <1>4

LEMMA OneEmbedderKept ==
  ASSUME IndInv, OneEmbedder, [Next]_vars
  PROVE  OneEmbedder'
<1>1. ASSUME NEW w \in Worker, EmbedEnd(w) \/ Crash(w) PROVE OneEmbedder'
  <2>1. Step(w, Idle)
    BY <1>1 DEF EmbedEnd, Crash
  <2> QED BY <2>1, EmbeddingIsLeft
<1>2. ASSUME NEW w \in Worker, NEW c \in Content, EmbedRead(w, c) PROVE OneEmbedder'
  BY <1>2, EmbedReadBegins
<1>3. CASE ~\E w \in Worker : EmbedEnd(w) \/ Crash(w) \/ \E c \in Content : EmbedRead(w, c)
  BY <1>3, EmbeddersUntouched DEF OneEmbedder
<1> QED BY <1>1, <1>2, <1>3

\* The steps of an embedding.
LEMMA EmbeddingAsPromised ==
  ASSUME IndInv, OneEmbedder, NEW w \in Worker,
         EmbedEnd(w) \/ Crash(w) \/ \E c \in Content : EmbedRead(w, c)
  PROVE  Contract!Next \/ UNCHANGED <<document, analysis, Embedded>>
<1>1. ASSUME EmbedEnd(w) PROVE Contract!Next
  <2>1. PICK c \in Content : c = workers[w].content
    BY <1>1 DEF EmbedEnd, IndInv, WorkersRely, Relies
  <2>2. /\ workers[w].pc = "embed" /\ Step(w, Idle) /\ UNCHANGED analysis
        /\ \E to \in {"ready", "failed"} : document' = [document EXCEPT ![c] = to]
    BY <1>1, <2>1 DEF EmbedEnd
  <2>3. c \in Embedded /\ Embedded' = Embedded \ {c}
    BY <2>1, <2>2, EmbeddingIsLeft
  <2>4. Contract!EndEmbedding(c)
    BY <2>2, <2>3 DEF Contract!EndEmbedding, Embedded
  <2> QED BY <2>4 DEF Contract!Next
<1>2. ASSUME Crash(w) PROVE Contract!Next \/ UNCHANGED <<document, analysis, Embedded>>
  <2>1. Step(w, Idle) /\ UNCHANGED <<document, analysis>>
    BY <1>2 DEF Crash
  <2>2. CASE workers[w].pc # "embed"
    BY <2>1, <2>2, EmbeddingIsLeft
  <2>3. CASE workers[w].pc = "embed"
    <3>1. PICK c \in Content : c = workers[w].content
      BY <2>3 DEF IndInv, WorkersRely, Relies
    <3>2. c \in Embedded /\ Embedded' = Embedded \ {c}
      BY <2>1, <2>3, <3>1, EmbeddingIsLeft
    <3>3. Contract!AbandonEmbedding(c)
      BY <2>1, <3>2 DEF Contract!AbandonEmbedding, Embedded
    <3> QED BY <3>3 DEF Contract!Next
  <2> QED BY <2>2, <2>3
<1>3. ASSUME NEW c \in Content, EmbedRead(w, c) PROVE Contract!Next
  <2>1. CASE document' = [document EXCEPT ![c] = "ready"] /\ Embedded' = Embedded
    <3>1. Contract!Reuse(c)
      BY <1>3, <2>1, EmbedReadBegins DEF Contract!Reuse, Embedded
    <3> QED BY <3>1 DEF Contract!Next
  <2>2. CASE UNCHANGED document /\ c \notin Embedded /\ Embedded' = Embedded \cup {c}
    <3>1. Contract!BeginEmbedding(c)
      BY <1>3, <2>2, EmbedReadBegins DEF Contract!BeginEmbedding, Embedded
    <3> QED BY <3>1 DEF Contract!Next
  <2> QED BY <1>3, <2>1, <2>2, EmbedReadBegins
<1> QED BY <1>1, <1>2, <1>3

LEMMA ContractStep ==
  ASSUME IndInv, OneEmbedder, [Next]_vars
  PROVE  [Contract!Next]_Contract!vars
<1> DEFINE Embeds == \E w \in Worker :
             EmbedEnd(w) \/ Crash(w) \/ \E c \in Content : EmbedRead(w, c)
<1>1. CASE Embeds
  BY <1>1, EmbeddingAsPromised DEF Contract!vars, Embedded
<1>2. CASE ~Embeds
  <2>1. Embedded' = Embedded
    BY <1>2, EmbeddersUntouched, EmbeddedStays
  <2> HIDE DEF Embeds
  <2>2. ASSUME NEW w \in Worker, CleanCommit(w) PROVE Contract!Next
    <3>1. PICK c \in Content : c = workers[w].content
      BY <2>2, CleanCommitResyncs
    <3>2. PICK ks \in SUBSET Radar : ks = {k \in Radar : <<c, k>> \in workers[w].batch}
      OBVIOUS
    <3>3. \A k \in ks : analysis[c][k] = "none"
      <4>1. workers[w].pc = "clean" /\ Relies(w, workers[w])
        BY <2>2 DEF CleanCommit, IndInv, WorkersRely
      <4> QED BY <3>1, <3>2, <4>1 DEF Relies
    <3>4. analysis' = [analysis EXCEPT ![c] =
                         [k \in Radar |-> IF <<c, k>> \in workers[w].batch
                                          THEN "pending" ELSE analysis[c][k]]]
      BY <2>2, <3>1 DEF CleanCommit
    <3>5. analysis' = [analysis EXCEPT ![c] =
                         [k \in Radar |-> IF k \in ks /\ analysis[c][k] = "none"
                                          THEN "pending" ELSE analysis[c][k]]]
      BY <3>2, <3>3, <3>4
    <3>6. Contract!Resynced(c)
      BY <2>2, <3>1, CleanCommitResyncs, ResyncsAsPromised
    <3>7. Contract!Arrive(c, ks)
      BY <2>1, <3>5, <3>6 DEF Contract!Arrive, Embedded
    <3> QED BY <3>7 DEF Contract!Next
  <2>3. ASSUME NEW w \in Worker, NEW c \in Content, NEW k \in Radar, Claim(w, c, k)
        PROVE  Contract!Next
    <3>1. Contract!Move(c, k, "pending", "running")
      BY <2>1, <2>3 DEF Claim, Contract!Move, Embedded
    <3> QED BY <3>1 DEF Contract!Next
  <2>4. ASSUME NEW c \in Content, NEW k \in Radar, Recover(c, k) PROVE Contract!Next
    <3>1. Contract!Move(c, k, "running", "pending")
      BY <2>1, <2>4 DEF Recover, Contract!Move, Embedded
    <3> QED BY <3>1 DEF Contract!Next
  <2>5. ASSUME NEW w \in Worker, Settle(w) PROVE Contract!Next
    <3>1. PICK c \in Content, k \in Radar :
            /\ c = workers[w].content /\ analysis[c][k] = "running"
            /\ workers[w].result \in {"completed", "failed"}
            /\ analysis' = [analysis EXCEPT ![c][k] = workers[w].result]
      BY <2>5, SettleMoves
    <3>2. Contract!Resynced(c)
      BY <2>5, <3>1, SettleResyncs, ResyncsAsPromised
    <3>3. Contract!Finish(c, k, workers[w].result)
      BY <2>1, <3>1, <3>2 DEF Contract!Finish, Embedded
    <3> QED BY <3>1, <3>3 DEF Contract!Next
  <2>6. ASSUME NEW w \in Worker, RetryCommit(w) PROVE Contract!Next
    <3>1. PICK c \in Content, k \in Radar, to \in Open :
            /\ analysis[c][k] \in {"pending", "running", "failed"}
            /\ to = IF analysis[c][k] = "failed" THEN "pending" ELSE analysis[c][k]
            /\ analysis' = [analysis EXCEPT ![c][k] = to]
            /\ document' = IF workers[w].reopened THEN document
                           ELSE [document EXCEPT ![c] = "analyzing"]
      BY <2>6, RetryCommitOpens
    <3>2. Contract!Retry(c, k)
      BY <2>1, <3>1 DEF Contract!Retry, Contract!Open, Embedded
    <3> QED BY <3>2 DEF Contract!Next
  <2>7. CASE UNCHANGED <<document, analysis>>
    BY <2>1, <2>7 DEF Contract!vars, Embedded
  <2> QED BY <1>2, <2>2, <2>3, <2>4, <2>5, <2>6, <2>7, QuietActions DEF Embeds
<1> QED BY <1>1, <1>2

\* Reading statuses under the lock of a document and committing later amounts to
\* changing an analysis and its document at once; what departs from the status the
\* analyses call for is a retry, or the end of an embedding that was begun.
\* (clean_raw_item, _sync_document, retry_analysis, run_embedding)
THEOREM PipelineImplementsContract == Spec => ContractSpec
<1>1. Init => Contract!Init
  BY IdleState DEF Init, Contract!Init
<1>2. IndInv /\ OneEmbedder /\ [Next]_vars => [Contract!Next]_Contract!vars
  BY ContractStep
<1>3. Init => OneEmbedder
  BY IdleState DEF Init, OneEmbedder
<1>4. IndInv /\ OneEmbedder /\ [Next]_vars => OneEmbedder'
  BY OneEmbedderKept
<1> QED BY <1>1, <1>2, <1>3, <1>4, Inductive, PTL DEF Spec, ContractSpec, Contract!Spec

--------------------------------------------------------------------------------
(* No session waits in a circle.                                              *)

\* Session v has locked what session w waits for: the row of an analysis, or a
\* document. The other steps wait for nothing or skip what is locked.
Blocks(v, w) ==
  /\ v # w
  /\ \/ /\ workers[w].pc \in {"provider", "asked"}
        /\ <<workers[w].content, workers[w].radar>> \in Rows(v)
     \/ /\ workers[w].pc \in {"saved", "retry", "embed"}
        /\ LocksDocument(workers[v], workers[w].content)

\* A session under way that waits for nobody.
Moves(w) == workers[w].pc # "idle" /\ \A v \in Worker : ~Blocks(v, w)

\* A session under way goes on, or waits for one that goes on, or for one that
\* waits for one that goes on.
ChainsEnd ==
  \A w \in Worker : workers[w].pc # "idle" =>
    \/ Moves(w)
    \/ \E v \in Worker : Blocks(v, w) /\ Moves(v)
    \/ \E v, u \in Worker : Blocks(v, w) /\ Blocks(u, v) /\ Moves(u)

\* Moves is what the actions ask of the locks: a session that takes a step of its
\* own waits for nobody, and the locks of one that waits for nobody are free.
LEMMA MovesAreUnblocked ==
  ASSUME NEW w \in Worker
  PROVE  /\ Continue(w) => Moves(w)
         /\ Moves(w) =>
              /\ workers[w].pc \in {"provider", "asked"} =>
                   RowFree(w, <<workers[w].content, workers[w].radar>>)
              /\ workers[w].pc \in {"saved", "retry", "embed"} =>
                   DocumentFree(w, workers[w].content)
<1>1. ASSUME Continue(w) PROVE Moves(w)
  <2>1. CASE CleanCommit(w) \/ Settle(w)
    BY <2>1 DEF CleanCommit, Settle, Moves, Blocks
  <2>2. CASE NotifyLock(w) \/ NotifyCommit(w)
    BY <2>2 DEF NotifyLock, NotifyCommit, Moves, Blocks
  <2>3. CASE Save(w) \/ RetryLock(w)
    <3>1. /\ workers[w].pc \in {"provider", "asked"}
          /\ RowFree(w, <<workers[w].content, workers[w].radar>>)
      BY <2>3 DEF Save, RetryLock
    <3> QED BY <3>1 DEF Moves, Blocks, RowFree
  <2>4. CASE Sync(w) \/ RetryCommit(w) \/ EmbedEnd(w)
    <3>1. /\ workers[w].pc \in {"saved", "retry", "embed"}
          /\ DocumentFree(w, workers[w].content)
      BY <2>4 DEF Sync, RetryCommit, EmbedEnd
    <3> QED BY <3>1 DEF Moves, Blocks, DocumentFree, LocksDocument
  <2> QED BY <1>1, <2>1, <2>2, <2>3, <2>4 DEF Continue
<1>2. ASSUME Moves(w)
      PROVE  /\ workers[w].pc \in {"provider", "asked"} =>
                  RowFree(w, <<workers[w].content, workers[w].radar>>)
             /\ workers[w].pc \in {"saved", "retry", "embed"} =>
                  DocumentFree(w, workers[w].content)
  BY <1>2 DEF Moves, Blocks, RowFree, DocumentFree, LocksDocument
<1> QED BY <1>1, <1>2

\* However many sessions clean, analyse, retry and embed the same documents, they
\* lock analyses before documents and wait for nothing with a document locked:
\* no set of them waits for one another, and no session is more than two others
\* away from one that can go on. (_complete_analysis, _sync_document,
\* retry_analysis, clean_raw_item, run_embedding)
THEOREM SessionsNeverDeadlock == Spec => []ChainsEnd
<1>1. ASSUME NEW u \in Worker, workers[u].pc \in {"clean", "synced", "eligible", "notify"}
      PROVE  Moves(u)
  BY <1>1 DEF Moves, Blocks
<1>2. ASSUME NEW w \in Worker, workers[w].pc \in {"saved", "retry", "embed"}
      PROVE  Moves(w) \/ \E u \in Worker : Blocks(u, w) /\ Moves(u)
  <2>1. ASSUME NEW u \in Worker, Blocks(u, w) PROVE Moves(u)
    BY <1>1, <1>2, <2>1 DEF Blocks, LocksDocument
  <2> QED BY <1>2, <2>1 DEF Moves
<1>3. ASSUME NEW w \in Worker, workers[w].pc \in {"provider", "asked"}, ~Moves(w)
      PROVE  \E v \in Worker : Blocks(v, w) /\ (Moves(v) \/ \E u \in Worker : Blocks(u, v) /\ Moves(u))
  <2>1. PICK v \in Worker : Blocks(v, w)
    BY <1>3 DEF Moves
  <2>2. workers[v].pc \in {"saved", "synced", "retry", "notify"}
    BY <1>3, <2>1 DEF Blocks, Rows
  <2> QED BY <1>1, <1>2, <2>1, <2>2
<1>4. TypeOK => ChainsEnd
  <2> SUFFICES ASSUME TypeOK, NEW w \in Worker, workers[w].pc # "idle"
               PROVE  \/ Moves(w)
                      \/ \E v \in Worker : Blocks(v, w) /\ Moves(v)
                      \/ \E v, u \in Worker : Blocks(v, w) /\ Blocks(u, v) /\ Moves(u)
    BY DEF ChainsEnd
  <2>1. workers[w].pc \in Pcs
    BY DEF TypeOK, WorkerStates
  <2> QED BY <1>1, <1>2, <1>3, <2>1 DEF Pcs
<1> QED BY <1>4, DocumentsTypeCorrect, PTL

--------------------------------------------------------------------------------
(* Deduplication.                                                             *)

\* The raw items of a content that count as its original.
Originals(rw, c) == {x \in RawItem : ContentOf[x] = c /\ rw[x] = "cleaned"}

\* Raw items and documents with these statuses fit: a document was made of one
\* original, and every raw item that was cleaned has a document.
Fit(rw, doc) ==
  /\ \A c \in Content : doc[c] # "none" => \E x \in RawItem : Originals(rw, c) = {x}
  /\ \A x \in RawItem : rw[x] \in {"cleaned", "duplicate"} => doc[ContentOf[x]] # "none"

Deduplicated == Fit(raw, document)

\* A session that cleans a raw item has the content of that item locked, and
\* nobody else has touched the item.
Cleans(x) ==
  x.pc = "clean" => raw[x.item] = "fetched" /\ ContentOf[x.item] = x.content

CleanersHold == \A w \in Worker : Cleans(workers[w])

\* A document that is being embedded is there.
EmbedsKnown == \A w \in Worker : workers[w].pc = "embed" => document[workers[w].content] # "none"

\* Only a cleaning that commits makes a document, and nothing takes one away.
LEMMA DocumentsStay ==
  ASSUME IndInv, EmbedsKnown, [Next]_vars, ~\E w \in Worker : CleanCommit(w), NEW c \in Content
  PROVE  document'[c] = "none" <=> document[c] = "none"
<1>1. document \in [Content -> DocumentStatuses]
  BY DEF IndInv, TypeOK
<1>2. ASSUME NEW b \in Content, NEW k \in Radar, analysis[b][k] # "none",
             NEW to, to # "none", document' = [document EXCEPT ![b] = to]
      PROVE  document'[c] = "none" <=> document[c] = "none"
  <2>1. document[b] = "none" => {analysis[b][l] : l \in Radar} \subseteq {"none"}
    BY DEF IndInv, StatusSupported
  <2> QED BY <1>1, <1>2, <2>1
<1>3. ASSUME NEW w \in Worker, Settle(w)
      PROVE  document'[c] = "none" <=> document[c] = "none"
  <2>1. workers[w].pc = "synced" /\ Relies(w, workers[w])
    BY <1>3 DEF Settle, IndInv, WorkersRely
  <2>2. /\ workers[w].content \in Content /\ workers[w].radar \in Radar
        /\ analysis[workers[w].content][workers[w].radar] # "none"
        /\ workers[w].verdict = Verdict({Due(workers[w], l) : l \in Radar})
    BY <2>1 DEF Relies
  <2>3. document' = [document EXCEPT ![workers[w].content] = workers[w].verdict]
    BY <1>3 DEF Settle
  <2>4. workers[w].verdict # "none"
    BY <2>2, VerdictAgrees
  <2> QED BY <1>2, <2>2, <2>3, <2>4
<1>4. ASSUME UNCHANGED document PROVE document'[c] = "none" <=> document[c] = "none"
  BY <1>4
<1>5. ASSUME NEW w \in Worker, RetryCommit(w)
      PROVE  document'[c] = "none" <=> document[c] = "none"
  <2>1. workers[w].pc = "retry" /\ Relies(w, workers[w])
    BY <1>5 DEF RetryCommit, IndInv, WorkersRely
  <2>2. /\ workers[w].content \in Content /\ workers[w].radar \in Radar
        /\ analysis[workers[w].content][workers[w].radar] # "none"
    BY <2>1 DEF Relies
  <2>3. UNCHANGED document \/ document' = [document EXCEPT ![workers[w].content] = "analyzing"]
    BY <1>5 DEF RetryCommit
  <2> QED BY <1>2, <1>4, <2>2, <2>3
<1>6. ASSUME NEW b \in Content, document[b] # "none", NEW to \in {"ready", "failed"},
             document' = [document EXCEPT ![b] = to]
      PROVE  document'[c] = "none" <=> document[c] = "none"
  BY <1>1, <1>6
<1>7. ASSUME NEW w \in Worker, EmbedEnd(w)
      PROVE  document'[c] = "none" <=> document[c] = "none"
  <2>1. /\ workers[w].content \in Content
        /\ document[workers[w].content] # "none"
    BY <1>7 DEF EmbedEnd, EmbedsKnown, IndInv, WorkersRely, Relies
  <2>2. \E to \in {"ready", "failed"} : document' = [document EXCEPT ![workers[w].content] = to]
    BY <1>7 DEF EmbedEnd
  <2> QED BY <1>6, <2>1, <2>2
<1>8. ASSUME NEW w \in Worker, NEW b \in Content, EmbedRead(w, b)
      PROVE  document'[c] = "none" <=> document[c] = "none"
  <2>1. /\ document[b] = "embedding"
        /\ UNCHANGED document \/ document' = [document EXCEPT ![b] = "ready"]
    BY <1>8 DEF EmbedRead
  <2> QED BY <1>4, <1>6, <2>1
<1>9. ASSUME NEW w \in Worker, NEW b \in Content, NEW k \in Radar, Claim(w, b, k)
      PROVE  UNCHANGED document
  BY <1>9 DEF Claim
<1>10. ASSUME NEW b \in Content, NEW k \in Radar, Recover(b, k) PROVE UNCHANGED document
  BY <1>10 DEF Recover
<1> QED BY <1>3, <1>4, <1>5, <1>7, <1>8, <1>9, <1>10, QuietActions

\* An embedding begins on a document, and documents stay.
LEMMA EmbedsKnownKept ==
  ASSUME IndInv, EmbedsKnown, [Next]_vars
  PROVE  EmbedsKnown'
<1> SUFFICES ASSUME NEW v \in Worker, workers'[v].pc = "embed"
             PROVE  document'[workers'[v].content] # "none"
  BY DEF EmbedsKnown
<1>1. CASE workers'[v] = workers[v]
  <2>1. PICK c \in Content : c = workers[v].content
    <3>1. workers[v].pc = "embed" /\ Relies(v, workers[v])
      BY <1>1 DEF IndInv, WorkersRely
    <3> QED BY <3>1 DEF Relies
  <2>2. document[c] # "none"
    BY <1>1, <2>1 DEF EmbedsKnown
  <2>3. CASE \E w \in Worker : CleanCommit(w)
    <3>1. PICK w \in Worker : CleanCommit(w)
      BY <2>3
    <3>2. /\ workers[w].content \in Content
          /\ workers[w].verdict = Verdict({Due(workers[w], k) : k \in Radar})
      BY <3>1 DEF CleanCommit, IndInv, WorkersRely, Relies
    <3>3. /\ document' = [document EXCEPT ![workers[w].content] = workers[w].verdict]
          /\ workers[w].verdict # "none"
      BY <3>1, <3>2, VerdictAgrees DEF CleanCommit
    <3> QED BY <1>1, <2>1, <2>2, <3>2, <3>3 DEF IndInv, TypeOK
  <2>4. CASE ~\E w \in Worker : CleanCommit(w)
    BY <1>1, <2>1, <2>2, <2>4, DocumentsStay
  <2> QED BY <2>3, <2>4
<1>2. ASSUME NEW c \in Content, EmbedRead(v, c), workers'[v] # workers[v]
      PROVE  document'[workers'[v].content] # "none"
  <2>1. /\ Step(v, [Idle EXCEPT !.pc = "embed", !.content = c])
        /\ document' = document /\ document[c] = "embedding"
    BY <1>2 DEF EmbedRead
  <2>2. workers'[v].content = c
    BY <2>1 DEF Step, Idle, IndInv, TypeOK
  <2> QED BY <2>1, <2>2
<1> QED BY <1>1, <1>2, OneSessionMoves

\* The steps that neither begin nor end a cleaning.
LEMMA CleanersUntouched ==
  ASSUME IndInv, [Next]_vars,
         ~\E w \in Worker : \/ CleanCommit(w)
                            \/ \E x \in RawItem : CleanRead(w, x) \/ CleanRejects(w, x)
  PROVE  /\ UNCHANGED raw
         /\ \A v \in Worker : workers'[v].pc = "clean" => workers'[v] = workers[v]
<1>1. ASSUME NEW w \in Worker, Start(w) PROVE UNCHANGED raw
  BY <1>1 DEF Start, EmbedRead, Claim, RetrySelect, NotifySelect
<1>2. ASSUME NEW w \in Worker, Continue(w) \/ Crash(w) PROVE UNCHANGED raw
  BY <1>2 DEF Continue, Save, Sync, Settle, RetryLock, RetryCommit, EmbedEnd, NotifyLock,
              NotifyCommit, Crash
<1>3. UNCHANGED raw
  BY <1>1, <1>2 DEF Next, Recover, ChangeRadar, Rest, vars
<1>4. \A v \in Worker : workers'[v].pc = "clean" => workers'[v] = workers[v]
  BY OneSessionMoves
<1> QED BY <1>3, <1>4

LEMMA FitInit == Init => Deduplicated /\ CleanersHold /\ EmbedsKnown
BY IdleState DEF Init, Deduplicated, Fit, CleanersHold, Cleans, EmbedsKnown

\* A cleaning begins.
LEMMA CleanReadFits ==
  ASSUME IndInv, Deduplicated, CleanersHold, NEW w \in Worker, NEW x \in RawItem,
         CleanRead(w, x)
  PROVE  Deduplicated' /\ CleanersHold'
<1>1. PICK batch, verdict :
        Step(w, [Idle EXCEPT !.pc = "clean", !.item = x, !.content = ContentOf[x],
                             !.batch = batch, !.verdict = verdict])
  BY Zenon DEF CleanRead
<1>2. /\ workers'[w].item = x /\ workers'[w].content = ContentOf[x]
      /\ \A v \in Worker \ {w} : workers'[v] = workers[v]
  BY <1>1 DEF Step, Idle, IndInv, TypeOK
<1>3. raw[x] = "fetched" /\ UNCHANGED <<raw, document>>
  BY DEF CleanRead
<1> QED BY <1>2, <1>3 DEF Deduplicated, CleanersHold, Cleans

\* A raw item is rejected that no session cleans.
LEMMA CleanRejectsFits ==
  ASSUME IndInv, Deduplicated, CleanersHold, NEW w \in Worker, NEW x \in RawItem,
         CleanRejects(w, x)
  PROVE  Deduplicated' /\ CleanersHold'
<1>1. /\ raw[x] = "fetched" /\ raw' = [raw EXCEPT ![x] = "failed"]
      /\ \A v \in Worker : workers[v].item # x
      /\ UNCHANGED <<document, workers>>
  BY DEF CleanRejects
<1>2. raw'[x] = "failed" /\ \A y \in RawItem \ {x} : raw'[y] = raw[y]
  BY <1>1 DEF IndInv, TypeOK
<1>3. \A c \in Content : Originals(raw', c) = Originals(raw, c)
  BY <1>1, <1>2 DEF Originals
<1>4. Deduplicated'
  BY <1>1, <1>2, <1>3 DEF Deduplicated, Fit
<1>5. \A v \in Worker : workers[v].pc = "clean" => workers[v].item \in RawItem
  BY DEF IndInv, WorkersRely, Relies
<1>6. CleanersHold'
  BY <1>1, <1>2, <1>5 DEF CleanersHold, Cleans
<1> QED BY <1>4, <1>6

\* A cleaning commits: the first of a content makes the document, a later one finds
\* it there.
LEMMA CleanCommitFits ==
  ASSUME IndInv, Deduplicated, CleanersHold, NEW w \in Worker, CleanCommit(w)
  PROVE  Deduplicated' /\ CleanersHold'
<1> DEFINE x == workers[w].item
           c == workers[w].content
<1>1. /\ x \in RawItem /\ c \in Content
      /\ raw[x] = "fetched" /\ ContentOf[x] = c
      /\ workers[w].verdict = Verdict({Due(workers[w], k) : k \in Radar})
  <2>1. workers[w].pc = "clean"
    BY DEF CleanCommit
  <2>2. Relies(w, workers[w]) /\ Cleans(workers[w])
    BY DEF IndInv, WorkersRely, CleanersHold
  <2> QED BY <2>1, <2>2 DEF Relies, Cleans
<1>2. /\ workers[w].pc = "clean"
      /\ raw' = [raw EXCEPT ![x] = IF document[c] = "none" THEN "cleaned" ELSE "duplicate"]
      /\ document' = [document EXCEPT ![c] = workers[w].verdict]
      /\ Step(w, Idle)
  BY DEF CleanCommit
<1> HIDE DEF x, c
<1>3. /\ raw'[x] = IF document[c] = "none" THEN "cleaned" ELSE "duplicate"
      /\ \A y \in RawItem \ {x} : raw'[y] = raw[y]
      /\ document'[c] # "none"
      /\ \A b \in Content \ {c} : document'[b] = document[b]
  <2>1. workers[w].verdict # "none"
    BY <1>1, VerdictAgrees
  <2> QED BY <1>1, <1>2, <2>1 DEF IndInv, TypeOK
<1>4. \A b \in Content \ {c} : Originals(raw', b) = Originals(raw, b)
  BY <1>1, <1>3 DEF Originals
<1>5. Originals(raw', c) = IF document[c] = "none" THEN {x} ELSE Originals(raw, c)
  <2>1. CASE document[c] = "none"
    <3>1. \A y \in RawItem : ContentOf[y] = c => raw[y] # "cleaned"
      BY <2>1 DEF Deduplicated, Fit
    <3> QED BY <1>1, <1>3, <2>1, <3>1 DEF Originals
  <2>2. CASE document[c] # "none"
    BY <1>1, <1>3, <2>2 DEF Originals
  <2> QED BY <2>1, <2>2
<1>6. Deduplicated'
  <2>1. ASSUME NEW b \in Content, document'[b] # "none"
        PROVE  \E y \in RawItem : Originals(raw', b) = {y}
    <3>1. document[b] # "none" => \E y \in RawItem : Originals(raw, b) = {y}
      BY DEF Deduplicated, Fit
    <3>2. CASE b # c
      BY <1>3, <1>4, <2>1, <3>1, <3>2
    <3>3. CASE b = c /\ document[c] # "none"
      BY <1>5, <3>1, <3>3
    <3>4. CASE b = c /\ document[c] = "none"
      BY <1>1, <1>5, <3>4
    <3> QED BY <3>2, <3>3, <3>4
  <2>2. ASSUME NEW y \in RawItem, raw'[y] \in {"cleaned", "duplicate"}
        PROVE  document'[ContentOf[y]] # "none"
    <3>1. ContentOf[y] \in Content
      BY DocumentsAssumption
    <3> QED BY <1>1, <1>3, <2>2, <3>1 DEF Deduplicated, Fit
  <2> QED BY <2>1, <2>2 DEF Deduplicated, Fit
<1>7. ASSUME NEW v \in Worker, workers'[v].pc = "clean"
      PROVE  raw'[workers'[v].item] = "fetched" /\ ContentOf[workers'[v].item] = workers'[v].content
  <2>1. v # w /\ workers'[v] = workers[v]
    BY <1>2, <1>7, IdleState DEF Step, IndInv, TypeOK
  <2>2. /\ raw[workers[v].item] = "fetched" /\ workers[v].item \in RawItem
        /\ ContentOf[workers[v].item] = workers[v].content /\ workers[v].content \in Content
    <3>1. workers[v].pc = "clean" /\ Relies(v, workers[v])
      BY <1>7, <2>1 DEF IndInv, WorkersRely
    <3> QED BY <3>1 DEF CleanersHold, Cleans, Relies
  <2>3. workers[v].content # c
    BY <1>1, <1>2, <1>7, <2>1 DEF IndInv, OneDocumentLock, LocksDocument, c
  <2> QED BY <1>1, <1>3, <2>1, <2>2, <2>3
<1> QED BY <1>6, <1>7 DEF CleanersHold, Cleans

\* However many sessions clean raw items of one content at once, crash and start
\* again, exactly one of the items becomes the original its document is made of,
\* and every other that is cleaned is a duplicate of it. (clean_raw_item)
THEOREM ContentHasOneOriginal == Spec => []Deduplicated
<1> DEFINE Inv == Deduplicated /\ CleanersHold
<1>1. IndInv /\ EmbedsKnown /\ Inv /\ [Next]_vars => Inv'
  <2> SUFFICES ASSUME IndInv, EmbedsKnown, Inv, [Next]_vars PROVE Inv'
    OBVIOUS
  <2>1. ASSUME NEW w \in Worker, NEW x \in RawItem, CleanRead(w, x) \/ CleanRejects(w, x)
        PROVE  Inv'
    BY <2>1, CleanReadFits, CleanRejectsFits
  <2>2. ASSUME NEW w \in Worker, CleanCommit(w) PROVE Inv'
    BY <2>2, CleanCommitFits
  <2>3. CASE ~\E w \in Worker : \/ CleanCommit(w)
                                \/ \E x \in RawItem : CleanRead(w, x) \/ CleanRejects(w, x)
    <3>1. /\ UNCHANGED raw
          /\ \A v \in Worker : workers'[v].pc = "clean" => workers'[v] = workers[v]
      BY <2>3, CleanersUntouched
    <3>2. \A c \in Content : document'[c] = "none" <=> document[c] = "none"
      BY <2>3, DocumentsStay
    <3>3. \A x \in RawItem : ContentOf[x] \in Content
      BY DocumentsAssumption
    <3>4. Deduplicated'
      BY <3>1, <3>2, <3>3 DEF Deduplicated, Fit
    <3>5. CleanersHold'
      BY <3>1 DEF CleanersHold, Cleans
    <3> QED BY <3>4, <3>5
  <2> QED BY <2>1, <2>2, <2>3
<1>2. Init => Inv /\ EmbedsKnown
  BY FitInit
<1>3. IndInv /\ EmbedsKnown /\ [Next]_vars => EmbedsKnown'
  BY EmbedsKnownKept
<1> QED BY <1>1, <1>2, <1>3, Inductive, PTL DEF Spec

================================================================================
