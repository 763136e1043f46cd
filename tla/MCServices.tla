------------------------------ MODULE MCServices ------------------------------
(* Instances for TLC of three components that share nothing: the evidence and  *)
(* opportunities of a source, the refresh tokens, and the creation of runs.    *)
(* A behaviour is one of a component in Focus while the others stay as they    *)
(* are, so that the states of the components add up instead of multiplying.    *)
(* The evidence is also in focus on its own: it is all that a source that is   *)
(* not of the opportunity family has, and needs no bound.                      *)
EXTENDS Opportunities, RefreshTokens, RunCreation, TLC

CONSTANTS Focus, t1, t2, t3, c1, c2, f1, f2, a1, r1

VARIABLE focus

itemVars == <<now, fetched, item, ghosts, evaluation>>
all == <<opportunityVars, tokenVars, creationVars, focus>>

Init ==
  /\ focus \in Focus
  /\ OpportunitiesInit
  /\ TokensInit
  /\ CreationInit

\* Opportunities are followed on one artifact, so that it can be for longer.
OneArtifact == \A a \in Artifact \ {a1} : current'[a] = 0

Next ==
  /\ UNCHANGED focus
  /\ \/ /\ \/ focus = "evidence" /\ TrackingNext /\ UNCHANGED itemVars
           \/ focus = "opportunities" /\ OpportunitiesNext /\ OneArtifact
        /\ UNCHANGED <<tokenVars, creationVars>>
     \/ focus = "tokens" /\ TokensNext /\ UNCHANGED <<opportunityVars, creationVars>>
     \/ focus = "creation" /\ CreationNext /\ UNCHANGED <<opportunityVars, tokenVars>>

Spec == Init /\ [][Next]_all

TypeOK ==
  /\ IF focus = "evidence" THEN TrackingTypeOK ELSE OpportunitiesTypeOK
  /\ TokensTypeOK
  /\ CreationTypeOK

\* Two states with one content, and a third with another.
MCContentOf == t1 :> c1 @@ t2 :> c1 @@ t3 :> c2
MCLegacy == [a \in Artifact |-> IF a = a1 THEN t2 ELSE None]

\* A page in the first state may show different facts, one in the last none.
MCShows == t1 :> {f1} @@ t2 :> {f2} @@ t3 :> {f2, None}
MCDeadlineOf == f1 :> None @@ f2 :> 6

\* Users may send the keys that a retry and the scheduler build.
MCSuppliedKey == {RetryKey(r1), ScheduleKey(1)}

MCSymmetry ==
  UNION {Permutations(S) : S \in {Dispatcher, Session, RunId \ {r1}}}

================================================================================
