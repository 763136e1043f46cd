----------------------------- MODULE Services_proofs -----------------------------
(******************************************************************************)
(* Proofs about the three components that are checked together, the evidence  *)
(* and opportunities, the refresh tokens and the creation of runs: what is    *)
(* proved of each on its own holds of the composition, whatever is in focus.  *)
(******************************************************************************)
EXTENDS MCServices, Opportunities_proofs, RefreshTokens_proofs, RunCreation_proofs

\* A behaviour of the composition is one of the evidence, of the tokens and of run
\* creation: they share no state and none disturbs another.
\* (change_tracking.py, auth.py, acquisition.py)
THEOREM ComponentsAreIndependent == Spec => TrackingSpec /\ TokensSpec /\ CreationSpec
<1>1. Init => TrackingInit /\ TokensInit /\ CreationInit
  BY DEF Init, OpportunitiesInit
<1>2. [Next]_all => /\ [TrackingNext]_evidence
                    /\ [TokensNext]_tokenVars
                    /\ [CreationNext]_creationVars
  <2>1. Next => /\ [TrackingNext]_evidence
                /\ TokensNext \/ UNCHANGED tokenVars
                /\ CreationNext \/ UNCHANGED creationVars
    <3>1. UNCHANGED opportunityVars => UNCHANGED evidence
      BY DEF opportunityVars
    <3> QED BY <3>1, OpportunitiesTakeNothing DEF Next
  <2>2. UNCHANGED all => UNCHANGED <<evidence, tokenVars, creationVars>>
    BY DEF all, opportunityVars
  <2> QED BY <2>1, <2>2
<1> QED BY <1>1, <1>2, PTL DEF Spec, TrackingSpec, TokensSpec, CreationSpec

\* Where the evidence is not in focus alone, it is one of a source with
\* opportunities. (opportunity_ingest.py)
THEOREM OpportunitiesInFocus == Spec /\ [](~(focus = "evidence")) => OpportunitiesSpec
<1>1. Init => OpportunitiesInit
  BY DEF Init
<1>2. ~(focus = "evidence") /\ [Next]_all => [OpportunitiesNext]_opportunityVars
  BY DEF Next, all
<1> QED BY <1>1, <1>2, PTL DEF Spec, OpportunitiesSpec

\* The rows of all components have their types. (models/)
THEOREM ServicesTypeCorrect == Spec => []TypeOK
<1>1. [Next]_all => focus' = focus
  BY DEF Next, all
<1>2. Spec => [](focus = "evidence") \/ [](~(focus = "evidence"))
  <2>1. focus = "evidence" /\ [Next]_all => (focus = "evidence")'
    BY <1>1
  <2>2. ~(focus = "evidence") /\ [Next]_all => (~(focus = "evidence"))'
    BY <1>1
  <2> QED BY <2>1, <2>2, PTL DEF Spec
<1>3. focus = "evidence" /\ TrackingTypeOK /\ TokensTypeOK /\ CreationTypeOK => TypeOK
  BY DEF TypeOK
<1>4. ~(focus = "evidence") /\ OpportunitiesTypeOK /\ TokensTypeOK /\ CreationTypeOK => TypeOK
  BY DEF TypeOK
<1> QED BY <1>2, <1>3, <1>4, ComponentsAreIndependent, OpportunitiesInFocus,
           TrackingTypeCorrect, OpportunitiesTypeCorrect, TokensTypeCorrect,
           CreationTypeCorrect, PTL

================================================================================
