SPECIFICATION BoundedSpec
CONSTANTS
  Run = {r1, r2, r3}
  Worker = {w1, w2, w3}
  Source = {s}
  TheSource = s
  SourceOf <- MCSourceOf
  NoRun = NoRun
  MaxClaims = 3
  MaxStage = 2
  FailureThreshold = 2
SYMMETRY Interchangeable
INVARIANTS
  TypeOK
  SoleHolder
  ResultsOnce
  ClaimsBounded
  CountersMatchRuns
  AttemptsDense
  CircuitAgrees
PROPERTIES
  EndedIsFinal
  OnlyHolderWrites
  ContractSafety
CHECK_DEADLOCK FALSE
