SPECIFICATION Spec
CONSTANTS
  Run = {r1, r2, r3}
  Worker = {w1, w2}
  Source = {s}
  TheSource = s
  SourceOf <- MCSourceOf
  NoRun = NoRun
  MaxClaims = 1
  MaxStage = 1
  FailureThreshold = 1
SYMMETRY Interchangeable
INVARIANT OneProbeAtATime
CHECK_DEADLOCK FALSE
