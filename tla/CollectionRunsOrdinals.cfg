SPECIFICATION Spec
CONSTANTS
  Run = {r1}
  Worker = {w1}
  Source = {s}
  TheSource = s
  SourceOf <- MCSourceOf
  NoRun = NoRun
  MaxClaims = 2
  MaxStage = 2
  FailureThreshold = 2
INVARIANT FailureReportFits
CHECK_DEADLOCK FALSE
