SPECIFICATION FairSpec
CONSTANTS
  Run = {r1, r2}
  Worker = {w1}
  Source = {s}
  TheSource = s
  SourceOf <- MCSourceOf
  NoRun = NoRun
  MaxClaims = 2
  MaxStage = 2
  FailureThreshold = 1
PROPERTY EveryQueuedRunEnds
CHECK_DEADLOCK FALSE
