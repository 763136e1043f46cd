SPECIFICATION Spec
CONSTANTS
  x1 = x1
  x2 = x2
  c1 = c1
  k1 = k1
  k2 = k2
  RawItem = {x1, x2}
  Content = {c1}
  Radar = {k1, k2}
  Worker = {w1, w2}
  ContentOf <- MCContentOf
  RadarsOf <- MCRadarsOf
  MaxFaults = 1
  MaxRetries = 1
  MaxRadarChanges = 1
  None = None
INVARIANT OpenIsAnalyzing
