SPECIFICATION Spec
CONSTANTS
  Run = {r1, r2}
  Worker = {w1, w2}
  Url = {1, 2, 3}
  NoRun = NoRun
  NoUrl = NoUrl
  FrontierCap = 2
  UrlCap = 3
  MaxAttempts = 2
  MaxClaims = 1
  CasTries = 2
  SeedContents <- MCSeedContents
  Contents <- MCContents
SYMMETRY Interchangeable
INVARIANT PagesOnce
CHECK_DEADLOCK FALSE
