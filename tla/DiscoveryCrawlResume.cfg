SPECIFICATION FairSpec
CONSTANTS
  Run = {r1}
  Worker = {w1, w2}
  Url = {1, 2, 3}
  NoRun = NoRun
  NoUrl = NoUrl
  FrontierCap = 2
  UrlCap = 3
  MaxAttempts = 2
  MaxClaims = 2
  CasTries = 2
  SeedContents <- MCSeedContents
  Contents <- MCContents
PROPERTIES
  ContractSpec
  CrawlEnds
CHECK_DEADLOCK FALSE
