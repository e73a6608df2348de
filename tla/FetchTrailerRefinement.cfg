SPECIFICATION FairSpec
CONSTANTS
  Client = {c1, c2}
  Prewarmer = {}
  Vid = {v1, v2}
  NoVid = NoVid
  Reason <- Reasons
  Report = {"letterboxed"}
  DownloadConcurrency = 1
  PrewarmMax = 1
  CropCacheMax = 1
  HealthFailThreshold = 2
  BakeClap = TRUE
  BakeAtomic = TRUE
  PidOf <- FreshPid
  MaxBoots = 1
  MaxGen = 2
INVARIANT PublishedFinal
PROPERTIES FreshTemp ImplementsSingleFlight EntryCleared CallsAnswered
