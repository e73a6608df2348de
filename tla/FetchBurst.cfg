SPECIFICATION Spec
CONSTANTS
  Client = {c1, c2}
  Prewarmer = {p1}
  Vid = {v1, v2}
  NoVid = NoVid
  Reason <- Reasons
  Report = {"letterboxed", "full_frame"}
  DownloadConcurrency = 2
  PrewarmMax = 1
  CropCacheMax = 1
  HealthFailThreshold = 2
  BakeClap = FALSE
  BakeAtomic = FALSE
  PidOf <- FreshPid
  MaxBoots = 0
  MaxGen = 3
SYMMETRY Symmetry
INVARIANTS TypeOK OneDownloadPerVid WaiterMatches NoOrphanTemp CropCacheBounded
  ExtractorBlamed
