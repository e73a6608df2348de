SPECIFICATION Spec
CONSTANTS
  Client = {c1, c2}
  Prewarmer = {}
  Vid = {v1, v2}
  NoVid = NoVid
  Reason <- Reasons
  Report = {"letterboxed", "full_frame"}
  DownloadConcurrency = 1
  PrewarmMax = 1
  CropCacheMax = 1
  HealthFailThreshold = 2
  BakeClap = TRUE
  BakeAtomic = FALSE
  PidOf <- SamePid
  MaxBoots = 0
  MaxGen = 2
SYMMETRY Symmetry
PROPERTY ColdOnly
