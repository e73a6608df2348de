SPECIFICATION Spec
CONSTANTS
  Client = {c1}
  Prewarmer = {p1, p2}
  Vid = {v1, v2}
  NoVid = NoVid
  Reason <- Reasons
  Report = {"letterboxed", "full_frame"}
  DownloadConcurrency = 2
  PrewarmMax = 1
  CropCacheMax = 1
  HealthFailThreshold = 2
  BakeClap = TRUE
  BakeAtomic = FALSE
  PidOf <- SamePid
  MaxBoots = 0
  MaxGen = 2
SYMMETRY Symmetry
INVARIANT PrewarmBounded
