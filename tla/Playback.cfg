SPECIFICATION FairSpec
CONSTANTS
  wide = wide
  full = full
  Viewer = {p1}
  Cropper = {c1}
  Vid = {v1}
  NoVid = NoVid
  Take = {wide, full}
  NoTake = NoTake
  Letterboxed = {wide}
  Size <- Sizes
  ClapBytes = 1
  BakeClap = TRUE
  Request <- Requests
INVARIANTS TypeOK LengthKept RangeAnswered PromiseKept
PROPERTIES VisitorsAnswered
