SPECIFICATION Spec
CONSTANTS
  wide = wide
  full = full
  Viewer = {}
  Cropper = {c1}
  Vid = {v1}
  NoVid = NoVid
  Take = {wide, full}
  NoTake = NoTake
  Letterboxed = {wide}
  Size <- Sizes
  ClapBytes = 1
  BakeClap = TRUE
  Request <- Plain
INVARIANT UnknownRetried
