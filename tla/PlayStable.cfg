SPECIFICATION Spec
CONSTANTS
  wide = wide
  full = full
  Viewer = {p1, p2}
  Cropper = {}
  Vid = {v1}
  NoVid = NoVid
  Take = {wide, full}
  NoTake = NoTake
  Letterboxed = {wide}
  Size <- Sizes
  ClapBytes = 1
  BakeClap = TRUE
  Request <- Plain
SYMMETRY Symmetry
INVARIANT ByteStable
