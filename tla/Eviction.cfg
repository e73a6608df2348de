SPECIFICATION Spec
CONSTANTS
  v1 = v1
  v2 = v2
  v3 = v3
  Vid = {v1, v2, v3}
  NoVid = NoVid
  Evictor = {e1, e2}
  Size <- Sizes
  CacheMaxBytes = 2
  MaxTime = 3
SYMMETRY Symmetry
INVARIANTS TypeOK
PROPERTIES BoundedCache AloneEvictsOnlyOverCap EvictsLeastRecent
