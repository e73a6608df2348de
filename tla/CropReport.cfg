SPECIFICATION Spec
CONSTANTS
  Frame <- Frames
  Box <- Boxes
  StdAspects <- Aspects
  SnapKeepPx = 6
  FullFrameMin = 2
  FullFramePct = 3
  MaxKeyframes = 5
INVARIANTS CropValid MajorityDecides ContentKept
CHECK_DEADLOCK FALSE
