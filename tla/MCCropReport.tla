---------------------------- MODULE MCCropReport ----------------------------
(* Small instances of CropReport for TLC: trailers of 1080p, with the boxes of *)
(* the repository's tests and some between them, and a portrait one.           *)
EXTENDS CropReport

HD == [w |-> 1920, h |-> 1080]
Frames == {HD, [w |-> 720, h |-> 1280]}
Boxes == {[w |-> 1920, h |-> 1080, x |-> 0, y |-> 0],      \* full frame
          [w |-> 1920, h |-> 816, x |-> 0, y |-> 132],     \* scope
          [w |-> 1920, h |-> 846, x |-> 0, y |-> 132],     \* with a low logo
          [w |-> 1920, h |-> 960, x |-> 0, y |-> 60],      \* Univisium, 2:1
          [w |-> 1920, h |-> 1064, x |-> 0, y |-> 8],      \* noise
          [w |-> 1916, h |-> 400, x |-> 4, y |-> 380],     \* a dark frame
          [w |-> 1440, h |-> 1080, x |-> 240, y |-> 0],    \* pillars
          [w |-> 720, h |-> 404, x |-> 0, y |-> 438]}      \* in portrait
Aspects == <<239, 235, 200, 185>>
=============================================================================
