----------------------------- MODULE CropReport -----------------------------
(***************************************************************************)
(* What den-reel reports of a trailer's letterbox (src/crop.rs): ffmpeg's  *)
(* cropdetect gives one box per keyframe, detect takes the typical box,    *)
(* refine_report makes of it what is served, clap_params what MP4Box       *)
(* writes into the file.                                                   *)
(*                                                                         *)
(* The arithmetic is the code's, in exact fractions where the code uses    *)
(* floats; dimensions are those of video, far from the width of u32.  The  *)
(* aspect of a report, which nothing reads, is left out.                   *)
(***************************************************************************)
EXTENDS Integers, FiniteSets, Sequences

CONSTANTS
    Frame,        \* dimensions of the videos: [w, h]
    Box,          \* what cropdetect may see in a keyframe: [w, h, x, y]
    StdAspects,   \* STD_ASPECTS, in hundredths and in the order of the code
    SnapKeepPx,   \* SNAP_KEEP_PX
    FullFrameMin, \* FULL_FRAME_MIN
    FullFramePct, \* FULL_FRAME_PCT
    MaxKeyframes  \* bound: keyframes of a trailer

Dims == [w : Nat \ {0}, h : Nat \ {0}]
Rect == [w : Nat \ {0}, h : Nat \ {0}, x : Nat, y : Nat]

ASSUME CropAssumption ==
    /\ Frame \subseteq Dims
    /\ Box \subseteq Rect
    /\ StdAspects \in Seq({a \in Nat : a >= 100})
    /\ {SnapKeepPx, FullFrameMin, FullFramePct, MaxKeyframes} \subseteq Nat

VARIABLES
    frame,   \* the dimensions of the video
    parsed,  \* whether parse_source_dims finds them in ffmpeg's output
    boxes    \* the boxes of the keyframes so far

cvars == <<frame, parsed, boxes>>

NoDims == [w |-> 0, h |-> 0]
Source == IF parsed THEN frame ELSE NoDims

\* cropdetect looks for black edges, so its box lies in the frame.
Within(b, f) == b.x + b.w <= f.w /\ b.y + b.h <= f.h

Init == frame \in Frame /\ parsed \in BOOLEAN /\ boxes = <<>>

Keyframe(b) ==
    /\ Len(boxes) < MaxKeyframes
    /\ Within(b, frame)
    /\ boxes' = Append(boxes, b)
    /\ UNCHANGED <<frame, parsed>>

Next == \E b \in Box : Keyframe(b)

Spec == Init /\ [][Next]_cvars

-----------------------------------------------------------------------------
\* Mutant of Median: the largest, that is the union of the boxes.
Largest(v) ==
    LET vals == {v[i] : i \in DOMAIN v} IN CHOOSE m \in vals : \A k \in vals : k <= m

\* Mutant of Median: the first of the sorted values.
Smallest(v) ==
    LET vals == {v[i] : i \in DOMAIN v} IN CHOOSE m \in vals : \A k \in vals : m <= k

\* The element in the middle of the sorted values, the upper one of two: the
\* least with more than half of the values up to it.
Median(v) ==
    LET vals == {v[i] : i \in DOMAIN v}
        upper == {m \in vals : 2 * Cardinality({i \in DOMAIN v : v[i] <= m}) > Len(v)}
    IN  CHOOSE m \in upper : \A k \in upper : m <= k

\* Every field by itself.
TypicalCrop(bs) ==
    [w |-> Median([i \in DOMAIN bs |-> bs[i].w]),
     h |-> Median([i \in DOMAIN bs |-> bs[i].h]),
     x |-> Median([i \in DOMAIN bs |-> bs[i].x]),
     y |-> Median([i \in DOMAIN bs |-> bs[i].y])]

\* saturating_sub: what lies beside the part.
Bar(total, part) == IF part < total THEN total - part ELSE 0

\* A bar of more than 2% is no noise.
RealBar(total, part) == Bar(total, part) * 50 > total

ReportFrom(src, raw) ==
    LET s == IF src = NoDims THEN [w |-> raw.w, h |-> raw.h] ELSE src
    IN  [source |-> s, content |-> raw,
         letterboxed |-> RealBar(s.h, raw.h) \/ RealBar(s.w, raw.w)]

FullFrame(src, b) == ~ RealBar(src.h, b.h) /\ ~ RealBar(src.w, b.w)

UsesFullFrame(bs, src) ==
    LET full == Cardinality({i \in DOMAIN bs : FullFrame(src, bs[i])})
    IN  src # NoDims /\ full >= FullFrameMin /\ full * 100 >= Len(bs) * FullFramePct

FullFrameReport(src) ==
    [source |-> src, letterboxed |-> FALSE,
     content |-> [w |-> src.w, h |-> src.h, x |-> 0, y |-> 0]]

\* How far w/h is from the aspect a, times 100 * h.
AspectGap(w, h, a) == IF a * h < 100 * w THEN 100 * w - a * h ELSE a * h - 100 * w

\* The standard aspects within 5% of w/h that none is nearer to; the code takes
\* the first of them.
NearestStdAspect(w, h) ==
    {i \in DOMAIN StdAspects :
        /\ 20 * AspectGap(w, h, StdAspects[i]) <= StdAspects[i] * h
        /\ \A j \in DOMAIN StdAspects :
              LET gi == AspectGap(w, h, StdAspects[i])
                  gj == AspectGap(w, h, StdAspects[j])
              IN  IF j < i THEN gi < gj ELSE gi <= gj}

\* The height that gives width w the aspect a, rounded.
HeightOf(w, a) == (200 * w + a) \div (2 * a)

EnoughHeight(src, h) == 5 * h >= 3 * src.h

\* What is left of the height of a letterbox: snapped to a standard aspect that
\* is near, unless that is too low or hardly a change.
ServedHeight(src, c) ==
    LET snapped == {h \in {HeightOf(src.w, StdAspects[i]) :
                              i \in NearestStdAspect(src.w, c.h)} :
                       /\ h <= src.h
                       /\ EnoughHeight(src, h)
                       /\ h - c.h > SnapKeepPx \/ c.h - h > SnapKeepPx}
    IN  IF snapped = {} THEN c.h ELSE CHOOSE h \in snapped : TRUE

\* Mutant of Croppable: however dark the frames were.
CroppableDark(src, c) ==
    /\ Bar(src.h, c.h) > Bar(src.w, c.w)
    /\ c.w * 20 >= src.w * 19
    /\ c.w >= c.h

\* The one case that is cropped: bars above and below a landscape picture of
\* (nearly) full width and of enough height.
Croppable(src, c) ==
    /\ Bar(src.h, c.h) > Bar(src.w, c.w)
    /\ c.w * 20 >= src.w * 19
    /\ c.w >= c.h
    /\ EnoughHeight(src, c.h)

\* A letterbox is served centred and over the full width, anything else as the
\* full frame.
RefineReport(r) ==
    LET src == r.source
        h == ServedHeight(src, r.content)
    IN  IF ~ r.letterboxed THEN r
        ELSE IF ~ Croppable(src, r.content) THEN FullFrameReport(src)
        ELSE [source |-> src,
              content |-> [w |-> src.w, h |-> h, x |-> 0, y |-> (src.h - h) \div 2],
              letterboxed |-> RealBar(src.h, h)]

\* No box, no report.
Unknown == [source |-> NoDims, letterboxed |-> FALSE,
            content |-> [w |-> 0, h |-> 0, x |-> 0, y |-> 0]]

Detect(bs, src) ==
    IF UsesFullFrame(bs, src) THEN FullFrameReport(src)
    ELSE IF bs = <<>> THEN Unknown
    ELSE RefineReport(ReportFrom(src, TypicalCrop(bs)))

\* The size of the clap box and how far its centre is off the frame's, in
\* halves of a pixel.
ClapParams(r) ==
    [w |-> r.content.w, h |-> r.content.h,
     ho |-> 2 * r.content.x + r.content.w - r.source.w,
     vo |-> 2 * r.content.y + r.content.h - r.source.h]

Report == Detect(boxes, Source)

-----------------------------------------------------------------------------
Abs(n) == IF n < 0 THEN -n ELSE n

\* What a client is told to crop to, and what MP4Box writes, is a box in the
\* frame of the video, whatever the keyframes showed: of full width, centred
\* within half a pixel, landscape and of 60% of the height ("geometrically valid
\* every time", refine_report).
CropValid ==
    Report.letterboxed =>
        LET clap == ClapParams(Report) IN
        /\ Report.source = frame
        /\ Within(Report.content, frame)
        /\ clap.w = frame.w /\ clap.ho = 0
        /\ Abs(clap.vo) <= 1
        /\ clap.w >= clap.h
        /\ EnoughHeight(frame, clap.h)

\* The box of more than half of the keyframes decides, whatever the others show:
\* a logo that comes and goes does not hold the bar open, dark frames do not
\* close it (module comment of crop.rs).
MajorityDecides ==
    \A b \in Box :
        /\ 2 * Cardinality({i \in DOMAIN boxes : boxes[i] = b}) > Len(boxes)
        /\ ~ UsesFullFrame(boxes, Source)
        => Report = RefineReport(ReportFrom(Source, b))

\* "Keeping bars beats shaving real content": what is served is less high, by more
\* than the 5% of a snap, than the boxes of at most half of the keyframes, however
\* those vary.  (Of heights only: a box is centred, so content that is not in the
\* middle is cut.)
ContentKept ==
    Report.letterboxed =>
        2 * Cardinality({i \in DOMAIN boxes :
                            95 * boxes[i].h > 100 * (Report.content.h + 1)})
            <= Len(boxes)
=============================================================================
