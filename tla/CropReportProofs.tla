-------------------------- MODULE CropReportProofs --------------------------
(***************************************************************************)
(* Proofs about CropReport, for videos of every size, any boxes in their   *)
(* frames, any number of keyframes and any standard aspects of landscape:  *)
(* the box that is served and written into the file is valid.              *)
(***************************************************************************)
EXTENDS CropReport, FiniteSetTheorems, SequenceTheorems, LeastNumber, TLAPS

\* What the keyframes show lies in the frame.
InFrame ==
    /\ frame \in Dims
    /\ parsed \in BOOLEAN
    /\ boxes \in Seq(Rect)
    /\ \A i \in DOMAIN boxes : Within(boxes[i], frame)

LEMMA InFrameHolds == Spec => []InFrame
<1>1. Init => InFrame
  BY CropAssumption DEF Init, InFrame
<1>2. InFrame /\ [Next]_cvars => InFrame'
  <2> SUFFICES ASSUME InFrame, [Next]_cvars
               PROVE  InFrame'
    OBVIOUS
  <2>1. ASSUME NEW b \in Box, Keyframe(b)
        PROVE  InFrame'
    <3>1. b \in Rect /\ Within(b, frame) /\ boxes' = Append(boxes, b)
      BY <2>1, CropAssumption DEF Keyframe
    <3>2. boxes' \in Seq(Rect)
      BY <3>1 DEF InFrame
    <3>3. ASSUME NEW i \in DOMAIN boxes'
          PROVE  Within(boxes'[i], frame)
      <4>1. Len(boxes) \in Nat /\ DOMAIN boxes = 1 .. Len(boxes)
        BY DEF InFrame
      <4>2. Len(boxes') = Len(boxes) + 1 /\ DOMAIN boxes' = 1 .. Len(boxes')
        BY <3>1, <3>2, AppendProperties DEF InFrame
      <4>3. CASE i = Len(boxes) + 1
        <5>1. boxes'[i] = b
          BY <3>1, <4>3, AppendProperties DEF InFrame
        <5> QED
          BY <3>1, <5>1
      <4>4. CASE i \in DOMAIN boxes
        <5>1. boxes'[i] = boxes[i]
          BY <3>1, <4>1, <4>4, AppendProperties DEF InFrame
        <5> QED
          BY <4>4, <5>1 DEF InFrame
      <4> QED
        BY <4>1, <4>2, <4>3, <4>4
    <3> QED
      BY <2>1, <3>1, <3>2, <3>3 DEF InFrame, Keyframe, Within
  <2>2. CASE UNCHANGED cvars
    BY <2>2 DEF cvars, InFrame, Within
  <2> QED
    BY <2>1, <2>2 DEF Next
<1> QED
  BY <1>1, <1>2, PTL DEF Spec

\* A sequence of numbers has a largest element.
LEMMA LargestElement ==
    ASSUME NEW v \in Seq(Nat), v # <<>>
    PROVE  \E j \in DOMAIN v : \A i \in DOMAIN v : v[i] <= v[j]
<1> DEFINE Upto(n) == \E j \in DOMAIN v : \A i \in 1 .. n : v[i] <= v[j]
           Bad == {n \in 1 .. Len(v) : ~ Upto(n)}
<1>0. DOMAIN v = 1 .. Len(v) /\ Len(v) \in Nat /\ Len(v) # 0
         /\ \A i \in 1 .. Len(v) : v[i] \in Nat
  BY EmptySeq
<1>1. 1 \notin Bad
  BY <1>0
<1>2. Bad = {}
  <2> SUFFICES ASSUME Bad # {} PROVE FALSE
    OBVIOUS
  <2>1. PICK n \in Bad : \A m \in Bad : n <= m
    <3>1. Bad \in SUBSET Nat
      OBVIOUS
    <3> HIDE DEF Bad
    <3> QED
      BY <3>1, LeastNat
  <2>2. n \in 2 .. Len(v) /\ n - 1 \in 1 .. Len(v) /\ ~ (n <= n - 1)
    BY <1>0, <1>1
  <2>3. n - 1 \notin Bad
    <3> HIDE DEF Bad
    <3> QED
      BY <2>1, <2>2
  <2>4. PICK j \in DOMAIN v : \A i \in 1 .. (n - 1) : v[i] <= v[j]
    BY <2>2, <2>3
  <2>5. \A i \in 1 .. n : i = n \/ i \in 1 .. (n - 1)
    BY <2>2
  <2>6. CASE v[n] <= v[j]
    BY <2>1, <2>4, <2>5, <2>6
  <2>7. CASE v[j] <= v[n]
    <3>1. \A i \in 1 .. n : v[i] <= v[n]
      BY <1>0, <2>2, <2>4, <2>5, <2>7
    <3> QED
      BY <1>0, <2>1, <2>2, <3>1
  <2> QED
    BY <1>0, <2>2, <2>4, <2>6, <2>7
<1>3. Upto(Len(v))
  BY <1>0, <1>2
<1> QED
  BY <1>0, <1>3

\* The median is one of the values, and more than half of them are not above it.
LEMMA MedianIsElement ==
    ASSUME NEW v \in Seq(Nat), v # <<>>
    PROVE  /\ \E i \in DOMAIN v : Median(v) = v[i]
           /\ 2 * Cardinality({i \in DOMAIN v : v[i] <= Median(v)}) > Len(v)
<1> DEFINE vals == {v[i] : i \in DOMAIN v}
           upper == {m \in vals :
                       2 * Cardinality({i \in DOMAIN v : v[i] <= m}) > Len(v)}
<1>1. DOMAIN v = 1 .. Len(v) /\ Len(v) \in Nat /\ Len(v) # 0
         /\ \A i \in 1 .. Len(v) : v[i] \in Nat
  BY EmptySeq
<1>2. PICK j \in DOMAIN v : \A i \in DOMAIN v : v[i] <= v[j]
  BY LargestElement
<1>3. {i \in DOMAIN v : v[i] <= v[j]} = 1 .. Len(v)
  BY <1>1, <1>2
<1>4. Cardinality(1 .. Len(v)) = Len(v)
  BY <1>1, FS_Interval
<1>5. v[j] \in upper
  <2>1. 2 * Cardinality({i \in DOMAIN v : v[i] <= v[j]}) = 2 * Len(v)
    BY <1>3, <1>4
  <2>2. 2 * Len(v) > Len(v)
    BY <1>1
  <2> QED
    BY <1>2, <2>1, <2>2
<1>6. \E m \in upper : \A k \in upper : m <= k
  <2>1. upper \in SUBSET Nat /\ upper # {}
    BY <1>1, <1>5
  <2> HIDE DEF upper
  <2> QED
    BY <2>1, LeastNat
<1>7. Median(v) \in upper
  <2>1. Median(v) = CHOOSE m \in upper : \A k \in upper : m <= k
    BY DEF Median
  <2> HIDE DEF upper
  <2> QED
    BY <1>6, <2>1
<1> QED
  BY <1>7

\* Every dimension of the typical box is one that a keyframe has.
LEMMA TypicalInFrame ==
    ASSUME InFrame, boxes # <<>>
    PROVE  LET c == TypicalCrop(boxes)
           IN  c.w \in 1 .. frame.w /\ c.h \in 1 .. frame.h
<1> DEFINE ws == [i \in DOMAIN boxes |-> boxes[i].w]
           hs == [i \in DOMAIN boxes |-> boxes[i].h]
<1>1. DOMAIN boxes = 1 .. Len(boxes) /\ Len(boxes) \in Nat
         /\ \A i \in DOMAIN boxes : boxes[i] \in Rect
  BY DEF InFrame
<1>2. ASSUME NEW i \in DOMAIN boxes
      PROVE  boxes[i].w \in 1 .. frame.w /\ boxes[i].h \in 1 .. frame.h
  BY <1>1 DEF InFrame, Within, Rect, Dims
<1>3. ws \in Seq(Nat) /\ hs \in Seq(Nat) /\ ws # <<>> /\ hs # <<>>
  BY <1>1, <1>2 DEF InFrame, Dims
<1>4. Median(ws) \in 1 .. frame.w
  <2>1. PICK i \in DOMAIN ws : Median(ws) = ws[i]
    BY <1>3, MedianIsElement
  <2> QED
    BY <1>2, <2>1
<1>5. Median(hs) \in 1 .. frame.h
  <2>1. PICK i \in DOMAIN hs : Median(hs) = hs[i]
    BY <1>3, MedianIsElement
  <2> QED
    BY <1>2, <2>1
<1> QED
  BY <1>4, <1>5 DEF TypicalCrop

\* A standard aspect is one of landscape: no snap makes a box higher than wide.
LEMMA HeightBelowWidth ==
    ASSUME NEW w \in Nat, NEW a \in Nat, a >= 100
    PROVE  HeightOf(w, a) \in Nat /\ HeightOf(w, a) <= w
<1> DEFINE n == 200 * w + a
           d == 2 * a
           q == n \div d
<1>1. n \in Nat /\ d \in Nat /\ d > 0
  OBVIOUS
<1>2. q \in Nat /\ d * q <= n
  <2> HIDE DEF n, d
  <2> QED
    BY <1>1
<1>3. n < d * (w + 1)
  <2>1. 100 * w <= a * w
    OBVIOUS
  <2>2. d * (w + 1) = 2 * (a * w) + 2 * a
    OBVIOUS
  <2>3. a * w \in Nat
    OBVIOUS
  <2> QED
    BY <2>1, <2>2, <2>3
<1>4. ~ (q >= w + 1)
  <2> SUFFICES ASSUME q >= w + 1 PROVE FALSE
    OBVIOUS
  <2>1. d * (w + 1) <= d * q
    <3> HIDE DEF q, d
    <3> QED
      BY <1>1, <1>2
  <2>2. d * (w + 1) \in Nat /\ d * q \in Nat
    <3> HIDE DEF q, d
    <3> QED
      BY <1>1, <1>2
  <2> HIDE DEF q, d, n
  <2> QED
    BY <1>1, <1>2, <1>3, <2>1, <2>2
<1> QED
  BY <1>2, <1>4 DEF HeightOf

\* The height that is served fits the frame and its width.
LEMMA ServedHeightFits ==
    ASSUME NEW src \in Dims, NEW c, c.w \in 1 .. src.w, c.h \in 1 .. src.h,
           Croppable(src, c)
    PROVE  LET h == ServedHeight(src, c)
           IN  h \in 1 .. src.h /\ h <= src.w /\ EnoughHeight(src, h)
<1> DEFINE snapped == {h \in {HeightOf(src.w, StdAspects[i]) :
                                i \in NearestStdAspect(src.w, c.h)} :
                         /\ h <= src.h
                         /\ EnoughHeight(src, h)
                         /\ h - c.h > SnapKeepPx \/ c.h - h > SnapKeepPx}
<1>1. ServedHeight(src, c) = IF snapped = {} THEN c.h ELSE CHOOSE h \in snapped : TRUE
  BY DEF ServedHeight
<1>2. src.w \in Nat \ {0} /\ src.h \in Nat \ {0}
  BY DEF Dims
<1>3. c.h \in 1 .. src.h /\ c.h <= src.w /\ EnoughHeight(src, c.h)
  BY <1>2 DEF Croppable
<1>4. ASSUME NEW h \in snapped
      PROVE  h \in 1 .. src.h /\ h <= src.w /\ EnoughHeight(src, h)
  <2>1. PICK i \in DOMAIN StdAspects : h = HeightOf(src.w, StdAspects[i])
    BY DEF NearestStdAspect
  <2>2. StdAspects[i] \in Nat /\ StdAspects[i] >= 100
    BY CropAssumption
  <2>3. h \in Nat /\ h <= src.w /\ h <= src.h
    BY <1>2, <2>1, <2>2, HeightBelowWidth
  <2>4. EnoughHeight(src, h)
    OBVIOUS
  <2> QED
    BY <1>2, <2>3, <2>4 DEF EnoughHeight
<1> HIDE DEF snapped
<1> QED
  BY <1>1, <1>3, <1>4

\* refine_report serves a crop only of the video whose dimensions it knows, and
\* only one that passed its tests.
LEMMA LetterboxOfFrame ==
    ASSUME InFrame, Report.letterboxed
    PROVE  /\ boxes # <<>> /\ ~ UsesFullFrame(boxes, frame)
           /\ Croppable(frame, TypicalCrop(boxes))
           /\ LET h == ServedHeight(frame, TypicalCrop(boxes))
              IN  /\ Report.source = frame
                  /\ Report.content =
                        [w |-> frame.w, h |-> h, x |-> 0, y |-> (frame.h - h) \div 2]
<1> DEFINE c == TypicalCrop(boxes)
           r == ReportFrom(Source, c)
<1>1. boxes # <<>> /\ Report = RefineReport(r)
  BY DEF Report, Detect, FullFrameReport, Unknown
<1>2. r.letterboxed /\ Croppable(r.source, r.content)
  BY <1>1 DEF RefineReport, FullFrameReport
<1>3. c.w \in Nat /\ c.h \in Nat
  BY <1>1, TypicalInFrame DEF InFrame, Dims
<1>4. r.content = c
  BY DEF ReportFrom
<1>5. Source = frame /\ frame # NoDims
  <2>1. Source # NoDims
    <3> SUFFICES ASSUME Source = NoDims PROVE FALSE
      OBVIOUS
    <3>1. r.letterboxed = (RealBar(c.h, c.h) \/ RealBar(c.w, c.w))
      BY DEF ReportFrom
    <3> HIDE DEF c
    <3>2. ~ RealBar(c.h, c.h) /\ ~ RealBar(c.w, c.w)
      BY <1>3 DEF RealBar, Bar
    <3> QED
      BY <1>2, <3>1, <3>2
  <2> QED
    BY <2>1 DEF Source
<1>6. r.source = frame
  BY <1>5 DEF ReportFrom
<1>7. ~ UsesFullFrame(boxes, frame)
  BY <1>5 DEF Report, Detect, FullFrameReport
<1> HIDE DEF c, r
<1> QED
  BY <1>1, <1>2, <1>4, <1>6, <1>7 DEF RefineReport, c

-----------------------------------------------------------------------------
\* refine_report and clap_params: what a client is told to crop to, and what is
\* written into the file, is a valid box for every video and whatever
\* cropdetect saw.
THEOREM CropAlwaysValid == Spec => []CropValid
<1>1. InFrame => CropValid
  <2> SUFFICES ASSUME InFrame, Report.letterboxed
               PROVE  LET clap == ClapParams(Report) IN
                      /\ Report.source = frame
                      /\ Within(Report.content, frame)
                      /\ clap.w = frame.w /\ clap.ho = 0
                      /\ Abs(clap.vo) <= 1
                      /\ clap.w >= clap.h
                      /\ EnoughHeight(frame, clap.h)
    BY DEF CropValid
  <2> DEFINE h == ServedHeight(frame, TypicalCrop(boxes))
             y == (frame.h - h) \div 2
  <2>1. Report.source = frame
           /\ Report.content = [w |-> frame.w, h |-> h, x |-> 0, y |-> y]
    BY LetterboxOfFrame
  <2>2. h \in 1 .. frame.h /\ h <= frame.w /\ EnoughHeight(frame, h)
    BY LetterboxOfFrame, TypicalInFrame, ServedHeightFits DEF InFrame
  <2>3. frame.w \in Nat /\ frame.h \in Nat
    BY DEF InFrame, Dims
  <2> HIDE DEF h
  <2>4. y \in Nat /\ 2 * y <= frame.h - h /\ frame.h - h <= 2 * y + 1
    BY <2>2, <2>3
  <2> HIDE DEF y
  <2>5. Within(Report.content, frame)
    BY <2>1, <2>2, <2>3, <2>4 DEF Within
  <2> DEFINE clap == ClapParams(Report)
  <2>6. clap.w = frame.w /\ clap.h = h /\ clap.ho = 2 * 0 + frame.w - frame.w
           /\ clap.vo = 2 * y + h - frame.h
    BY <2>1 DEF ClapParams
  <2>7. clap.ho = 0 /\ clap.vo \in {-1, 0}
    BY <2>2, <2>3, <2>4, <2>6
  <2> QED
    BY <2>1, <2>2, <2>5, <2>6, <2>7 DEF Abs
<1> QED
  BY <1>1, InFrameHolds, PTL

-----------------------------------------------------------------------------
LEMMA IntervalSize ==
    ASSUME NEW n \in Nat
    PROVE  Cardinality(1 .. n) = n
<1>1. CASE n = 0
  BY <1>1, FS_Interval
<1>2. CASE n > 0
  BY <1>2, FS_Interval
<1> QED
  BY <1>1, <1>2

\* A value that more than half of the elements have is the median.
LEMMA MajorityIsMedian ==
    ASSUME NEW v \in Seq(Nat), NEW b \in Nat,
           2 * Cardinality({i \in DOMAIN v : v[i] = b}) > Len(v)
    PROVE  Median(v) = b
<1> DEFINE vals == {v[i] : i \in DOMAIN v}
           Upto(m) == {i \in DOMAIN v : v[i] <= m}
           upper == {m \in vals : 2 * Cardinality(Upto(m)) > Len(v)}
           same == {i \in DOMAIN v : v[i] = b}
<1>1. DOMAIN v = 1 .. Len(v) /\ Len(v) \in Nat
         /\ \A i \in 1 .. Len(v) : v[i] \in Nat
  OBVIOUS
<1>2. IsFiniteSet(DOMAIN v) /\ Cardinality(DOMAIN v) = Len(v)
  <2>1. IsFiniteSet(1 .. Len(v))
    BY <1>1, FS_Interval
  <2>2. Cardinality(1 .. Len(v)) = Len(v)
    BY <1>1, IntervalSize
  <2> QED
    BY <1>1, <2>1, <2>2
<1>3. \A S \in SUBSET DOMAIN v : IsFiniteSet(S) /\ Cardinality(S) \in Nat
  BY <1>2, FS_Subset, FS_CardinalityType
<1>4. same # {}
  <2> SUFFICES ASSUME same = {} PROVE FALSE
    OBVIOUS
  <2>1. Cardinality(same) = 0
    BY FS_EmptySet
  <2>2. 2 * Cardinality(same) > Len(v)
    OBVIOUS
  <2> HIDE DEF same
  <2> QED
    BY <1>1, <2>1, <2>2
<1>5. b \in upper
  <2>1. b \in vals
    BY <1>4
  <2>2. same \subseteq Upto(b) /\ IsFiniteSet(Upto(b))
    BY <1>1, <1>3
  <2>3. Cardinality(same) <= Cardinality(Upto(b))
    BY <2>2, FS_Subset
  <2>4. Cardinality(same) \in Nat /\ Cardinality(Upto(b)) \in Nat
    BY <1>3
  <2>5. 2 * Cardinality(Upto(b)) > Len(v)
    <3>1. 2 * Cardinality(same) > Len(v)
      OBVIOUS
    <3> HIDE DEF same, Upto
    <3> QED
      BY <1>1, <2>3, <2>4, <3>1
  <2> QED
    BY <2>1, <2>5
<1>6. ASSUME NEW k \in upper
      PROVE  b <= k
  <2> SUFFICES ASSUME k < b PROVE FALSE
    BY <1>1
  <2>1. k \in Nat
    BY <1>1
  <2>2. same \cap Upto(k) = {}
    BY <1>1, <2>1
  <2>3. Cardinality(same) \in Nat /\ Cardinality(Upto(k)) \in Nat
           /\ IsFiniteSet(same) /\ IsFiniteSet(Upto(k))
    BY <1>3
  <2>4. Cardinality(same \cup Upto(k)) <= Len(v)
    BY <1>2, FS_Subset
  <2>5. Cardinality(same \cup Upto(k)) = Cardinality(same) + Cardinality(Upto(k))
    <3> HIDE DEF same, Upto
    <3>1. Cardinality(same \cup Upto(k))
             = Cardinality(same) + Cardinality(Upto(k)) - Cardinality(same \cap Upto(k))
      BY <2>3, FS_Union
    <3>2. Cardinality(same \cap Upto(k)) = 0
      BY <2>2, FS_EmptySet
    <3> QED
      BY <2>3, <3>1, <3>2
  <2>6. 2 * Cardinality(same) > Len(v) /\ 2 * Cardinality(Upto(k)) > Len(v)
    OBVIOUS
  <2> HIDE DEF same, Upto
  <2> QED
    BY <1>1, <2>3, <2>4, <2>5, <2>6
<1>7. \A m \in upper : m \in Nat
  BY <1>1
<1>8. Median(v) = CHOOSE m \in upper : \A k \in upper : m <= k
  BY DEF Median
<1> HIDE DEF upper
<1>9. Median(v) \in upper /\ Median(v) <= b
  BY <1>5, <1>6, <1>8
<1>10. Median(v) \in Nat /\ b <= Median(v)
  BY <1>6, <1>7, <1>9
<1> HIDE DEF same
<1> QED
  BY <1>9, <1>10

\* The box of most keyframes is the typical one.
LEMMA MajorityIsTypical ==
    ASSUME NEW bs \in Seq(Rect), NEW b \in Rect,
           2 * Cardinality({i \in DOMAIN bs : bs[i] = b}) > Len(bs)
    PROVE  TypicalCrop(bs) = b
<1> DEFINE same == {i \in DOMAIN bs : bs[i] = b}
<1>1. DOMAIN bs = 1 .. Len(bs) /\ Len(bs) \in Nat
         /\ \A i \in 1 .. Len(bs) : bs[i] \in Rect
  OBVIOUS
<1>2. ASSUME NEW v \in Seq(Nat), NEW n \in Nat, Len(v) = Len(bs),
             \A i \in same : v[i] = n
      PROVE  Median(v) = n
  <2> DEFINE equal == {i \in DOMAIN v : v[i] = n}
  <2>1. DOMAIN v = 1 .. Len(bs)
    BY <1>2
  <2>2. same \subseteq equal
    BY <1>1, <1>2, <2>1
  <2>3. IsFiniteSet(equal)
    <3>1. IsFiniteSet(1 .. Len(bs))
      BY <1>1, FS_Interval
    <3>2. equal \subseteq 1 .. Len(bs)
      BY <2>1
    <3> QED
      BY <3>1, <3>2, FS_Subset
  <2>4. Cardinality(same) <= Cardinality(equal) /\ IsFiniteSet(same)
    BY <2>2, <2>3, FS_Subset
  <2>5. Cardinality(same) \in Nat /\ Cardinality(equal) \in Nat
    BY <2>3, <2>4, FS_CardinalityType
  <2>6. 2 * Cardinality(same) > Len(bs)
    OBVIOUS
  <2>7. 2 * Cardinality(equal) > Len(v)
    <3> HIDE DEF same, equal
    <3> QED
      BY <1>1, <1>2, <2>4, <2>5, <2>6
  <2> QED
    BY <2>7, MajorityIsMedian
<1> DEFINE ws == [i \in DOMAIN bs |-> bs[i].w]
           hs == [i \in DOMAIN bs |-> bs[i].h]
           xs == [i \in DOMAIN bs |-> bs[i].x]
           ys == [i \in DOMAIN bs |-> bs[i].y]
<1>3. \A i \in DOMAIN bs : /\ bs[i].w \in Nat /\ bs[i].h \in Nat
                           /\ bs[i].x \in Nat /\ bs[i].y \in Nat
  BY <1>1 DEF Rect
<1>4. /\ ws \in Seq(Nat) /\ Len(ws) = Len(bs)
      /\ hs \in Seq(Nat) /\ Len(hs) = Len(bs)
      /\ xs \in Seq(Nat) /\ Len(xs) = Len(bs)
      /\ ys \in Seq(Nat) /\ Len(ys) = Len(bs)
  BY <1>1, <1>3
<1>5. b.w \in Nat /\ b.h \in Nat /\ b.x \in Nat /\ b.y \in Nat
         /\ b = [w |-> b.w, h |-> b.h, x |-> b.x, y |-> b.y]
  BY DEF Rect
<1>6. \A i \in same : ws[i] = b.w /\ hs[i] = b.h /\ xs[i] = b.x /\ ys[i] = b.y
  OBVIOUS
<1>7. Median(ws) = b.w /\ Median(hs) = b.h
  <2> HIDE DEF ws, hs, xs, ys, same
  <2> QED
    BY <1>2, <1>4, <1>5, <1>6
<1>8. Median(xs) = b.x /\ Median(ys) = b.y
  <2> HIDE DEF ws, hs, xs, ys, same
  <2> QED
    BY <1>2, <1>4, <1>5, <1>6
<1> QED
  BY <1>5, <1>7, <1>8 DEF TypicalCrop

\* typical_crop: the box of more than half of the keyframes is the one that is
\* refined and served, however many keyframes there are and whatever the others
\* show, unless full frames decide.
THEOREM MajorityAlwaysDecides == Spec => []MajorityDecides
<1>1. InFrame => MajorityDecides
  <2> SUFFICES ASSUME InFrame, NEW b \in Box,
                      2 * Cardinality({i \in DOMAIN boxes : boxes[i] = b}) > Len(boxes),
                      ~ UsesFullFrame(boxes, Source)
               PROVE  Report = RefineReport(ReportFrom(Source, b))
    BY DEF MajorityDecides
  <2>1. boxes \in Seq(Rect) /\ b \in Rect
    BY CropAssumption DEF InFrame
  <2>2. TypicalCrop(boxes) = b
    BY <2>1, MajorityIsTypical
  <2>3. boxes # <<>>
    <3> SUFFICES ASSUME boxes = <<>> PROVE FALSE
      OBVIOUS
    <3>1. {i \in DOMAIN boxes : boxes[i] = b} = {} /\ Len(boxes) = 0
      OBVIOUS
    <3> QED
      BY <3>1, FS_EmptySet
  <2> QED
    BY <2>2, <2>3 DEF Report, Detect
<1> QED
  BY <1>1, InFrameHolds, PTL

-----------------------------------------------------------------------------
\* What lies above the median is less than half.
LEMMA FewAboveMedian ==
    ASSUME NEW v \in Seq(Nat), v # <<>>
    PROVE  2 * Cardinality({i \in DOMAIN v : v[i] > Median(v)}) <= Len(v)
<1> DEFINE upto == {i \in DOMAIN v : v[i] <= Median(v)}
           above == {i \in DOMAIN v : v[i] > Median(v)}
<1>1. DOMAIN v = 1 .. Len(v) /\ Len(v) \in Nat
         /\ \A i \in 1 .. Len(v) : v[i] \in Nat
  OBVIOUS
<1>2. 2 * Cardinality(upto) > Len(v)
  BY MedianIsElement
<1>3. IsFiniteSet(1 .. Len(v)) /\ Cardinality(1 .. Len(v)) = Len(v)
  BY <1>1, FS_Interval, IntervalSize
<1>4. Median(v) \in Nat
  <2>1. PICK i \in DOMAIN v : Median(v) = v[i]
    BY MedianIsElement
  <2> QED
    BY <1>1, <2>1
<1>5. upto \cup above = 1 .. Len(v) /\ upto \cap above = {}
  BY <1>1, <1>4
<1>6. IsFiniteSet(upto) /\ IsFiniteSet(above)
  BY <1>3, <1>5, FS_Subset
<1> HIDE DEF upto, above
<1>7. Cardinality(upto) \in Nat /\ Cardinality(above) \in Nat
  BY <1>6, FS_CardinalityType
<1>8. Cardinality(upto \cup above)
         = Cardinality(upto) + Cardinality(above) - Cardinality(upto \cap above)
  BY <1>6, FS_Union
<1>9. Cardinality(upto \cap above) = 0
  BY <1>5, FS_EmptySet
<1>10. Len(v) = Cardinality(upto) + Cardinality(above)
  <2>1. Cardinality(upto \cup above) = Len(v)
    BY <1>3, <1>5
  <2> QED
    BY <1>1, <1>7, <1>8, <1>9, <2>1
<1>11. 2 * Cardinality(above) <= Len(v)
  BY <1>1, <1>2, <1>7, <1>10
<1> QED
  BY <1>11 DEF above

\* A snap to a near standard aspect takes no more than 5% of the height.
LEMMA SnapKeepsHeight ==
    ASSUME NEW src \in Dims, NEW c, c.h \in 1 .. src.h
    PROVE  95 * c.h <= 100 * (ServedHeight(src, c) + 1)
<1> DEFINE snapped == {h \in {HeightOf(src.w, StdAspects[i]) :
                                i \in NearestStdAspect(src.w, c.h)} :
                         /\ h <= src.h
                         /\ EnoughHeight(src, h)
                         /\ h - c.h > SnapKeepPx \/ c.h - h > SnapKeepPx}
<1>1. ServedHeight(src, c) = IF snapped = {} THEN c.h ELSE CHOOSE h \in snapped : TRUE
  BY DEF ServedHeight
<1>2. src.w \in Nat /\ src.h \in Nat /\ c.h \in Nat
  BY DEF Dims
<1>3. ASSUME NEW h \in snapped
      PROVE  95 * c.h <= 100 * (h + 1)
  <2>1. PICK i \in NearestStdAspect(src.w, c.h) : h = HeightOf(src.w, StdAspects[i])
    OBVIOUS
  <2> DEFINE a == StdAspects[i]
             w == src.w
             x == c.h
  <2>2. a \in Nat /\ a >= 100 /\ 20 * AspectGap(w, x, a) <= a * x
    BY <2>1, CropAssumption DEF NearestStdAspect
  <2>3. h = (200 * w + a) \div (2 * a)
    BY <2>1 DEF HeightOf
  <2>4. w \in Nat /\ x \in Nat
    BY <1>2
  <2> HIDE DEF a, w, x
  <2>5. h \in Nat /\ 200 * w + a < (2 * a) * (h + 1)
    <3> DEFINE n == 200 * w + a
               d == 2 * a
    <3>1. n \in Nat /\ d \in Nat /\ d > 0
      BY <2>2, <2>4
    <3>2. h = n \div d
      BY <2>3
    <3> HIDE DEF n, d
    <3>3. h \in Nat /\ n < d * (h + 1)
      BY <3>1, <3>2
    <3> QED
      BY <3>3 DEF n, d
  <2>6. a * x \in Nat /\ a * (h + 1) \in Nat /\ (2 * a) * (h + 1) = 2 * (a * (h + 1))
    BY <2>2, <2>4, <2>5
  <2>7. 19 * (a * x) <= 2000 * w
    <3> DEFINE y == a * x
    <3>1. AspectGap(w, x, a) = IF y < 100 * w THEN 100 * w - y ELSE y - 100 * w
      BY DEF AspectGap
    <3>2. y \in Nat /\ 20 * AspectGap(w, x, a) <= y
      BY <2>2, <2>6
    <3> HIDE DEF y
    <3>3. 19 * y <= 2000 * w
      BY <2>4, <3>1, <3>2
    <3> QED
      BY <3>3 DEF y
  <2>8. 100 * w < a * (h + 1)
    <3> DEFINE z == a * (h + 1)
    <3>1. 200 * w + a < 2 * z /\ z \in Nat
      BY <2>5, <2>6
    <3> HIDE DEF z
    <3>2. 100 * w < z
      BY <2>2, <2>4, <3>1
    <3> QED
      BY <3>2 DEF z
  <2>9. 95 * (a * x) <= 100 * (a * (h + 1))
    <3> DEFINE y == a * x
               z == a * (h + 1)
    <3>1. y \in Nat /\ z \in Nat /\ 19 * y <= 2000 * w /\ 100 * w < z
      BY <2>6, <2>7, <2>8
    <3> HIDE DEF y, z
    <3>2. 95 * y <= 100 * z
      BY <2>4, <3>1
    <3> QED
      BY <3>2 DEF y, z
  <2>10. ~ (95 * x >= 100 * (h + 1) + 1)
    <3> SUFFICES ASSUME 95 * x >= 100 * (h + 1) + 1 PROVE FALSE
      OBVIOUS
    <3> DEFINE p == 95 * x
               q == 100 * (h + 1) + 1
    <3>1. p \in Nat /\ q \in Nat /\ q <= p
      BY <2>4, <2>5
    <3>2. a * p = 95 * (a * x) /\ a * q = 100 * (a * (h + 1)) + a
      BY <2>2, <2>4, <2>5
    <3> HIDE DEF p, q
    <3>3. a * q <= a * p /\ a * q \in Nat /\ a * p \in Nat
      BY <2>2, <3>1
    <3> QED
      BY <2>2, <2>6, <2>9, <3>2, <3>3
  <2>11. 95 * x <= 100 * (h + 1)
    BY <2>4, <2>5, <2>10
  <2> QED
    BY <2>11 DEF x
<1> HIDE DEF snapped
<1>4. CASE snapped = {}
  BY <1>1, <1>2, <1>4
<1>5. CASE snapped # {}
  <2>1. ServedHeight(src, c) \in snapped
    BY <1>1, <1>5
  <2> QED
    BY <1>3, <2>1
<1> QED
  BY <1>4, <1>5

\* typical_crop, refine_report and the full-frame test: for every video and any
\* number of keyframes, what is served cuts, beyond a snap, into the boxes of at
\* most half of them.
THEOREM ContentAlwaysKept == Spec => []ContentKept
<1>1. InFrame => ContentKept
  <2> SUFFICES ASSUME InFrame, Report.letterboxed
               PROVE  2 * Cardinality({i \in DOMAIN boxes :
                                         95 * boxes[i].h > 100 * (Report.content.h + 1)})
                          <= Len(boxes)
    BY DEF ContentKept
  <2> DEFINE c == TypicalCrop(boxes)
             served == Report.content.h
             hs == [i \in DOMAIN boxes |-> boxes[i].h]
             high == {i \in DOMAIN boxes : 95 * boxes[i].h > 100 * (served + 1)}
             above == {i \in DOMAIN hs : hs[i] > Median(hs)}
  <2>1. boxes # <<>> /\ served = ServedHeight(frame, c)
    BY LetterboxOfFrame
  <2>2. /\ DOMAIN boxes = 1 .. Len(boxes) /\ Len(boxes) \in Nat
        /\ \A i \in DOMAIN boxes : boxes[i].h \in Nat
        /\ frame \in Dims
    <3>1. \A i \in DOMAIN boxes : boxes[i] \in Rect
      BY DEF InFrame
    <3>2. \A b \in Rect : b.h \in Nat
      BY DEF Rect
    <3> QED
      BY <3>1, <3>2 DEF InFrame
  <2>3. c.h = Median(hs) /\ c.h \in 1 .. frame.h
    BY <2>1, TypicalInFrame DEF TypicalCrop
  <2>4. 95 * c.h <= 100 * (served + 1) /\ served \in Nat
    <3>1. 95 * c.h <= 100 * (served + 1)
      BY <2>1, <2>2, <2>3, SnapKeepsHeight
    <3>2. served \in Nat
      <4>1. Croppable(frame, c) /\ c.w \in 1 .. frame.w
        BY <2>1, LetterboxOfFrame, TypicalInFrame
      <4>2. served \in 1 .. frame.h
        BY <2>1, <2>2, <2>3, <4>1, ServedHeightFits
      <4> QED
        BY <2>2, <4>2 DEF Dims
    <3> QED
      BY <3>1, <3>2
  <2>5. hs \in Seq(Nat) /\ Len(hs) = Len(boxes) /\ hs # <<>> /\ DOMAIN hs = DOMAIN boxes
    <3>1. boxes \in Seq(Rect)
      BY DEF InFrame
    <3>2. Len(boxes) # 0
      BY <2>1, <3>1, EmptySeq
    <3>3. hs = [i \in 1 .. Len(boxes) |-> boxes[i].h]
      BY <2>2
    <3>4. hs \in Seq(Nat) /\ Len(hs) = Len(boxes)
      BY <2>2, <3>3
    <3> HIDE DEF hs
    <3> QED
      BY <2>2, <3>2, <3>4
  <2>6. 2 * Cardinality(above) <= Len(boxes)
    BY <2>5, FewAboveMedian
  <2>7. high \subseteq above
    <3> SUFFICES ASSUME NEW i \in DOMAIN boxes, 95 * boxes[i].h > 100 * (served + 1)
                 PROVE  boxes[i].h > c.h
      BY <2>3, <2>5
    <3> DEFINE x == boxes[i].h
               y == c.h
    <3>1. x \in Nat /\ y \in Nat /\ 95 * x > 100 * (served + 1)
             /\ 95 * y <= 100 * (served + 1)
      BY <2>2, <2>3, <2>4 DEF Dims
    <3> HIDE DEF x, y, served
    <3>2. x > y
      BY <2>4, <3>1
    <3> QED
      BY <3>2 DEF x, y
  <2>8. IsFiniteSet(1 .. Len(boxes))
    BY <2>2, FS_Interval
  <2>9. IsFiniteSet(above)
    BY <2>2, <2>5, <2>8, FS_Subset
  <2>10. 2 * Cardinality(high) <= Len(boxes)
    <3> HIDE DEF high, above
    <3>1. Cardinality(high) <= Cardinality(above) /\ IsFiniteSet(high)
      BY <2>7, <2>9, FS_Subset
    <3>2. Cardinality(high) \in Nat /\ Cardinality(above) \in Nat
      BY <2>9, <3>1, FS_CardinalityType
    <3> QED
      BY <2>2, <2>6, <3>1, <3>2
  <2> QED
    BY <2>10
<1> QED
  BY <1>1, InFrameHolds, PTL
=============================================================================
