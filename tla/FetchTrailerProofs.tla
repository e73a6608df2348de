------------------------- MODULE FetchTrailerProofs -------------------------
(***************************************************************************)
(* Proofs about FetchTrailer, for every set of callers and ids and every   *)
(* value of the limits.                                                    *)
(***************************************************************************)
EXTENDS FetchTrailer, FiniteSetTheorems, TLAPS

(***************************************************************************)
(* The inductive invariant.                                                *)
(***************************************************************************)

\* Whoever is inside fetch_trailer asked for an id.
CallerShape ==
    \A c \in Caller : caller[c].pc # "idle" => caller[c].vid \in Vid

\* Generations are handed out in order, and a download has an id.
GensInOrder ==
    \A g \in Gen : /\ g >= dlGen => job[g].phase = "unused"
                   /\ job[g].phase # "unused" => job[g].vid \in Vid

\* There is a generation left for every caller that may create a download.
RoomReserved == dlGen + Cardinality(Undecided) <= MaxGen

Base == TypeOK /\ CallerShape /\ GensInOrder /\ RoomReserved

\* A download that yt-dlp has completed has a temp file to publish.
TempThere ==
    \A g \in Gen : job[g].phase \in {"detecting", "baking", "publishing"} =>
                       temp[TempOf(g)] \in Content

IInv ==
    /\ Base
    /\ OneDownloadPerVid
    /\ WaiterMatches
    /\ TempThere

USE DEF Gen, NoGen

-----------------------------------------------------------------------------
(* Undecided only grows when a call starts.                                 *)

\* The undecided callers can be counted.
LEMMA UndecidedFinite ==
    ASSUME TypeOK
    PROVE  IsFiniteSet(Undecided) /\ Cardinality(Undecided) \in Nat
<1>1. IsFiniteSet(Undecided)
  BY CallersAssumption, FS_Subset DEF Undecided
<1> QED
  BY <1>1, FS_CardinalityType

\* A step that makes nobody undecided and takes no generation keeps the
\* reserve of generations.
LEMMA FewerUndecided ==
    ASSUME TypeOK, RoomReserved, dlGen' = dlGen, Undecided' \subseteq Undecided
    PROVE  RoomReserved'
<1>1. Cardinality(Undecided') <= Cardinality(Undecided)
  BY UndecidedFinite, FS_Subset
<1>2. Cardinality(Undecided') \in Nat
  BY UndecidedFinite, FS_Subset, FS_CardinalityType
<1> QED
  BY <1>1, <1>2, UndecidedFinite, LimitsAssumption DEF RoomReserved, TypeOK

-----------------------------------------------------------------------------
(* Each action preserves the typing part of the invariant.                  *)

\* The typing part holds when the service starts.
LEMMA BaseInit == Init => Base
<1> SUFFICES ASSUME Init PROVE Base
  OBVIOUS
<1>1. TypeOK
  BY PidAssumption, LimitsAssumption
     DEF Init, TypeOK, PathState, Content, Job, Task, unusedJob, idleTask,
         Phase
<1>2. CallerShape /\ GensInOrder
  BY DEF Init, CallerShape, GensInOrder, idleTask, unusedJob
<1>3. Undecided = {}
  BY DEF Init, Undecided, idleTask
<1> QED
  BY <1>1, <1>2, <1>3, FS_EmptySet, LimitsAssumption
     DEF Base, RoomReserved, Init

\* A call that starts preserves the typing part: it reserves a generation.
LEMMA BaseEnter ==
    ASSUME Base, NEW c \in Caller, NEW v \in Vid, Enter(c, v)
    PROVE  Base'
<1> USE DEF Base
<1>1. TypeOK'
  BY DEF Enter, TypeOK, Task, idleTask
<1>2. CallerShape' /\ GensInOrder'
  BY DEF Enter, TypeOK, Task, idleTask, CallerShape, GensInOrder
<1>3. Undecided' = Undecided \cup {c}
  BY DEF Enter, TypeOK, Task, idleTask, Undecided
<1>4. Cardinality(Undecided') <= Cardinality(Undecided) + 1
  <2>1. Cardinality(Undecided \cup {c}) = IF c \in Undecided
                                            THEN Cardinality(Undecided)
                                            ELSE Cardinality(Undecided) + 1
    BY UndecidedFinite, FS_AddElement
  <2> QED
    BY <1>3, <2>1, UndecidedFinite
<1>5. Cardinality(Undecided') \in Nat
  BY <1>3, UndecidedFinite, FS_AddElement, FS_CardinalityType
<1> QED
  BY <1>1, <1>2, <1>4, <1>5, UndecidedFinite, LimitsAssumption
     DEF Enter, RoomForCall, RoomReserved, TypeOK

\* So do the stat of fetch_trailer and joining an entry.
LEMMA BaseCaller ==
    ASSUME Base, NEW c \in Caller, StatHit(c) \/ StatMiss(c) \/ Join(c)
    PROVE  Base'
<1> USE DEF Base
<1>1. TypeOK'
  <2>1. CASE StatHit(c)
    BY <2>1 DEF StatHit, TypeOK, Task, Outcome
  <2>2. CASE StatMiss(c)
    BY <2>2 DEF StatMiss, TypeOK, Task
  <2>3. CASE Join(c)
    BY <2>3 DEF Join, TypeOK, Task, CallerShape
  <2> QED
    BY <2>1, <2>2, <2>3
<1>2. CallerShape'
  <2>1. caller \in [Caller -> Task]
    BY DEF TypeOK
  <2>2. CASE StatHit(c)
    BY <2>1, <2>2 DEF StatHit, Task, CallerShape
  <2>3. CASE StatMiss(c)
    BY <2>1, <2>3 DEF StatMiss, Task, CallerShape
  <2>4. CASE Join(c)
    BY <2>1, <2>4 DEF Join, Task, CallerShape
  <2> QED
    BY <2>2, <2>3, <2>4
<1>4. GensInOrder'
  BY DEF StatHit, StatMiss, Join, GensInOrder
<1>3. Undecided' \subseteq Undecided
  BY DEF StatHit, StatMiss, Join, TypeOK, Task, Undecided
<1> QED
  BY <1>1, <1>2, <1>3, <1>4, FewerUndecided DEF StatHit, StatMiss, Join

\* A caller about to create a download finds a generation to give it.
LEMMA GenLeft ==
    ASSUME Base, NEW c \in Caller, caller[c].pc = "missed"
    PROVE  dlGen \in Gen
<1> USE DEF Base
<1>1. c \in Undecided
  BY DEF Undecided
<1>2. Cardinality(Undecided) # 0
  BY <1>1, UndecidedFinite, FS_EmptySet
<1> QED
  BY <1>2, UndecidedFinite, LimitsAssumption DEF RoomReserved, TypeOK

\* So does creating a download: the generation it takes was reserved.
LEMMA BaseCreate ==
    ASSUME Base, NEW c \in Caller, Create(c)
    PROVE  Base'
<1> USE DEF Base
<1>1. dlGen \in Gen /\ dlGen \in Nat
  BY GenLeft DEF Create, TypeOK
<1>2. caller \in [Caller -> Task] /\ job \in [Gen -> Job]
  BY DEF TypeOK
<1>3. caller[c].vid \in Vid
  BY <1>2 DEF Create, CallerShape
<1>4. TypeOK'
  <2>1. caller' \in [Caller -> Task]
    BY <1>1, <1>2 DEF Create, Task
  <2>2. job' \in [Gen -> Job]
    BY <1>1, <1>2, <1>3 DEF Create, Job, unusedJob, Phase
  <2>3. inFlight' \in [Vid -> Gen \cup {NoGen}]
    BY <1>1, <1>3 DEF Create, TypeOK
  <2> QED
    BY <1>1, <2>1, <2>2, <2>3 DEF Create, TypeOK, TempName
<1>5. CallerShape'
  BY <1>2, <1>3 DEF Create, Task, CallerShape
<1>6. GensInOrder'
  BY <1>1, <1>2, <1>3 DEF Create, Job, unusedJob, GensInOrder
<1>7. RoomReserved'
  <2>1. Undecided' = Undecided \ {c} /\ c \in Undecided
    BY <1>2 DEF Create, Task, Undecided
  <2>2. Cardinality(Undecided \ {c}) = Cardinality(Undecided) - 1
    BY <2>1, UndecidedFinite, FS_RemoveElement
  <2> QED
    BY <1>1, <2>1, <2>2, UndecidedFinite, LimitsAssumption
       DEF Create, RoomReserved
<1> QED
  BY <1>4, <1>5, <1>6, <1>7

\* So does a caller that gets its answer or hangs up; the answer is an outcome
\* because the download awaited has completed.
LEMMA BaseLeave ==
    ASSUME Base, WaiterMatches, NEW c \in Caller, Answer(c) \/ Disconnect(c)
    PROVE  Base'
<1> USE DEF Base
<1>1. caller \in [Caller -> Task] /\ job \in [Gen -> Job]
  BY DEF TypeOK
<1>2. caller' \in [Caller -> Task]
  <2>1. CASE Answer(c)
    <3>1. job[caller[c].gen].result \in Outcome \cup {"none"}
      BY <1>1, <2>1 DEF Answer, WaiterMatches, Job
    <3> QED
      BY <1>1, <2>1, <3>1 DEF Answer, Task
  <2>2. CASE Disconnect(c)
    BY <1>1, <2>2 DEF Disconnect, Task, idleTask
  <2> QED
    BY <2>1, <2>2
<1>3. CallerShape'
  <2>1. CASE Answer(c)
    BY <1>1, <2>1 DEF Answer, Task, CallerShape
  <2>2. CASE Disconnect(c)
    BY <1>1, <2>2 DEF Disconnect, idleTask, CallerShape
  <2> QED
    BY <2>1, <2>2
<1>4. TypeOK'
  BY <1>2 DEF Answer, Disconnect, TypeOK
<1>6. GensInOrder'
  <2>1. UNCHANGED <<dlGen, job>>
    BY DEF Answer, Disconnect
  <2> QED
    BY <2>1 DEF GensInOrder
<1>5. Undecided' \subseteq Undecided
  <2>1. caller'[c].pc \in {"idle", "answered"}
    <3>1. CASE Answer(c)
      BY <1>1, <3>1 DEF Answer, Task
    <3>2. CASE Disconnect(c)
      BY <1>1, <3>2 DEF Disconnect, idleTask
    <3> QED
      BY <3>1, <3>2
  <2>2. \A d \in Caller : d # c => caller'[d] = caller[d]
    BY <1>1 DEF Answer, Disconnect
  <2> QED
    BY <2>1, <2>2 DEF Undecided
<1> QED
  BY <1>3, <1>4, <1>5, <1>6, FewerUndecided DEF Answer, Disconnect

\* The temp of a download that exists has a name of the right kind.
LEMMA TempNamed ==
    ASSUME Base, NEW g \in Gen, job[g].phase # "unused"
    PROVE  TempOf(g) \in TempName
<1>1. job[g].vid \in Vid /\ boot \in 0 .. MaxBoots
  BY DEF Base, GensInOrder, TypeOK
<1> QED
  BY <1>1, PidAssumption DEF TempOf, TempName

\* What all steps of a download have in common: no caller is touched, no
\* generation handed out, no other download changed; and a download stays live
\* until its driver clears it.
JobFrame(g) ==
    /\ UNCHANGED <<dlGen, caller, boot>>
    /\ files' \in [Vid -> PathState]
    /\ temp' \in [TempName -> PathState]
    /\ inFlight' \in [Vid -> Gen \cup {NoGen}]
    /\ extractFails' \in Nat
    /\ ended' \in Seq(Outcome)
    /\ cropCache' \in [Vid -> Report \cup {"none"}]
    /\ job' \in [Gen -> Job]
    /\ \A h \in Gen : h # g => job'[h] = job[h]
    /\ job'[g].vid = job[g].vid
    /\ job[g].phase \in Live
    /\ \/ job'[g].phase \in Live /\ inFlight' = inFlight
       \/ DriverClear(g) /\ job'[g].phase = "cleared"

\* Every step of a download is one of those JobFrame describes.
LEMMA JobStepFrame ==
    ASSUME Base, NEW g \in Gen, JobStep(g)
    PROVE  JobFrame(g)
<1> USE DEF Base, JobFrame, Live
<1>0. /\ files \in [Vid -> PathState]
      /\ temp \in [TempName -> PathState]
      /\ inFlight \in [Vid -> Gen \cup {NoGen}]
      /\ extractFails \in Nat
      /\ ended \in Seq(Outcome)
      /\ cropCache \in [Vid -> Report \cup {"none"}]
      /\ job \in [Gen -> Job]
  BY DEF TypeOK
<1>1. CASE AcquirePermit(g)
  BY <1>0, <1>1 DEF AcquirePermit, Job, Phase
<1>2. CASE WriteTemp(g)
  BY <1>0, <1>2 DEF WriteTemp, PathState, Content
<1>3. ASSUME NEW r \in Reason, DownloadFail(g, r)
      PROVE  JobFrame(g)
  <2>1. job' \in [Gen -> Job]
    BY <1>0, <1>3 DEF DownloadFail, Job, Phase, Outcome
  <2>2. temp' \in [TempName -> PathState]
    BY <1>0, <1>3 DEF DownloadFail, Unlinked, PathState
  <2>3. extractFails' \in Nat /\ ended' \in Seq(Outcome)
    BY <1>0, <1>3 DEF DownloadFail, Outcome
  <2>4. /\ \A h \in Gen : h # g => job'[h] = job[h]
        /\ job'[g].vid = job[g].vid /\ job'[g].phase = "done"
    BY <1>0, <1>3 DEF DownloadFail, Job
  <2> QED
    BY <1>0, <1>3, <2>1, <2>2, <2>3, <2>4 DEF DownloadFail
<1>4. CASE DownloadOk(g)
  <2>1. job' \in [Gen -> Job] /\ ended' \in Seq(Outcome)
    BY <1>0, <1>4 DEF DownloadOk, Job, Phase, Outcome
  <2>2. temp' \in [TempName -> PathState]
    BY <1>0, <1>4 DEF DownloadOk, Downloaded, PathState, Content
  <2>3. /\ \A h \in Gen : h # g => job'[h] = job[h]
        /\ job'[g].vid = job[g].vid /\ job'[g].phase = "detecting"
    BY <1>0, <1>4 DEF DownloadOk, Job
  <2> QED
    BY <1>0, <1>4, <2>1, <2>2, <2>3 DEF DownloadOk
<1>5. ASSUME NEW r \in Report, Detect(g, r)
      PROVE  JobFrame(g)
  BY <1>0, <1>5 DEF Detect, CacheReport, Job, Phase
<1>6. CASE DetectNothing(g)
  BY <1>0, <1>6 DEF DetectNothing, Job, Phase
<1>7. ASSUME NEW c \in Content, Bake(g, c)
      PROVE  JobFrame(g)
  BY <1>0, <1>7 DEF Bake, Job, Phase, PathState, Content
<1>8. CASE Publish(g)
  <2>1. temp[TempOf(g)] \in PathState
    BY <1>0, <1>8, TempNamed DEF Publish
  <2> QED
    BY <1>0, <1>8, <2>1 DEF Publish, Job, Phase, PathState
<1>9. CASE PublishFail(g)
  <2>1. temp' \in [TempName -> PathState]
    BY <1>0, <1>9 DEF PublishFail, Unlinked, PathState
  <2> QED
    BY <1>0, <1>9, <2>1, ReasonAssumption DEF PublishFail, Job, Phase, Outcome
<1>10. ASSUME NEW v \in Vid, Evict(g, v)
       PROVE  JobFrame(g)
  BY <1>0, <1>10 DEF Evict, PathState
<1>11. CASE FinishEvict(g)
  BY <1>0, <1>11 DEF FinishEvict, Job, Phase, Outcome
<1>12. CASE DriverClear(g)
  BY <1>0, <1>12 DEF DriverClear, Job, Phase
<1> QED
  BY <1>1, <1>2, <1>3, <1>4, <1>5, <1>6, <1>7, <1>8, <1>9, <1>10, <1>11,
     <1>12 DEF JobStep

\* The steps of a download preserve the typing part.
LEMMA BaseJob ==
    ASSUME Base, NEW g \in Gen, JobStep(g)
    PROVE  Base'
<1> USE DEF Base
<1>1. JobFrame(g)
  BY JobStepFrame
<1>2. TypeOK'
  BY <1>1 DEF JobFrame, TypeOK
<1>3. CallerShape'
  BY <1>1 DEF JobFrame, CallerShape
<1>4. GensInOrder'
  BY <1>1 DEF JobFrame, GensInOrder, Live
<1>5. Undecided' = Undecided
  BY <1>1 DEF JobFrame, Undecided
<1> QED
  BY <1>1, <1>2, <1>3, <1>4, <1>5, FewerUndecided DEF JobFrame

\* So does a restart.
LEMMA BaseCrash ==
    ASSUME Base, Crash
    PROVE  Base'
<1> USE DEF Base
<1>0. temp' \in [TempName -> PathState]
  BY DEF Crash, PathState
<1>j. job' \in [Gen -> Job] /\ caller' \in [Caller -> Task]
  BY DEF Crash, Job, Task, unusedJob, idleTask, Phase
<1>b. boot' \in 0 .. MaxBoots
  BY LimitsAssumption DEF Crash, TypeOK
<1>e. ended' \in Seq(Outcome) /\ files' \in [Vid -> PathState]
  BY DEF Crash, TypeOK
<1>m. /\ inFlight' \in [Vid -> Gen \cup {NoGen}]
      /\ cropCache' \in [Vid -> Report \cup {"none"}]
      /\ dlGen' \in Nat /\ extractFails' \in Nat
  BY DEF Crash
<1>1. TypeOK'
  BY <1>0, <1>j, <1>b, <1>e, <1>m DEF TypeOK
<1>2. CallerShape' /\ GensInOrder'
  BY DEF Crash, CallerShape, GensInOrder, idleTask, unusedJob
<1>3. Undecided' = {}
  BY DEF Crash, Undecided, idleTask
<1> QED
  BY <1>1, <1>2, <1>3, FS_EmptySet, LimitsAssumption DEF Crash, RoomReserved

\* The typing part is preserved by every step.
LEMMA BaseNext ==
    ASSUME Base, WaiterMatches, [Next]_vars
    PROVE  Base'
<1>1. CASE UNCHANGED vars
  <2>1. Undecided' = Undecided
    BY <1>1 DEF vars, Undecided
  <2> QED
    BY <1>1, <2>1
       DEF vars, Base, TypeOK, CallerShape, GensInOrder, RoomReserved
<1>2. ASSUME NEW c \in Caller, NEW v \in Vid, Call(c, v) \/ Prewarm(c, v)
      PROVE  Base'
  BY <1>2, BaseEnter DEF Call, Prewarm
<1>3. ASSUME NEW c \in Caller, CallerStep(c) \/ Disconnect(c)
      PROVE  Base'
  BY <1>3, BaseCaller, BaseCreate, BaseLeave DEF CallerStep
<1>4. ASSUME NEW g \in Gen, JobStep(g)
      PROVE  Base'
  BY <1>4, BaseJob
<1>5. CASE Crash
  BY <1>5, BaseCrash
<1>6. CASE Rest
  BY <1>1, <1>6 DEF Rest
<1> QED
  BY <1>1, <1>2, <1>3, <1>4, <1>5, <1>6 DEF Next

-----------------------------------------------------------------------------
(* One download per id, and every waiter on the right one.                  *)

\* Steps of callers other than Create leave the map and the downloads alone,
\* and move nobody to a download that is not of the id they want.
LEMMA CallersKeepFlights ==
    ASSUME Base, OneDownloadPerVid, WaiterMatches, NEW c \in Caller,
           \/ \E v \in Vid : Enter(c, v)
           \/ StatHit(c) \/ StatMiss(c) \/ Join(c) \/ Answer(c) \/ Disconnect(c)
    PROVE  OneDownloadPerVid' /\ WaiterMatches'
<1>1. caller \in [Caller -> Task] /\ job \in [Gen -> Job]
      /\ inFlight \in [Vid -> Gen \cup {NoGen}]
  BY DEF Base, TypeOK
<1>2. UNCHANGED <<inFlight, job>>
  BY DEF Enter, StatHit, StatMiss, Join, Answer, Disconnect
<1>3. \A d \in Caller : d # c => caller'[d] = caller[d]
  BY <1>1 DEF Enter, StatHit, StatMiss, Join, Answer, Disconnect
<1>4. caller'[c].pc = "awaiting" => Join(c)
  <2>1. ASSUME NEW v \in Vid, Enter(c, v)
        PROVE  caller'[c].pc = "stat"
    BY <1>1, <2>1 DEF Enter, Task, idleTask
  <2>2. CASE StatHit(c)
    BY <1>1, <2>2 DEF StatHit, Task
  <2>3. CASE StatMiss(c)
    BY <1>1, <2>3 DEF StatMiss, Task
  <2>4. CASE Answer(c)
    BY <1>1, <2>4 DEF Answer, Task
  <2>5. CASE Disconnect(c)
    BY <1>1, <2>5 DEF Disconnect, Task, idleTask
  <2> QED
    BY <2>1, <2>2, <2>3, <2>4, <2>5
<1>5. OneDownloadPerVid'
  BY <1>2 DEF OneDownloadPerVid
<1>6. WaiterMatches'
  <2>1. CASE Join(c)
    <3>1. caller[c].vid \in Vid
      BY <2>1 DEF Join, Base, CallerShape
    <3>2. /\ inFlight[caller[c].vid] \in Gen
          /\ job[inFlight[caller[c].vid]].vid = caller[c].vid
          /\ job[inFlight[caller[c].vid]].phase \in Live
      BY <1>1, <2>1, <3>1 DEF Join, OneDownloadPerVid
    <3>3. /\ caller'[c].gen = inFlight[caller[c].vid]
          /\ caller'[c].vid = caller[c].vid
      BY <1>1, <2>1 DEF Join, Task
    <3> QED
      BY <1>2, <1>3, <3>2, <3>3 DEF WaiterMatches, Live
  <2>2. CASE ~Join(c)
    BY <1>2, <1>3, <1>4, <2>2 DEF WaiterMatches
  <2> QED
    BY <2>1, <2>2
<1> QED
  BY <1>5, <1>6

\* Creating a download, under the lock and with no entry there, gives its id one
\* download.
LEMMA CreateKeepsFlights ==
    ASSUME Base, OneDownloadPerVid, WaiterMatches, NEW c \in Caller, Create(c)
    PROVE  OneDownloadPerVid' /\ WaiterMatches'
<1> DEFINE v == caller[c].vid
<1>1. caller \in [Caller -> Task] /\ job \in [Gen -> Job]
      /\ inFlight \in [Vid -> Gen \cup {NoGen}]
  BY DEF Base, TypeOK
<1>2. dlGen \in Gen /\ v \in Vid
  BY GenLeft DEF Create, Base, CallerShape
<1>3. job[dlGen].phase = "unused"
  BY <1>2 DEF Base, GensInOrder
<1>4. /\ job'[dlGen].vid = v /\ job'[dlGen].phase = "queued"
      /\ \A g \in Gen : g # dlGen => job'[g] = job[g]
  BY <1>1, <1>2 DEF Create, Job, unusedJob
<1>5. /\ inFlight'[v] = dlGen
      /\ \A u \in Vid : u # v => inFlight'[u] = inFlight[u]
  BY <1>1, <1>2 DEF Create
<1>6. /\ caller'[c].gen = dlGen /\ caller'[c].vid = v
      /\ \A d \in Caller : d # c => caller'[d] = caller[d]
  BY <1>1 DEF Create, Task
<1>7. OneDownloadPerVid'
  <2> SUFFICES ASSUME NEW g \in Gen, NEW u \in Vid
               PROVE  inFlight'[u] = g <=> job'[g].vid = u /\ job'[g].phase \in Live
    BY DEF OneDownloadPerVid
  <2>1. CASE u = v
    <3>1. CASE g = dlGen
      BY <1>4, <1>5, <2>1, <3>1 DEF Live
    <3>2. CASE g # dlGen
      BY <1>4, <1>5, <2>1, <3>2 DEF Create, OneDownloadPerVid
    <3> QED
      BY <3>1, <3>2
  <2>2. CASE u # v
    <3>1. CASE g = dlGen
      <4>1. ~(inFlight[u] = g)
        BY <1>3, <3>1 DEF OneDownloadPerVid, Live
      <4> QED
        BY <1>4, <1>5, <2>2, <3>1, <4>1
    <3>2. CASE g # dlGen
      BY <1>4, <1>5, <2>2, <3>2 DEF OneDownloadPerVid
    <3> QED
      BY <3>1, <3>2
  <2> QED
    BY <2>1, <2>2
<1>8. WaiterMatches'
  BY <1>2, <1>3, <1>4, <1>6 DEF WaiterMatches
<1> QED
  BY <1>7, <1>8

\* A step of a download leaves the entries of other ids alone, and its driver
\* clears its own.
LEMMA JobsKeepFlights ==
    ASSUME Base, OneDownloadPerVid, WaiterMatches, NEW g \in Gen, JobStep(g)
    PROVE  OneDownloadPerVid' /\ WaiterMatches'
<1>1. JobFrame(g)
  BY JobStepFrame
<1>2. WaiterMatches'
  BY <1>1 DEF JobFrame, WaiterMatches, Live
<1>3. CASE inFlight' = inFlight /\ job'[g].phase \in Live
  <2>1. OneDownloadPerVid'
    BY <1>1, <1>3 DEF JobFrame, OneDownloadPerVid
  <2> QED
    BY <1>2, <2>1
<1>4. CASE DriverClear(g) /\ job'[g].phase = "cleared"
  <2> DEFINE v == job[g].vid
  <2>1. job[g].vid \in Vid /\ inFlight \in [Vid -> Gen \cup {NoGen}]
    BY <1>4 DEF DriverClear, Base, GensInOrder, TypeOK
  <2>2. inFlight[v] = g
    BY <2>1, <1>4 DEF DriverClear, OneDownloadPerVid, Live
  <2>3. /\ inFlight'[v] = NoGen
        /\ \A u \in Vid : u # v => inFlight'[u] = inFlight[u]
    BY <1>4, <2>1, <2>2 DEF DriverClear
  <2>4. OneDownloadPerVid'
    <3> SUFFICES ASSUME NEW h \in Gen, NEW u \in Vid
                 PROVE  inFlight'[u] = h <=> job'[h].vid = u /\ job'[h].phase \in Live
      BY DEF OneDownloadPerVid
    <3>1. CASE h = g
      BY <1>1, <1>4, <2>2, <2>3, <3>1 DEF JobFrame, OneDownloadPerVid, Live
    <3>2. CASE h # g
      BY <1>1, <2>2, <2>3, <3>2 DEF JobFrame, OneDownloadPerVid
    <3> QED
      BY <3>1, <3>2
  <2> QED
    BY <1>2, <2>4
<1> QED
  BY <1>1, <1>3, <1>4 DEF JobFrame

-----------------------------------------------------------------------------
(* Files: a download owns its temp, and publishes it only when complete.    *)

\* Two downloads of one run of the service never share a temp name.
LEMMA TempsDiffer ==
    ASSUME NEW g \in Gen, NEW h \in Gen, g # h
    PROVE  TempOf(g) # TempOf(h)
BY DEF TempOf

\* No step of one download touches the temp of another, or renames one.
LEMMA TempFrame ==
    ASSUME Base, NEW g \in Gen, JobStep(g)
    PROVE  /\ TempOf(g) \in TempName
           /\ \A h \in Gen : TempOf(h)' = TempOf(h)
           /\ \A n \in TempName : n # TempOf(g) => temp'[n] = temp[n]
<1>1. JobFrame(g)
  BY JobStepFrame
<1>2. temp \in [TempName -> PathState] /\ job \in [Gen -> Job]
  BY DEF Base, TypeOK
<1>3. \A h \in Gen : TempOf(h)' = TempOf(h)
  <2> SUFFICES ASSUME NEW h \in Gen PROVE TempOf(h)' = TempOf(h)
    OBVIOUS
  <2>1. job'[h].vid = job[h].vid /\ boot' = boot
    BY <1>1 DEF JobFrame
  <2> QED
    BY <2>1 DEF TempOf
<1>4. TempOf(g) \in TempName
  BY <1>1, TempNamed DEF JobFrame, Live
<1>5. temp' = temp \/ \E t : temp' = [temp EXCEPT ![TempOf(g)] = t]
  <2>1. CASE WriteTemp(g) \/ Publish(g) \/ \E c \in Content : Bake(g, c)
    BY <2>1 DEF WriteTemp, Publish, Bake
  <2>2. CASE PublishFail(g) \/ \E r \in Reason : DownloadFail(g, r)
    BY <2>2 DEF PublishFail, DownloadFail, Unlinked
  <2>3. CASE DownloadOk(g)
    BY <2>3 DEF DownloadOk
  <2>4. CASE \/ AcquirePermit(g) \/ DetectNothing(g) \/ FinishEvict(g)
             \/ DriverClear(g)
             \/ \E r \in Report : Detect(g, r)
             \/ \E v \in Vid : Evict(g, v)
    BY <2>4 DEF AcquirePermit, Detect, DetectNothing, Evict, FinishEvict, DriverClear
  <2> QED
    BY <2>1, <2>2, <2>3, <2>4 DEF JobStep
<1> QED
  BY <1>2, <1>3, <1>4, <1>5

\* What is downloaded stays there until it is published.
LEMMA JobsKeepTemps ==
    ASSUME Base, TempThere, NEW g \in Gen, JobStep(g)
    PROVE  TempThere'
<1>1. JobFrame(g)
  BY JobStepFrame
<1>2. temp \in [TempName -> PathState] /\ job \in [Gen -> Job]
  BY DEF Base, TypeOK
<1>3. TempOf(g) \in TempName /\ \A h \in Gen : TempOf(h)' = TempOf(h)
  BY TempFrame
<1> DEFINE Mine == job'[g].phase \in {"detecting", "baking", "publishing"} =>
                       temp'[TempOf(g)] \in Content
<1>4. Mine
  <2>0. job[g].phase \in {"detecting", "baking", "publishing"} =>
            temp[TempOf(g)] \in Content
    BY DEF TempThere
  <2>1. CASE AcquirePermit(g)
    BY <1>2, <2>1 DEF AcquirePermit, Job
  <2>2. CASE WriteTemp(g)
    BY <2>2 DEF WriteTemp
  <2>3. ASSUME NEW r \in Reason, DownloadFail(g, r)
        PROVE  Mine
    BY <1>2, <2>3 DEF DownloadFail, Job
  <2>4. CASE DownloadOk(g)
    BY <1>2, <1>3, <2>4 DEF DownloadOk, Downloaded, Content
  <2>5. CASE DetectNothing(g) \/ \E r \in Report : Detect(g, r)
    BY <2>0, <2>5 DEF Detect, DetectNothing
  <2>6. ASSUME NEW c \in Content, Bake(g, c)
        PROVE  Mine
    BY <1>2, <1>3, <2>6 DEF Bake, Content
  <2>7. CASE Publish(g)
    BY <1>2, <2>7 DEF Publish, Job
  <2>8. CASE PublishFail(g)
    BY <1>2, <2>8 DEF PublishFail, Job
  <2>9. CASE \E v \in Vid : Evict(g, v)
    BY <2>9 DEF Evict
  <2>10. CASE FinishEvict(g)
    BY <1>2, <2>10 DEF FinishEvict, Job
  <2>11. CASE DriverClear(g)
    BY <1>2, <2>11 DEF DriverClear, Job
  <2> QED
    BY <2>1, <2>2, <2>3, <2>4, <2>5, <2>6, <2>7, <2>8, <2>9, <2>10, <2>11
       DEF JobStep
<1> SUFFICES ASSUME NEW h \in Gen,
                    job'[h].phase \in {"detecting", "baking", "publishing"}
             PROVE  temp'[TempOf(h)] \in Content
  BY <1>3 DEF TempThere
<1>5. CASE h = g
  BY <1>4, <1>5
<1>6. CASE h # g
  <2>1. job[h].phase \in {"detecting", "baking", "publishing"}
    BY <1>1, <1>6 DEF JobFrame
  <2>2. TempOf(h) \in TempName /\ TempOf(h) # TempOf(g)
    BY <1>6, <2>1, TempNamed, TempsDiffer
  <2> QED
    BY <2>1, <2>2, TempFrame DEF TempThere
<1> QED
  BY <1>5, <1>6

-----------------------------------------------------------------------------
(* The theorems.                                                            *)

\* The inductive invariant holds when the service starts.
LEMMA InvInit == Init => IInv
<1> SUFFICES ASSUME Init PROVE IInv
  OBVIOUS
<1>1. Base
  BY BaseInit
<1>2. \A g \in Gen : job[g].phase = "unused"
  BY DEF Init, unusedJob
<1>3. OneDownloadPerVid
  BY <1>2 DEF Init, OneDownloadPerVid, Live
<1>4. WaiterMatches /\ TempThere
  BY <1>2 DEF Init, WaiterMatches, TempThere, idleTask
<1> QED
  BY <1>1, <1>3, <1>4 DEF IInv

\* Every step preserves the inductive invariant.
LEMMA InvNext ==
    ASSUME IInv, [Next]_vars
    PROVE  IInv'
<1> USE DEF IInv
<1>1. Base'
  BY BaseNext
<1>2. CASE UNCHANGED vars
  BY <1>1, <1>2
     DEF vars, OneDownloadPerVid, WaiterMatches, TempThere, TempOf
<1>3. ASSUME NEW c \in Caller, NEW v \in Vid, Enter(c, v)
      PROVE  IInv'
  <2>1. OneDownloadPerVid' /\ WaiterMatches'
    BY <1>3, CallersKeepFlights
  <2>2. UNCHANGED <<temp, job, boot>>
    BY <1>3 DEF Enter
  <2> QED
    BY <1>1, <2>1, <2>2 DEF TempThere, TempOf
<1>4. ASSUME NEW c \in Caller,
             StatHit(c) \/ StatMiss(c) \/ Join(c) \/ Answer(c) \/ Disconnect(c)
      PROVE  IInv'
  <2>1. OneDownloadPerVid' /\ WaiterMatches'
    BY <1>4, CallersKeepFlights
  <2>2. UNCHANGED <<temp, job, boot>>
    BY <1>4 DEF StatHit, StatMiss, Join, Answer, Disconnect
  <2> QED
    BY <1>1, <2>1, <2>2 DEF TempThere, TempOf
<1>5. ASSUME NEW c \in Caller, Create(c)
      PROVE  IInv'
  <2>1. OneDownloadPerVid' /\ WaiterMatches'
    BY <1>5, CreateKeepsFlights
  <2>2. UNCHANGED <<temp, boot>>
    BY <1>5 DEF Create
  <2>3. \A h \in Gen : job'[h].phase \in {"detecting", "baking", "publishing"} =>
                           job'[h] = job[h]
    BY <1>5 DEF Create, Base, TypeOK, Job, unusedJob
  <2>4. TempThere'
    BY <2>2, <2>3 DEF TempThere, TempOf
  <2> QED
    BY <1>1, <2>1, <2>4
<1>6. ASSUME NEW g \in Gen, JobStep(g)
      PROVE  IInv'
  BY <1>1, <1>6, JobsKeepFlights, JobsKeepTemps
<1>7. CASE Crash
  <2>1. \A g \in Gen : job'[g].phase = "unused"
    BY <1>7 DEF Crash, unusedJob
  <2>2. OneDownloadPerVid'
    BY <1>7, <2>1 DEF Crash, OneDownloadPerVid, Live
  <2>3. WaiterMatches'
    BY <1>7 DEF Crash, WaiterMatches, idleTask
  <2>4. TempThere'
    BY <2>1 DEF TempThere
  <2> QED
    BY <1>1, <2>2, <2>3, <2>4
<1>8. CASE Rest
  BY <1>2, <1>8 DEF Rest
<1> QED
  BY <1>2, <1>3, <1>4, <1>5, <1>6, <1>7, <1>8
     DEF Next, Call, Prewarm, CallerStep

\* The invariant holds in every reachable state.
THEOREM Invariance == Spec => []IInv
<1> QED
  BY InvInit, InvNext, PTL DEF Spec

\* Every variable keeps its type; in particular a generation is always left for
\* a caller that is about to create a download.
THEOREM TypeCorrect == Spec => []TypeOK
<1>1. IInv => TypeOK
  BY DEF IInv, Base
<1> QED
  BY <1>1, Invariance, PTL

\* For any number of requests, prewarm tasks and ids, no id ever has two
\* downloads in flight and the map names the one it has.
THEOREM SingleDownload == Spec => []OneDownloadPerVid
<1>1. IInv => OneDownloadPerVid
  BY DEF IInv
<1> QED
  BY <1>1, Invariance, PTL

\* A waiter is never handed the download of another id.
THEOREM WaitersMatch == Spec => []WaiterMatches
<1>1. IInv => WaiterMatches
  BY DEF IInv
<1> QED
  BY <1>1, Invariance, PTL

-----------------------------------------------------------------------------
(* Temp files, when every run of the service has a process id of its own.   *)

FreshPids == \A a, b \in 0 .. MaxBoots : a # b => PidOf[a] # PidOf[b]

\* Nothing exists yet under the names of a later run of the service.
FutureTempsAbsent ==
    \A b \in 0 .. MaxBoots, v \in Vid, g \in Gen :
        b > boot => temp[<<PidOf[b], v, g>>] = "absent"

\* When a temp of the running process may hold something: while its download is
\* at it, and afterwards only if it could not be unlinked.
StageOf(t) == IF t = "left" THEN {"done", "cleared"} ELSE OwnsTemp

TempsOwned ==
    \A v \in Vid, g \in Gen :
        LET t == temp[<<PidOf[boot], v, g>>]
        IN  t # "absent" => job[g].vid = v /\ job[g].phase \in StageOf(t)

TInv == IInv /\ TempsOwned /\ FutureTempsAbsent

\* Every run of the service, id and generation has a temp name.
LEMMA TempNames ==
    ASSUME NEW b \in 0 .. MaxBoots, NEW v \in Vid, NEW g \in Gen
    PROVE  <<PidOf[b], v, g>> \in TempName
BY DEF TempName

\* A step of a download leaves a temp only under its own name, and only while it
\* is going to rename or unlink it, or has failed to.
LEMMA JobsOwnTemps ==
    ASSUME FreshPids, TInv, NEW g \in Gen, JobStep(g)
    PROVE  TempsOwned' /\ FutureTempsAbsent'
<1> USE DEF TInv, IInv
<1>1. JobFrame(g)
  BY JobStepFrame
<1>2. /\ temp \in [TempName -> PathState] /\ job \in [Gen -> Job]
      /\ boot \in 0 .. MaxBoots /\ boot' = boot
  BY <1>1 DEF Base, TypeOK, JobFrame
<1>3. /\ TempOf(g) = <<PidOf[boot], job[g].vid, g>>
      /\ TempOf(g) \in TempName /\ job[g].vid \in Vid
  BY <1>1, TempNamed DEF JobFrame, Live, TempOf, Base, GensInOrder
<1>o. \A n \in TempName : n # TempOf(g) => temp'[n] = temp[n]
  BY TempFrame
<1> DEFINE t == temp[TempOf(g)]
<1>4. t # "absent" => job[g].phase \in StageOf(t)
  BY <1>3 DEF TempsOwned
<1> DEFINE Mine == temp'[TempOf(g)] # "absent" =>
                       job'[g].phase \in StageOf(temp'[TempOf(g)])
<1>5. Mine
  <2> USE DEF StageOf, OwnsTemp
  <2>1. CASE AcquirePermit(g)
    <3>1. t = "absent"
      BY <1>4, <2>1 DEF AcquirePermit
    <3> QED
      BY <2>1, <3>1 DEF AcquirePermit
  <2>2. CASE WriteTemp(g)
    BY <1>2, <1>3, <2>2 DEF WriteTemp
  <2>3. ASSUME NEW r \in Reason, DownloadFail(g, r)
        PROVE  Mine
    BY <1>2, <1>3, <2>3 DEF DownloadFail, Unlinked
  <2>4. CASE DownloadOk(g)
    BY <1>2, <1>3, <2>4 DEF DownloadOk, Downloaded, Job
  <2>5. ASSUME NEW r \in Report, Detect(g, r)
        PROVE  Mine
    <3>1. t # "left"
      BY <1>4, <2>5 DEF Detect
    <3> QED
      BY <1>2, <2>5, <3>1 DEF Detect, Job
  <2>6. CASE DetectNothing(g)
    <3>1. t # "left"
      BY <1>4, <2>6 DEF DetectNothing
    <3> QED
      BY <1>2, <2>6, <3>1 DEF DetectNothing, Job
  <2>7. ASSUME NEW c \in Content, Bake(g, c)
        PROVE  Mine
    BY <1>2, <1>3, <2>7 DEF Bake, Content, Job
  <2>8. CASE Publish(g)
    BY <1>2, <1>3, <2>8 DEF Publish
  <2>9. CASE PublishFail(g)
    BY <1>2, <1>3, <2>9 DEF PublishFail, Unlinked
  <2>10. ASSUME NEW v \in Vid, Evict(g, v)
         PROVE  Mine
    BY <1>4, <2>10 DEF Evict
  <2>11. CASE FinishEvict(g)
    <3>1. t = "absent"
      BY <1>4, <2>11 DEF FinishEvict
    <3> QED
      BY <2>11, <3>1 DEF FinishEvict
  <2>12. CASE DriverClear(g)
    BY <1>2, <1>4, <2>12 DEF DriverClear, Job
  <2> QED
    BY <2>1, <2>2, <2>3, <2>4, <2>5, <2>6, <2>7, <2>8, <2>9, <2>10, <2>11,
       <2>12 DEF JobStep
<1> HIDE DEF t
<1>6. TempsOwned'
  <2> SUFFICES ASSUME NEW v \in Vid, NEW h \in Gen,
                      temp'[<<PidOf[boot], v, h>>] # "absent"
               PROVE  /\ job'[h].vid = v
                      /\ job'[h].phase \in StageOf(temp'[<<PidOf[boot], v, h>>])
    BY <1>2 DEF TempsOwned, StageOf
  <2>1. CASE <<PidOf[boot], v, h>> = TempOf(g)
    <3>1. v = job[g].vid /\ h = g
      BY <1>3, <2>1
    <3> QED
      BY <1>1, <1>5, <2>1, <3>1 DEF JobFrame
  <2>2. CASE <<PidOf[boot], v, h>> # TempOf(g)
    <3>1. temp'[<<PidOf[boot], v, h>>] = temp[<<PidOf[boot], v, h>>]
      BY <1>2, <1>o, <2>2, TempNames
    <3>2. /\ job[h].vid = v
          /\ job[h].phase \in StageOf(temp[<<PidOf[boot], v, h>>])
      BY <3>1 DEF TempsOwned
    <3>3. h # g
      BY <1>3, <2>2, <3>2
    <3> QED
      BY <1>1, <3>1, <3>2, <3>3 DEF JobFrame
  <2> QED
    BY <2>1, <2>2
<1>7. FutureTempsAbsent'
  <2> SUFFICES ASSUME NEW b \in 0 .. MaxBoots, NEW v \in Vid, NEW h \in Gen,
                      b > boot
               PROVE  temp'[<<PidOf[b], v, h>>] = "absent"
    BY <1>2 DEF FutureTempsAbsent
  <2>1. PidOf[b] # PidOf[boot]
    BY <1>2 DEF FreshPids
  <2>2. <<PidOf[b], v, h>> # TempOf(g)
    BY <1>3, <2>1
  <2> QED
    BY <1>o, <2>2, TempNames DEF FutureTempsAbsent
<1> QED
  BY <1>6, <1>7

\* Every step preserves the invariant about temp names.
LEMMA TempsNext ==
    ASSUME FreshPids, TInv, [Next]_vars
    PROVE  TInv'
<1> USE DEF TInv
<1>1. IInv'
  BY InvNext
<1>2. ASSUME UNCHANGED <<temp, job, boot>>
      PROVE  TempsOwned' /\ FutureTempsAbsent'
  BY <1>2 DEF TempsOwned, FutureTempsAbsent
<1>3. CASE UNCHANGED vars
  BY <1>1, <1>2, <1>3 DEF vars
<1>4. ASSUME NEW c \in Caller, NEW v \in Vid, Enter(c, v)
      PROVE  TempsOwned' /\ FutureTempsAbsent'
  BY <1>2, <1>4 DEF Enter
<1>5. ASSUME NEW c \in Caller,
             StatHit(c) \/ StatMiss(c) \/ Join(c) \/ Answer(c) \/ Disconnect(c)
      PROVE  TempsOwned' /\ FutureTempsAbsent'
  BY <1>2, <1>5 DEF StatHit, StatMiss, Join, Answer, Disconnect
<1>6. ASSUME NEW c \in Caller, Create(c)
      PROVE  TempsOwned' /\ FutureTempsAbsent'
  <2>1. dlGen \in Gen /\ job[dlGen].phase = "unused" /\ job \in [Gen -> Job]
    BY <1>6, GenLeft DEF Create, IInv, Base, GensInOrder, TypeOK
  <2>2. UNCHANGED <<temp, boot>>
    BY <1>6 DEF Create
  <2>3. \A g \in Gen : job[g].phase # "unused" => job'[g] = job[g]
    BY <1>6, <2>1 DEF Create
  <2>4. \A t : "unused" \notin StageOf(t)
    BY DEF StageOf, OwnsTemp
  <2>5. TempsOwned'
    <3> SUFFICES ASSUME NEW v \in Vid, NEW g \in Gen,
                        temp[<<PidOf[boot], v, g>>] # "absent"
                 PROVE  /\ job'[g].vid = v
                        /\ job'[g].phase \in StageOf(temp[<<PidOf[boot], v, g>>])
      BY <2>2 DEF TempsOwned, StageOf
    <3>1. /\ job[g].vid = v
          /\ job[g].phase \in StageOf(temp[<<PidOf[boot], v, g>>])
      BY DEF TempsOwned
    <3> QED
      BY <2>3, <2>4, <3>1
  <2> QED
    BY <2>2, <2>5 DEF FutureTempsAbsent
<1>7. ASSUME NEW g \in Gen, JobStep(g)
      PROVE  TempsOwned' /\ FutureTempsAbsent'
  BY <1>7, JobsOwnTemps
<1>8. CASE Crash
  <2>1. /\ boot' = boot + 1 /\ boot' \in 0 .. MaxBoots /\ boot \in 0 .. MaxBoots
        /\ \A n \in TempName : temp[n] = "absent" => temp'[n] = "absent"
    BY <1>8, <1>1 DEF Crash, IInv, Base, TypeOK
  <2>2. \A v \in Vid, g \in Gen : temp'[<<PidOf[boot'], v, g>>] = "absent"
    BY <2>1, TempNames DEF FutureTempsAbsent
  <2>3. FutureTempsAbsent'
    BY <2>1, TempNames DEF FutureTempsAbsent
  <2>4. TempsOwned'
    BY <2>2 DEF TempsOwned
  <2> QED
    BY <1>1, <2>3, <2>4
<1>9. CASE Rest
  BY <1>3, <1>9 DEF Rest
<1> QED
  BY <1>1, <1>3, <1>4, <1>5, <1>6, <1>7, <1>8, <1>9
     DEF Next, Call, Prewarm, CallerStep

\* With a process id per run, the invariant about temp names always holds.
LEMMA TempsInvariant == ASSUME FreshPids PROVE Spec => []TInv
<1>1. Init => TInv
  <2> SUFFICES ASSUME Init PROVE TInv
    OBVIOUS
  <2>1. \A b \in 0 .. MaxBoots, v \in Vid, g \in Gen :
            temp[<<PidOf[b], v, g>>] = "absent"
    BY TempNames DEF Init
  <2>2. boot \in 0 .. MaxBoots
    BY LimitsAssumption DEF Init
  <2> QED
    BY <2>1, <2>2, InvInit DEF TInv, TempsOwned, FutureTempsAbsent
<1>2. TInv /\ [Next]_vars => TInv'
  BY TempsNext
<1> QED
  BY <1>1, <1>2, PTL DEF Spec

\* With a process id per run, no outcome of download_cached forgets a temp file
\* of the running process.
THEOREM NoTempLeft == ASSUME FreshPids PROVE Spec => []NoOrphanTemp
<1>1. TInv => NoOrphanTemp
  BY DEF TInv, TempsOwned, StageOf, NoOrphanTemp
<1> QED
  BY <1>1, TempsInvariant, PTL

\* With a process id per run, every download starts on a fresh temp name.
THEOREM TempNamesFresh == ASSUME FreshPids PROVE Spec => FreshTemp
<1> DEFINE Step == \A g \in Gen :
             job[g].phase = "queued" /\ job'[g].phase = "downloading" =>
                 temp[TempOf(g)] = "absent"
<1>1. TInv => Step
  <2> SUFFICES ASSUME TInv, NEW g \in Gen, job[g].phase = "queued"
               PROVE  temp[TempOf(g)] = "absent"
    OBVIOUS
  <2>1. job[g].vid \in Vid
    BY DEF TInv, IInv, Base, GensInOrder
  <2> QED
    BY <2>1 DEF TInv, TempsOwned, StageOf, OwnsTemp, TempOf
<1>2. TInv => [Step]_vars
  BY <1>1
<1> QED
  BY <1>2, TempsInvariant, PTL DEF FreshTemp

\* A download that yt-dlp has completed has a complete temp file.
TempComplete ==
    \A g \in Gen : job[g].phase \in {"detecting", "baking", "publishing"} =>
                       temp[TempOf(g)] \in {"plain", "clapped"}

\* What is downloaded to a fresh name is complete, stays so while it is looked at
\* and baked, and is published so.
LEMMA JobsKeepComplete ==
    ASSUME TInv, BakeAtomic, TempComplete, PublishedFinal, NEW g \in Gen, JobStep(g)
    PROVE  TempComplete' /\ PublishedFinal'
<1>0. Base
  BY DEF TInv, IInv
<1>1. JobFrame(g)
  BY <1>0, JobStepFrame
<1>2. /\ temp \in [TempName -> PathState] /\ job \in [Gen -> Job]
      /\ files \in [Vid -> PathState]
  BY <1>0 DEF Base, TypeOK
<1>3. TempOf(g) \in TempName /\ \A h \in Gen : TempOf(h)' = TempOf(h)
  BY <1>0, TempFrame
<1>4. job[g].phase = "downloading" => temp[TempOf(g)] # "left"
  <2>1. job[g].phase = "downloading" => job[g].vid \in Vid
    BY <1>0 DEF Base, GensInOrder
  <2> QED
    BY <2>1 DEF TInv, TempsOwned, StageOf, TempOf
<1>5. job[g].phase \in {"detecting", "baking", "publishing"} =>
          temp[TempOf(g)] \in {"plain", "clapped"}
  BY DEF TempComplete
<1> DEFINE Mine == job'[g].phase \in {"detecting", "baking", "publishing"} =>
                       temp'[TempOf(g)] \in {"plain", "clapped"}
<1>6. Mine /\ PublishedFinal'
  <2>1. CASE AcquirePermit(g)
    BY <1>2, <2>1 DEF AcquirePermit, Job, PublishedFinal
  <2>2. CASE WriteTemp(g)
    BY <2>2 DEF WriteTemp, PublishedFinal
  <2>3. ASSUME NEW r \in Reason, DownloadFail(g, r)
        PROVE  Mine /\ PublishedFinal'
    BY <1>2, <2>3 DEF DownloadFail, Job, PublishedFinal
  <2>4. CASE DownloadOk(g)
    <3>1. temp' = [temp EXCEPT ![TempOf(g)] = "plain"]
      BY <1>4, <2>4 DEF DownloadOk, Downloaded
    <3> QED
      BY <1>2, <1>3, <2>4, <3>1 DEF DownloadOk, PublishedFinal
  <2>5. CASE DetectNothing(g) \/ \E r \in Report : Detect(g, r)
    BY <1>5, <2>5 DEF Detect, DetectNothing, PublishedFinal
  <2>6. ASSUME NEW c \in Content, Bake(g, c)
        PROVE  Mine /\ PublishedFinal'
    BY <1>2, <1>3, <1>5, <2>6 DEF Bake, Content, PublishedFinal
  <2>7. CASE Publish(g)
    <3>1. temp[TempOf(g)] \in {"plain", "clapped"}
      BY <1>5, <2>7 DEF Publish
    <3>2. job'[g].phase = "evicting"
      BY <1>2, <2>7 DEF Publish, Job
    <3> QED
      BY <1>2, <2>7, <3>1, <3>2 DEF Publish, PublishedFinal
  <2>8. CASE PublishFail(g)
    BY <1>2, <2>8 DEF PublishFail, Job, PublishedFinal
  <2>9. ASSUME NEW v \in Vid, Evict(g, v)
        PROVE  Mine /\ PublishedFinal'
    BY <1>2, <2>9 DEF Evict, PublishedFinal
  <2>10. CASE FinishEvict(g)
    BY <1>2, <2>10 DEF FinishEvict, Job, PublishedFinal
  <2>11. CASE DriverClear(g)
    BY <1>2, <2>11 DEF DriverClear, Job, PublishedFinal
  <2> QED
    BY <2>1, <2>2, <2>3, <2>4, <2>5, <2>6, <2>7, <2>8, <2>9, <2>10, <2>11
       DEF JobStep
<1>7. TempComplete'
  <2> SUFFICES ASSUME NEW h \in Gen,
                      job'[h].phase \in {"detecting", "baking", "publishing"}
               PROVE  temp'[TempOf(h)] \in {"plain", "clapped"}
    BY <1>3 DEF TempComplete
  <2>1. CASE h = g
    BY <1>6, <2>1
  <2>2. CASE h # g
    <3>1. job[h].phase \in {"detecting", "baking", "publishing"}
      BY <1>1, <2>2 DEF JobFrame
    <3>2. TempOf(h) \in TempName /\ TempOf(h) # TempOf(g)
      BY <1>0, <2>2, <3>1, TempNamed, TempsDiffer
    <3> QED
      BY <1>0, <3>1, <3>2, TempFrame DEF TempComplete
  <2> QED
    BY <2>1, <2>2
<1> QED
  BY <1>6, <1>7

\* With a process id per run and an MP4Box that never leaves half a file, a file
\* in the cache is complete, however often the process has crashed.
THEOREM PublishedComplete ==
    ASSUME FreshPids, BakeAtomic PROVE Spec => []PublishedFinal
<1> DEFINE Complete == TempComplete /\ PublishedFinal
<1>1. Init => Complete
  BY DEF Init, unusedJob, TempComplete, PublishedFinal
<1>2. TInv /\ Complete /\ [Next]_vars => Complete'
  <2> SUFFICES ASSUME TInv, TempComplete, PublishedFinal, [Next]_vars
               PROVE  TempComplete' /\ PublishedFinal'
    OBVIOUS
  <2>1. CASE UNCHANGED vars
    BY <2>1 DEF vars, TempComplete, PublishedFinal, TempOf
  <2>2. ASSUME NEW c \in Caller, NEW v \in Vid, Call(c, v) \/ Prewarm(c, v)
        PROVE  TempComplete' /\ PublishedFinal'
    <3>1. UNCHANGED <<files, temp, job, boot>>
      BY <2>2 DEF Call, Prewarm, Enter
    <3> QED
      BY <3>1 DEF TempComplete, PublishedFinal, TempOf
  <2>3. ASSUME NEW c \in Caller, CallerStep(c) \/ Disconnect(c)
        PROVE  TempComplete' /\ PublishedFinal'
    <3>1. /\ UNCHANGED <<files, temp, boot>>
          /\ job' = job \/ Create(c)
      BY <2>3 DEF CallerStep, StatHit, StatMiss, Join, Create, Answer, Disconnect
    <3>2. \A h \in Gen : job'[h].phase \in {"detecting", "baking", "publishing"} =>
                             job'[h] = job[h]
      <4>1. job \in [Gen -> Job]
        BY DEF TInv, IInv, Base, TypeOK
      <4>2. Create(c) => job' = [job EXCEPT ![dlGen] = [unusedJob EXCEPT
                                   !.vid = caller[c].vid, !.phase = "queued"]]
        BY DEF Create
      <4> QED
        BY <3>1, <4>1, <4>2 DEF Job, unusedJob
    <3> QED
      BY <3>1, <3>2 DEF TempComplete, PublishedFinal, TempOf
  <2>4. ASSUME NEW g \in Gen, JobStep(g)
        PROVE  TempComplete' /\ PublishedFinal'
    BY <2>4, JobsKeepComplete
  <2>5. CASE Crash
    BY <2>5 DEF Crash, unusedJob, TempComplete, PublishedFinal
  <2> QED
    BY <2>1, <2>2, <2>3, <2>4, <2>5 DEF Next, Rest
<1> HIDE DEF Complete
<1>3. Complete => PublishedFinal
  BY DEF Complete
<1> QED
  BY <1>1, <1>2, <1>3, TempsInvariant, PTL DEF Spec

-----------------------------------------------------------------------------
(* The bound of crop_cache.                                                 *)

Reported(cache) == {v \in Vid : cache[v] # "none"}

\* Whatever cache_report is given, it leaves no more than the cap: it empties a
\* full cache first and otherwise adds one entry at most.
LEMMA CacheReportBounded ==
    ASSUME CropCacheBounded, NEW v \in Vid, NEW r \in Report,
           cropCache' = CacheReport(v, r)
    PROVE  CropCacheBounded'
<1> DEFINE Old == Reported(cropCache)
           Grown == Reported(cropCache')
<1>1. IsFiniteSet(Old) /\ Cardinality(Old) \in Nat
  BY VidAssumption, FS_Subset, FS_CardinalityType DEF Reported
<1>2. CASE Cardinality(Old) >= CropCacheMax
  <2>1. Grown \subseteq {v}
    BY <1>2 DEF CacheReport, Reported
  <2>2. Cardinality({v}) = 1 /\ IsFiniteSet({v})
    BY FS_Singleton
  <2>3. Cardinality(Grown) <= 1
    BY <2>1, <2>2, FS_Subset
  <2>4. Cardinality(Grown) \in Nat
    BY <2>1, <2>2, FS_Subset, FS_CardinalityType
  <2> QED
    BY <2>3, <2>4, LimitsAssumption DEF CropCacheBounded, Reported
<1>3. CASE ~ Cardinality(Old) >= CropCacheMax
  <2>1. Grown \subseteq Old \cup {v}
    BY <1>3 DEF CacheReport, Reported
  <2> HIDE DEF Old, Grown
  <2>2. /\ IsFiniteSet(Old \cup {v})
        /\ Cardinality(Old \cup {v}) = IF v \in Old THEN Cardinality(Old)
                                      ELSE Cardinality(Old) + 1
    BY <1>1, FS_AddElement
  <2>3. Cardinality(Grown) <= Cardinality(Old \cup {v})
    BY <2>1, <2>2, FS_Subset
  <2>4. Cardinality(Grown) \in Nat /\ Cardinality(Old \cup {v}) \in Nat
    BY <2>1, <2>2, FS_Subset, FS_CardinalityType
  <2>5. Cardinality(Grown) <= CropCacheMax
    BY <1>1, <1>3, <2>2, <2>3, <2>4, LimitsAssumption
  <2> QED
    BY <2>5 DEF CropCacheBounded, Reported, Grown
<1> QED
  BY <1>2, <1>3

\* The report cache never outgrows CROP_CACHE_MAX.
THEOREM CropCacheStaysBounded == Spec => []CropCacheBounded
<1>1. Init => CropCacheBounded
  <2>1. Init => {v \in Vid : cropCache[v] # "none"} = {}
    BY DEF Init
  <2> QED
    BY <2>1, FS_EmptySet, LimitsAssumption DEF CropCacheBounded
<1>2. IInv /\ CropCacheBounded /\ [Next]_vars => CropCacheBounded'
  <2> SUFFICES ASSUME IInv, CropCacheBounded, [Next]_vars
               PROVE  CropCacheBounded'
    OBVIOUS
  <2>1. CASE UNCHANGED cropCache
    BY <2>1 DEF CropCacheBounded
  <2>2. ASSUME NEW g \in Gen, NEW r \in Report, Detect(g, r)
        PROVE  CropCacheBounded'
    <3>1. job[g].vid \in Vid
      BY <2>2 DEF Detect, IInv, Base, GensInOrder
    <3> QED
      BY <2>2, <3>1, CacheReportBounded DEF Detect
  <2>3. CASE Crash
    <3>1. {v \in Vid : cropCache'[v] # "none"} = {}
      BY <2>3 DEF Crash
    <3> QED
      BY <3>1, FS_EmptySet, LimitsAssumption DEF CropCacheBounded
  <2>4. ASSUME NEW c \in Caller, NEW v \in Vid, Call(c, v) \/ Prewarm(c, v)
        PROVE  UNCHANGED cropCache
    BY <2>4 DEF Call, Prewarm, Enter
  <2>5. ASSUME NEW c \in Caller, CallerStep(c) \/ Disconnect(c)
        PROVE  UNCHANGED cropCache
    BY <2>5 DEF CallerStep, StatHit, StatMiss, Join, Create, Answer, Disconnect
  <2>6. ASSUME NEW g \in Gen, JobStep(g)
        PROVE  UNCHANGED cropCache \/ \E r \in Report : Detect(g, r)
    BY <2>6 DEF JobStep, AcquirePermit, WriteTemp, DownloadFail, DownloadOk,
                DetectNothing, Bake, Publish, PublishFail, Evict, FinishEvict,
                DriverClear
  <2> QED
    BY <2>1, <2>2, <2>3, <2>4, <2>5, <2>6 DEF Next, Rest, vars
<1> QED
  BY <1>1, <1>2, Invariance, PTL DEF Spec

-----------------------------------------------------------------------------
(* The verdict of /health.                                                  *)

\* The downloads that have failed for a reason of the service since the last one
\* that worked.
SinceOk == {n \in 1 .. Len(ended) : \A m \in n .. Len(ended) : ended[m] # "ok"}
Failed == {n \in SinceOk : ended[n] = "extraction_failed"}

\* extract_fails is their number.
Blame == ended \in Seq(Outcome) /\ extractFails = Cardinality(Failed)

\* What one more outcome does to them.
LEMMA OneMore ==
    ASSUME ended \in Seq(Outcome), NEW o \in Outcome, ended' = Append(ended, o)
    PROVE  Failed' = IF o = "ok" THEN {}
                     ELSE IF o = "extraction_failed" THEN Failed \cup {Len(ended) + 1}
                     ELSE Failed
<1> DEFINE L == Len(ended)
<1>1. /\ L \in Nat /\ Len(ended') = L + 1 /\ ended'[L + 1] = o
      /\ \A n \in 1 .. L : ended'[n] = ended[n]
  OBVIOUS
<1>2. SinceOk' = {n \in 1 .. L + 1 : \A m \in n .. L + 1 : ended'[m] # "ok"}
  BY <1>1 DEF SinceOk
<1> HIDE DEF L
<1>3. CASE o = "ok"
  <2>1. SinceOk' = {}
    BY <1>1, <1>2, <1>3
  <2> QED
    BY <1>3, <2>1 DEF Failed
<1>4. CASE o # "ok"
  <2>1. SinceOk' = SinceOk \cup {L + 1}
    <3>1. SinceOk = {n \in 1 .. L : \A m \in n .. L : ended[m] # "ok"}
      BY DEF SinceOk, L
    <3>2. ASSUME NEW n \in 1 .. L
          PROVE  (\A m \in n .. L + 1 : ended'[m] # "ok")
                    <=> \A m \in n .. L : ended[m] # "ok"
      <4>1. \A m \in n .. L : m \in 1 .. L /\ m \in n .. L + 1
        BY <1>1
      <4>2. \A m \in n .. L + 1 : m \in n .. L \/ m = L + 1
        BY <1>1
      <4> QED
        BY <1>1, <1>4, <4>1, <4>2
    <3>3. \A m \in L + 1 .. L + 1 : ended'[m] # "ok"
      BY <1>1, <1>4
    <3>4. \A n \in 1 .. L + 1 : n \in 1 .. L \/ n = L + 1
      BY <1>1
    <3>5. \A n \in 1 .. L : n \in 1 .. L + 1
      BY <1>1
    <3>6. L + 1 \in 1 .. L + 1
      BY <1>1
    <3> QED
      BY <1>2, <3>1, <3>2, <3>3, <3>4, <3>5, <3>6
  <2>2. \A n \in SinceOk : ended'[n] = ended[n]
    BY <1>1 DEF SinceOk, L
  <2>3. Failed' = {n \in SinceOk \cup {L + 1} : ended'[n] = "extraction_failed"}
    BY <2>1 DEF Failed
  <2>4. CASE o = "extraction_failed"
    BY <1>1, <1>4, <2>2, <2>3, <2>4 DEF Failed, L
  <2>5. CASE o # "extraction_failed"
    BY <1>1, <1>4, <2>2, <2>3, <2>5 DEF Failed, L
  <2> QED
    BY <2>4, <2>5
<1> QED
  BY <1>3, <1>4

LEMMA FailedFinite ==
    ASSUME ended \in Seq(Outcome)
    PROVE  /\ IsFiniteSet(Failed) /\ Cardinality(Failed) \in Nat
           /\ Len(ended) + 1 \notin Failed
<1>1. Len(ended) \in Nat
  OBVIOUS
<1>2. IsFiniteSet(1 .. Len(ended))
  BY <1>1, FS_Interval
<1>3. Failed \subseteq 1 .. Len(ended)
  BY DEF Failed, SinceOk
<1>4. Len(ended) + 1 \notin Failed
  BY <1>1, <1>3
<1>5. IsFiniteSet(Failed)
  BY <1>2, <1>3, FS_Subset
<1> QED
  BY <1>4, <1>5, FS_CardinalityType

LEMMA BlameNext ==
    ASSUME Blame, [Next]_vars
    PROVE  Blame'
<1>1. CASE UNCHANGED <<ended, extractFails>>
  BY <1>1 DEF Blame, Failed, SinceOk
<1>2. ASSUME NEW g \in Gen, NEW r \in Reason, DownloadFail(g, r)
      PROVE  Blame'
  <2>1. r \in Outcome /\ r # "ok" /\ ended' = Append(ended, r)
    BY <1>2, ReasonAssumption DEF DownloadFail, Outcome
  <2>2. ended' \in Seq(Outcome)
    BY <2>1 DEF Blame
  <2>3. CASE r = "extraction_failed"
    <3>1. Failed' = Failed \cup {Len(ended) + 1}
      BY <2>1, <2>3, OneMore DEF Blame
    <3>2. Cardinality(Failed') = Cardinality(Failed) + 1
      BY <3>1, FailedFinite, FS_AddElement DEF Blame
    <3>3. extractFails' = extractFails + 1
      BY <1>2, <2>3 DEF DownloadFail
    <3> QED
      BY <2>2, <3>2, <3>3 DEF Blame
  <2>4. CASE r # "extraction_failed"
    <3>1. Failed' = Failed
      BY <2>1, <2>4, OneMore DEF Blame
    <3>2. extractFails' = extractFails
      BY <1>2, <2>4 DEF DownloadFail
    <3> QED
      BY <2>2, <3>1, <3>2 DEF Blame
  <2> QED
    BY <2>3, <2>4
<1>3. ASSUME NEW g \in Gen, DownloadOk(g)
      PROVE  Blame'
  <2>1. "ok" \in Outcome /\ ended' = Append(ended, "ok") /\ extractFails' = 0
    BY <1>3 DEF DownloadOk, Outcome
  <2>2. ended' \in Seq(Outcome)
    BY <2>1 DEF Blame
  <2>3. Failed' = {}
    BY <2>1, OneMore DEF Blame
  <2> QED
    BY <2>1, <2>2, <2>3, FS_EmptySet DEF Blame
<1>4. CASE Crash
  <2>1. ended' = <<>> /\ extractFails' = 0
    BY <1>4 DEF Crash
  <2>2. Failed' = {}
    BY <2>1 DEF Failed, SinceOk
  <2> QED
    BY <2>1, <2>2, FS_EmptySet DEF Blame
<1>5. ASSUME NEW c \in Caller, NEW v \in Vid, Call(c, v) \/ Prewarm(c, v)
      PROVE  UNCHANGED <<ended, extractFails>>
  BY <1>5 DEF Call, Prewarm, Enter
<1>6. ASSUME NEW c \in Caller, CallerStep(c) \/ Disconnect(c)
      PROVE  UNCHANGED <<ended, extractFails>>
  BY <1>6 DEF CallerStep, StatHit, StatMiss, Join, Create, Answer, Disconnect
<1>7. ASSUME NEW g \in Gen, JobStep(g)
      PROVE  \/ UNCHANGED <<ended, extractFails>>
             \/ DownloadOk(g) \/ \E r \in Reason : DownloadFail(g, r)
  BY <1>7 DEF JobStep, AcquirePermit, WriteTemp, Detect, DetectNothing, Bake,
              Publish, PublishFail, Evict, FinishEvict, DriverClear
<1> QED
  BY <1>1, <1>2, <1>3, <1>4, <1>5, <1>6, <1>7 DEF Next, Rest, vars

\* /health blames the extractor exactly for a run of failures of its own.
THEOREM BlameDeserved == Spec => []ExtractorBlamed
<1>1. Init => Blame
  <2> SUFFICES ASSUME Init PROVE Blame
    OBVIOUS
  <2>1. ended = <<>> /\ extractFails = 0
    BY DEF Init
  <2>2. Failed = {}
    BY <2>1 DEF Failed, SinceOk
  <2> QED
    BY <2>1, <2>2, FS_EmptySet DEF Blame
<1>2. Blame /\ [Next]_vars => Blame'
  BY BlameNext
<1>3. Blame => ExtractorBlamed
  <2> SUFFICES ASSUME Blame PROVE ExtractorBlamed
    OBVIOUS
  <2>1. HealthFailThreshold \in Nat \ {0}
    BY HealthAssumption
  <2>2. HealthBody(TRUE, 0, extractFails) = "extractor_unavailable"
            <=> extractFails >= HealthFailThreshold
    BY <2>1 DEF HealthBody
  <2> QED
    BY <2>2 DEF Blame, ExtractorBlamed, Failed, SinceOk
<1> QED
  BY <1>1, <1>2, <1>3, PTL DEF Spec
=============================================================================
