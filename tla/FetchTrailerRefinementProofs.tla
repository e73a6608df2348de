-------------------- MODULE FetchTrailerRefinementProofs --------------------
(***************************************************************************)
(* The safety part of FetchTrailerRefinement, for every value of the       *)
(* constants: every step of fetch_trailer, its downloads and its drivers   *)
(* is a step of SingleFlight or leaves it unchanged.                       *)
(***************************************************************************)
EXTENDS FetchTrailerRefinement, FetchTrailerProofs

USE DEF Gen, NoGen

\* A service that has just started has no flight, stores nothing and nobody asks.
LEMMA RefinesInit == Init => SF!Init
<1> SUFFICES ASSUME Init PROVE SF!Init
  OBVIOUS
<1>1. flightBar = [v \in Vid |-> SF!NoFlight]
  BY DEF Init, flightBar, FlightOf, SF!NoFlight
<1>2. storedBar = {}
  BY DEF Init, storedBar
<1>3. askBar = [c \in Caller |-> SF!NotAsking]
  BY DEF Init, askBar, AskOf, idleTask, SF!NotAsking
<1> QED
  BY <1>1, <1>2, <1>3 DEF SF!Init

\* An action of the callers changes what one of them asks.
LEMMA OneAsks ==
    ASSUME IInv, NEW c \in Caller, UNCHANGED <<files, inFlight, job>>,
           \A d \in Caller : d # c => caller'[d] = caller[d]
    PROVE  /\ UNCHANGED <<flightBar, storedBar>>
           /\ askBar' = [askBar EXCEPT ![c] = AskOf(c)']
<1>1. \A d \in Caller : d # c => AskOf(d)' = AskOf(d)
  BY DEF AskOf
<1>2. \A v \in Vid : FlightOf(v)' = FlightOf(v)
  BY DEF FlightOf
<1> QED
  BY <1>1, <1>2 DEF flightBar, storedBar, askBar

\* A call that starts is somebody who asks.
LEMMA RefinesEnter ==
    ASSUME IInv, NEW c \in Caller, NEW v \in Vid, Enter(c, v)
    PROVE  SF!Ask(c, v)
<1>1. caller \in [Caller -> Task]
  BY DEF IInv, Base, TypeOK
<1>2. \A d \in Caller : d # c => caller'[d] = caller[d]
  BY <1>1 DEF Enter
<1>3. caller'[c].pc = "stat" /\ caller'[c].vid = v
  BY <1>1 DEF Enter, idleTask
<1>4. AskOf(c)' = [st |-> "asking", key |-> v]
  BY <1>3 DEF AskOf
<1>5. AskOf(c).st \in {"idle", "answered"}
  BY DEF Enter, AskOf
<1>6. askBar[c] = AskOf(c)
  BY DEF askBar
<1> QED
  BY <1>2, <1>4, <1>5, <1>6, OneAsks DEF Enter, SF!Ask

\* A caller that hits is told so; one that joins boards the flight or comes
\* late; one that is answered was told before; one that hangs up abandons.
LEMMA RefinesCaller ==
    ASSUME IInv, NEW c \in Caller,
           StatHit(c) \/ StatMiss(c) \/ Join(c) \/ Answer(c) \/ Disconnect(c)
    PROVE  SF!Next \/ UNCHANGED SF!svars
<1>1. caller \in [Caller -> Task] /\ inFlight \in [Vid -> Gen \cup {NoGen}]
  BY DEF IInv, Base, TypeOK
<1>2. /\ \A d \in Caller : d # c => caller'[d] = caller[d]
      /\ UNCHANGED <<files, inFlight, job>>
  BY <1>1 DEF StatHit, StatMiss, Join, Answer, Disconnect
<1>3. /\ UNCHANGED <<flightBar, storedBar>>
      /\ askBar' = [askBar EXCEPT ![c] = AskOf(c)']
      /\ askBar[c] = AskOf(c)
  BY <1>2, OneAsks DEF askBar
<1>4. CASE StatHit(c)
  <2>1. caller[c].vid \in Vid /\ files[caller[c].vid] # "absent"
    BY <1>4 DEF StatHit, IInv, Base, CallerShape
  <2>2. AskOf(c) = [st |-> "asking", key |-> caller[c].vid]
    BY <1>4 DEF StatHit, AskOf
  <2>3. caller'[c].pc = "answered" /\ caller'[c].reply = "ok"
    BY <1>1, <1>4 DEF StatHit, Task
  <2>4. AskOf(c)' = SF!Told("ok")
    BY <2>3 DEF AskOf, SF!Told
  <2>5. caller[c].vid \in storedBar
    BY <2>1 DEF storedBar
  <2>6. SF!Hit(c)
    BY <1>3, <2>2, <2>4, <2>5 DEF SF!Hit
  <2> QED
    BY <2>6 DEF SF!Next
<1>5. CASE StatMiss(c)
  <2>1. caller'[c].pc = "missed" /\ caller'[c].vid = caller[c].vid
    BY <1>1, <1>5 DEF StatMiss, Task
  <2>2. AskOf(c)' = AskOf(c)
    BY <1>5, <2>1 DEF StatMiss, AskOf
  <2> QED
    BY <1>3, <2>2 DEF SF!svars, askBar
<1>6. CASE Join(c)
  <2> DEFINE v == caller[c].vid
             g == inFlight[v]
  <2>1. v \in Vid
    BY <1>6 DEF Join, IInv, Base, CallerShape
  <2>2. g \in Gen /\ job[g].vid = v /\ job[g].phase \in Live
    BY <1>1, <1>6, <2>1 DEF Join, IInv, OneDownloadPerVid
  <2>3. AskOf(c) = [st |-> "asking", key |-> v]
    BY <1>6 DEF Join, AskOf
  <2>4. /\ caller'[c].pc = "awaiting" /\ caller'[c].gen = g
        /\ caller'[c].vid = v /\ job' = job
    BY <1>1, <1>6 DEF Join, Task
  <2>5. flightBar[v] = FlightOf(v)
    BY <2>1 DEF flightBar
  <2>6. CASE job[g].phase = "done"
    <3>1. flightBar[v] = [st |-> "landed", outcome |-> job[g].result]
      BY <2>2, <2>5, <2>6 DEF FlightOf
    <3>2. AskOf(c)' = SF!Told(job[g].result)
      BY <2>4, <2>6 DEF AskOf, SF!Told
    <3>3. askBar[c].st = "asking" /\ askBar[c].key = v
      BY <1>3, <2>3
    <3>4. flightBar[v].st = "landed" /\ flightBar[v].outcome = job[g].result
      BY <3>1
    <3>5. askBar' = [askBar EXCEPT ![c] = SF!Told(flightBar[v].outcome)]
      BY <1>3, <3>2, <3>4
    <3>6. SF!Late(c)
      BY <1>3, <3>3, <3>4, <3>5 DEF SF!Late
    <3> QED
      BY <3>6 DEF SF!Next
  <2>7. CASE job[g].phase # "done"
    <3>1. flightBar[v].st \in {"aloft", "stowed"}
      BY <2>2, <2>5, <2>7 DEF FlightOf
    <3>2. AskOf(c)' = [st |-> "aboard", key |-> v]
      BY <2>2, <2>4, <2>7 DEF AskOf, Live
    <3>3. flightBar[v] # SF!NoFlight
      BY <3>1 DEF SF!NoFlight
    <3>4. SF!Board(c, v)
      BY <1>3, <2>3, <3>1, <3>2, <3>3 DEF SF!Board
    <3> QED
      BY <2>1, <3>4 DEF SF!Next
  <2> QED
    BY <2>6, <2>7
<1>7. CASE Answer(c)
  <2>1. /\ caller'[c].pc = "answered"
        /\ caller'[c].reply = job[caller[c].gen].result
    BY <1>1, <1>7 DEF Answer, Task
  <2>2. AskOf(c)' = AskOf(c)
    BY <1>7, <2>1 DEF Answer, AskOf
  <2> QED
    BY <1>3, <2>2 DEF SF!svars, askBar
<1>8. CASE Disconnect(c)
  <2>1. AskOf(c)' = SF!NotAsking
    BY <1>1, <1>8 DEF Disconnect, AskOf, idleTask, SF!NotAsking
  <2> QED
    BY <1>3, <2>1 DEF SF!Next, SF!Abandon
<1> QED
  BY <1>4, <1>5, <1>6, <1>7, <1>8

\* Creating a download is boarding a flight that takes off.
LEMMA RefinesCreate ==
    ASSUME IInv, NEW c \in Caller, NEW v \in Vid, caller[c].vid = v, Create(c)
    PROVE  SF!Board(c, v)
<1>1. caller \in [Caller -> Task] /\ inFlight \in [Vid -> Gen \cup {NoGen}]
      /\ job \in [Gen -> Job]
  BY DEF IInv, Base, TypeOK
<1>2. dlGen \in Gen /\ job[dlGen].phase = "unused"
  BY GenLeft DEF Create, IInv, Base, GensInOrder
<1>3. /\ job'[dlGen].phase = "queued"
      /\ \A g \in Gen : g # dlGen => job'[g] = job[g]
      /\ inFlight'[v] = dlGen
      /\ \A u \in Vid : u # v => inFlight'[u] = inFlight[u]
      /\ caller'[c].pc = "awaiting" /\ caller'[c].gen = dlGen
      /\ caller'[c].vid = v
      /\ \A d \in Caller : d # c => caller'[d] = caller[d]
  BY <1>1, <1>2 DEF Create, unusedJob, Task
<1>4. \A u \in Vid : u # v => FlightOf(u)' = FlightOf(u)
  <2> SUFFICES ASSUME NEW u \in Vid, u # v PROVE FlightOf(u)' = FlightOf(u)
    OBVIOUS
  <2>1. inFlight[u] # dlGen
    BY <1>2 DEF IInv, OneDownloadPerVid, Live
  <2>2. inFlight[u] # NoGen => job'[inFlight[u]] = job[inFlight[u]]
    BY <1>1, <1>3, <2>1
  <2> QED
    BY <1>3, <2>2 DEF FlightOf
<1>5. FlightOf(v) = SF!NoFlight
  BY DEF Create, FlightOf, SF!NoFlight
<1>6. FlightOf(v)' = [st |-> "aloft"]
  BY <1>2, <1>3 DEF FlightOf
<1>7. flightBar[v] = SF!NoFlight
      /\ flightBar' = [flightBar EXCEPT ![v] = [st |-> "aloft"]]
  <2>1. flightBar = [u \in Vid |-> FlightOf(u)]
        /\ flightBar' = [u \in Vid |-> FlightOf(u)']
    BY DEF flightBar
  <2> QED
    BY <1>2, <1>4, <1>5, <1>6, <2>1
<1>8. \A d \in Caller : d # c => AskOf(d)' = AskOf(d)
  <2> SUFFICES ASSUME NEW d \in Caller, d # c PROVE AskOf(d)' = AskOf(d)
    OBVIOUS
  <2>1. caller[d].pc = "awaiting" => job'[caller[d].gen] = job[caller[d].gen]
    BY <1>2, <1>3 DEF IInv, WaiterMatches
  <2>2. caller'[d] = caller[d]
    BY <1>3
  <2> QED
    BY <2>1, <2>2 DEF AskOf
<1>9. AskOf(c) = [st |-> "asking", key |-> v]
  BY DEF Create, AskOf
<1>10. AskOf(c)' = [st |-> "aboard", key |-> v]
  BY <1>2, <1>3 DEF AskOf
<1>11. askBar[c] = [st |-> "asking", key |-> v]
       /\ askBar' = [askBar EXCEPT ![c] = [st |-> "aboard", key |-> v]]
  BY <1>8, <1>9, <1>10 DEF askBar
<1>12. storedBar' = storedBar
  BY DEF Create, storedBar
<1>13. flightBar[v].st # "landed"
  BY <1>7 DEF SF!NoFlight
<1> QED
  BY <1>2, <1>7, <1>11, <1>12, <1>13 DEF SF!Board

\* A step of a download changes the flight of its id and nobody else's, and
\* what its own waiters are told.
LEMMA OneFlies ==
    ASSUME IInv, NEW g \in Gen, JobStep(g), NEW v \in Vid, job[g].vid = v
    PROVE  /\ inFlight[v] = g
           /\ flightBar[v] = FlightOf(v)
           /\ flightBar' = [flightBar EXCEPT ![v] = FlightOf(v)']
           /\ \A c \in Caller :
                 ~(caller[c].pc = "awaiting" /\ caller[c].gen = g) =>
                     AskOf(c)' = AskOf(c)
<1>1. JobFrame(g)
  BY JobStepFrame DEF IInv
<1>2. inFlight \in [Vid -> Gen \cup {NoGen}]
  BY DEF IInv, Base, TypeOK
<1>3. inFlight[v] = g
  BY <1>1 DEF JobFrame, IInv, OneDownloadPerVid
<1>4. \A u \in Vid : u # v => inFlight'[u] = inFlight[u] /\ inFlight[u] # g
  <2>1. \A u \in Vid : u # v => inFlight[u] # g
    BY <1>1 DEF JobFrame, IInv, OneDownloadPerVid
  <2> QED
    BY <1>1, <1>2, <2>1 DEF JobFrame, DriverClear
<1>5. \A u \in Vid : u # v => FlightOf(u)' = FlightOf(u)
  <2> SUFFICES ASSUME NEW u \in Vid, u # v PROVE FlightOf(u)' = FlightOf(u)
    OBVIOUS
  <2>1. inFlight[u] # NoGen => job'[inFlight[u]] = job[inFlight[u]]
    BY <1>1, <1>2, <1>4 DEF JobFrame
  <2> QED
    BY <1>4, <2>1 DEF FlightOf
<1>6. \A c \in Caller : ~(caller[c].pc = "awaiting" /\ caller[c].gen = g) =>
          AskOf(c)' = AskOf(c)
  <2> SUFFICES ASSUME NEW c \in Caller,
                      ~(caller[c].pc = "awaiting" /\ caller[c].gen = g)
               PROVE  AskOf(c)' = AskOf(c)
    OBVIOUS
  <2>1. caller[c].pc = "awaiting" => job'[caller[c].gen] = job[caller[c].gen]
    BY <1>1 DEF JobFrame, IInv, WaiterMatches
  <2> QED
    BY <1>1, <2>1 DEF JobFrame, AskOf
<1>7. flightBar[v] = FlightOf(v)
      /\ flightBar' = [flightBar EXCEPT ![v] = FlightOf(v)']
  <2>1. flightBar = [u \in Vid |-> FlightOf(u)]
        /\ flightBar' = [u \in Vid |-> FlightOf(u)']
    BY DEF flightBar
  <2> QED
    BY <1>3, <1>5, <2>1
<1> QED
  BY <1>3, <1>6, <1>7

\* A download that completes lands its flight: its waiters, and only they, are
\* told its result.
LEMMA RefinesDone ==
    ASSUME IInv, NEW g \in Gen, JobStep(g), NEW v \in Vid, job[g].vid = v,
           NEW o \in Outcome, files' = files,
           job[g].phase \in Live \ {"done"},
           job[g].phase = "evicting" <=> o = "ok",
           job'[g].phase = "done", job'[g].result = o
    PROVE  SF!Land(v, o)
<1>1. JobFrame(g)
  BY JobStepFrame DEF IInv
<1>2. /\ inFlight[v] = g /\ inFlight' = inFlight /\ caller' = caller
      /\ flightBar[v] = FlightOf(v)
      /\ flightBar' = [flightBar EXCEPT ![v] = FlightOf(v)']
      /\ \A c \in Caller :
            ~(caller[c].pc = "awaiting" /\ caller[c].gen = g) =>
                AskOf(c)' = AskOf(c)
  BY <1>1, OneFlies DEF JobFrame, DriverClear
<1>3. FlightOf(v)' = [st |-> "landed", outcome |-> o]
  BY <1>2 DEF FlightOf
<1>4. FlightOf(v).st = IF o = "ok" THEN "stowed" ELSE "aloft"
  BY <1>2 DEF FlightOf, Live
<1>5. ASSUME NEW c \in Caller
      PROVE  AskOf(c)' = IF AskOf(c) = [st |-> "aboard", key |-> v]
                         THEN SF!Told(o) ELSE AskOf(c)
  <2>1. CASE caller[c].pc = "awaiting" /\ caller[c].gen = g
    <3>1. caller[c].vid = v
      BY <2>1 DEF IInv, WaiterMatches
    <3>2. AskOf(c) = [st |-> "aboard", key |-> v]
      BY <2>1, <3>1 DEF AskOf, Live
    <3>3. AskOf(c)' = SF!Told(o)
      BY <1>2, <2>1 DEF AskOf, SF!Told
    <3> QED
      BY <3>2, <3>3
  <2>2. CASE ~(caller[c].pc = "awaiting" /\ caller[c].gen = g)
    <3>1. AskOf(c) # [st |-> "aboard", key |-> v]
      <4> SUFFICES ASSUME AskOf(c) = [st |-> "aboard", key |-> v]
                   PROVE  FALSE
        OBVIOUS
      <4>1. AskOf(c).st = "aboard" /\ AskOf(c).key = v
        OBVIOUS
      <4>2. caller \in [Caller -> Task]
        BY DEF IInv, Base, TypeOK
      <4>3. caller[c].pc = "awaiting"
        BY <4>1, <4>2 DEF AskOf, Task
      <4>4. caller[c].vid = v /\ job[caller[c].gen].phase \notin {"done", "cleared"}
        BY <4>1, <4>3 DEF AskOf
      <4>5. /\ caller[c].gen \in Gen /\ job[caller[c].gen].vid = v
            /\ job[caller[c].gen].phase # "unused" /\ job \in [Gen -> Job]
        BY <4>3, <4>4 DEF IInv, WaiterMatches, Base, TypeOK
      <4>6. job[caller[c].gen].phase \in Live
        BY <4>4, <4>5 DEF Job, Phase, Live
      <4>7. inFlight[v] = caller[c].gen
        BY <4>5, <4>6 DEF IInv, OneDownloadPerVid
      <4> QED
        BY <1>2, <2>2, <4>3, <4>7
    <3> QED
      BY <1>2, <2>2, <3>1
  <2> QED
    BY <2>1, <2>2
<1>6. askBar' = [c \in Caller |->
                    IF askBar[c] = [st |-> "aboard", key |-> v]
                    THEN SF!Told(o) ELSE askBar[c]]
  <2>1. askBar = [c \in Caller |-> AskOf(c)]
        /\ askBar' = [c \in Caller |-> AskOf(c)']
    BY DEF askBar
  <2> QED
    BY <1>5, <2>1
<1>7. storedBar' = storedBar
  BY DEF storedBar
<1> QED
  BY <1>2, <1>3, <1>4, <1>6, <1>7 DEF SF!Land

\* Any other step of a download tells nobody anything.
LEMMA NobodyTold ==
    ASSUME IInv, NEW g \in Gen, JobStep(g), job'[g].phase # "done"
    PROVE  askBar' = askBar
<1>1. JobFrame(g)
  BY JobStepFrame DEF IInv
<1>2. \A c \in Caller : AskOf(c)' = AskOf(c)
  <2> SUFFICES ASSUME NEW c \in Caller PROVE AskOf(c)' = AskOf(c)
    OBVIOUS
  <2>1. PICK v \in Vid : job[g].vid = v
    BY <1>1 DEF JobFrame, Live, IInv, Base, GensInOrder
  <2>2. CASE ~(caller[c].pc = "awaiting" /\ caller[c].gen = g)
    BY <2>1, <2>2, OneFlies
  <2>3. CASE caller[c].pc = "awaiting" /\ caller[c].gen = g
    <3>1. caller' = caller
      BY <1>1 DEF JobFrame
    <3>2. CASE job'[g].phase = "cleared"
      <4>1. DriverClear(g)
        BY <1>1, <3>2 DEF JobFrame, Live
      <4>2. job[g].phase = "done" /\ job'[g].result = job[g].result
        BY <4>1 DEF DriverClear, IInv, Base, TypeOK, Job
      <4> QED
        BY <2>3, <3>1, <3>2, <4>2 DEF AskOf
    <3>3. CASE job'[g].phase # "cleared"
      <4>1. job'[g].phase \in Live \ {"done"}
        BY <1>1, <3>3 DEF JobFrame
      <4>2. job[g].phase # "done"
        <5>1. CASE DriverClear(g)
          BY <3>3, <5>1 DEF DriverClear, IInv, Base, TypeOK
        <5>2. CASE ~DriverClear(g)
          BY <4>1, <5>2
             DEF JobStep, AcquirePermit, WriteTemp, DownloadFail, DownloadOk,
                 Detect, DetectNothing, Bake, Publish, PublishFail, Evict,
                 FinishEvict
        <5> QED
          BY <5>1, <5>2
      <4>3. job[g].phase \notin {"done", "cleared"}
        BY <1>1, <4>2 DEF JobFrame, Live
      <4> QED
        BY <2>3, <3>1, <3>3, <4>3 DEF AskOf
    <3> QED
      BY <3>2, <3>3
  <2> QED
    BY <2>2, <2>3
<1>3. askBar = [c \in Caller |-> AskOf(c)]
      /\ askBar' = [c \in Caller |-> AskOf(c)']
  BY DEF askBar
<1> QED
  BY <1>2, <1>3

\* A step of a download stows its key, lands, is swept, drops a key or shows
\* nothing.
LEMMA RefinesJob ==
    ASSUME IInv, NEW g \in Gen, JobStep(g)
    PROVE  SF!Next \/ UNCHANGED SF!svars
<1>1. JobFrame(g) /\ job \in [Gen -> Job]
  BY JobStepFrame DEF IInv, Base, TypeOK
<1>2. PICK v \in Vid : job[g].vid = v
  BY <1>1 DEF JobFrame, Live, IInv, Base, GensInOrder
<1>3. /\ inFlight[v] = g /\ flightBar[v] = FlightOf(v)
      /\ flightBar' = [flightBar EXCEPT ![v] = FlightOf(v)']
      /\ flightBar = [flightBar EXCEPT ![v] = flightBar[v]]
  BY <1>2, OneFlies DEF flightBar
\* Between taking off and publishing, steps are invisible.
<1>4. ASSUME job[g].phase \in Live \ {"evicting", "done"},
             job'[g].phase \in Live \ {"evicting", "done"}, files' = files
      PROVE  UNCHANGED SF!svars
  <2>1. inFlight'[v] = g
    BY <1>1, <1>3, <1>4 DEF JobFrame, Live
  <2>2. FlightOf(v)' = FlightOf(v)
    BY <1>3, <1>4, <2>1 DEF FlightOf, Live
  <2>3. askBar' = askBar
    BY <1>4, NobodyTold
  <2> QED
    BY <1>3, <1>4, <2>2, <2>3 DEF SF!svars, storedBar
<1>5. CASE AcquirePermit(g)
  BY <1>1, <1>4, <1>5 DEF AcquirePermit, Job, Live
<1>6. CASE WriteTemp(g)
  BY <1>1, <1>4, <1>6 DEF WriteTemp, Job, Live
<1>7. ASSUME NEW r \in Reason, DownloadFail(g, r)
      PROVE  SF!Next \/ UNCHANGED SF!svars
  <2>1. r \in Outcome /\ r # "ok"
    BY ReasonAssumption DEF Outcome
  <2>2. job'[g].phase = "done" /\ job'[g].result = r
        /\ job[g].phase = "downloading" /\ files' = files
    BY <1>1, <1>7 DEF DownloadFail, Job
  <2>3. SF!Land(v, r)
    BY <1>2, <2>1, <2>2, RefinesDone DEF Live
  <2> QED
    BY <2>1, <2>3 DEF SF!Next, SF!Fly
<1>8. CASE DownloadOk(g)
  BY <1>1, <1>4, <1>8 DEF DownloadOk, Job, Live
<1>9. ASSUME NEW r \in Report, Detect(g, r)
      PROVE  SF!Next \/ UNCHANGED SF!svars
  BY <1>1, <1>4, <1>9 DEF Detect, Job, Live
<1>10. CASE DetectNothing(g)
  BY <1>1, <1>4, <1>10 DEF DetectNothing, Job, Live
<1>11. ASSUME NEW c \in Content, Bake(g, c)
       PROVE  SF!Next \/ UNCHANGED SF!svars
  BY <1>1, <1>4, <1>11 DEF Bake, Job, Live
<1>12. CASE Publish(g)
  <2>1. /\ job[g].phase = "publishing" /\ job'[g].phase = "evicting"
        /\ inFlight' = inFlight
    BY <1>1, <1>12 DEF Publish, Job
  <2>2. FlightOf(v).st = "aloft" /\ FlightOf(v)' = [st |-> "stowed"]
    BY <1>3, <2>1 DEF FlightOf
  <2>3. temp[TempOf(g)] # "absent"
    BY <2>1 DEF IInv, TempThere, Content
  <2>4. files'[v] # "absent" /\ \A u \in Vid : u # v => files'[u] = files[u]
    BY <1>2, <1>12, <2>3 DEF Publish, IInv, Base, TypeOK
  <2>5. storedBar' = storedBar \cup {v}
    BY <2>4 DEF storedBar
  <2>6. askBar' = askBar
    BY <2>1, NobodyTold
  <2>7. SF!Stow(v)
    BY <1>3, <2>2, <2>5, <2>6 DEF SF!Stow
  <2> QED
    BY <2>7 DEF SF!Next, SF!Fly
<1>13. CASE PublishFail(g)
  <2>1. "extraction_failed" \in Outcome /\ "extraction_failed" # "ok"
    BY ReasonAssumption DEF Outcome
  <2>2. job'[g].phase = "done" /\ job'[g].result = "extraction_failed"
        /\ job[g].phase = "publishing" /\ files' = files
    BY <1>1, <1>13 DEF PublishFail, Job
  <2>3. SF!Land(v, "extraction_failed")
    BY <1>2, <2>1, <2>2, RefinesDone DEF Live
  <2> QED
    BY <2>1, <2>3 DEF SF!Next, SF!Fly
<1>14. ASSUME NEW u \in Vid, Evict(g, u)
       PROVE  SF!Next \/ UNCHANGED SF!svars
  <2>1. /\ job' = job /\ inFlight' = inFlight /\ job[g].phase = "evicting"
        /\ files'[u] = "absent" /\ \A w \in Vid : w # u => files'[w] = files[w]
    BY <1>14 DEF Evict, IInv, Base, TypeOK
  <2>2. FlightOf(v)' = FlightOf(v)
    BY <2>1 DEF FlightOf
  <2>3. storedBar' = storedBar \ {u}
    BY <2>1 DEF storedBar
  <2>4. askBar' = askBar
    BY <2>1, NobodyTold
  <2>5. SF!Drop(u)
    BY <1>3, <2>2, <2>3, <2>4 DEF SF!Drop
  <2> QED
    BY <2>5 DEF SF!Next
<1>15. CASE FinishEvict(g)
  <2>1. "ok" \in Outcome
    BY DEF Outcome
  <2>2. job'[g].phase = "done" /\ job'[g].result = "ok"
        /\ job[g].phase = "evicting" /\ files' = files
    BY <1>1, <1>15 DEF FinishEvict, Job
  <2>3. SF!Land(v, "ok")
    BY <1>2, <2>1, <2>2, RefinesDone DEF Live
  <2> QED
    BY <2>1, <2>3 DEF SF!Next, SF!Fly
<1>16. CASE DriverClear(g)
  <2>1. job[g].phase = "done" /\ job'[g].phase = "cleared" /\ files' = files
        /\ inFlight'[v] = NoGen
    BY <1>1, <1>2, <1>3, <1>16 DEF DriverClear, Job, IInv, Base, TypeOK
  <2>2. FlightOf(v).st = "landed" /\ FlightOf(v)' = SF!NoFlight
    BY <1>3, <2>1 DEF FlightOf, SF!NoFlight
  <2>3. askBar' = askBar
    BY <2>1, NobodyTold
  <2>4. SF!Sweep(v)
    BY <1>3, <2>1, <2>2, <2>3 DEF SF!Sweep, storedBar
  <2> QED
    BY <2>4 DEF SF!Next, SF!Fly
<1> QED
  BY <1>5, <1>6, <1>7, <1>8, <1>9, <1>10, <1>11, <1>12, <1>13, <1>14, <1>15,
     <1>16 DEF JobStep

\* A restart is a reset.
LEMMA RefinesCrash ==
    ASSUME Crash
    PROVE  SF!Reset
<1>1. \A v \in Vid : FlightOf(v)' = SF!NoFlight
  BY DEF Crash, FlightOf, SF!NoFlight
<1>2. \A c \in Caller : AskOf(c)' = SF!NotAsking
  BY DEF Crash, AskOf, idleTask, SF!NotAsking
<1>3. flightBar' = [v \in Vid |-> FlightOf(v)']
      /\ askBar' = [c \in Caller |-> AskOf(c)']
  BY DEF flightBar, askBar
<1>4. storedBar' = storedBar
  BY DEF Crash, storedBar
<1> QED
  BY <1>1, <1>2, <1>3, <1>4 DEF SF!Reset

\* Every step of fetch_trailer is a step of SingleFlight or none.
LEMMA RefinesNext ==
    ASSUME IInv, [Next]_vars
    PROVE  [SF!Next]_(SF!svars)
<1>1. CASE UNCHANGED vars
  BY <1>1 DEF vars, SF!svars, flightBar, storedBar, askBar, FlightOf, AskOf
<1>2. ASSUME NEW c \in Caller, NEW v \in Vid, Call(c, v) \/ Prewarm(c, v)
      PROVE  SF!Next
  <2>1. SF!Ask(c, v)
    BY <1>2, RefinesEnter DEF Call, Prewarm
  <2> QED
    BY <2>1 DEF SF!Next
<1>3. ASSUME NEW c \in Caller, CallerStep(c) \/ Disconnect(c)
      PROVE  SF!Next \/ UNCHANGED SF!svars
  <2>1. CASE Create(c)
    <3>1. PICK v \in Vid : caller[c].vid = v
      BY <2>1 DEF Create, IInv, Base, CallerShape
    <3>2. SF!Board(c, v)
      BY <2>1, <3>1, RefinesCreate
    <3> QED
      BY <3>2 DEF SF!Next
  <2>2. CASE ~Create(c)
    BY <1>3, <2>2, RefinesCaller DEF CallerStep
  <2> QED
    BY <2>1, <2>2
<1>4. ASSUME NEW g \in Gen, JobStep(g)
      PROVE  SF!Next \/ UNCHANGED SF!svars
  BY <1>4, RefinesJob
<1>5. CASE Crash
  BY <1>5, RefinesCrash DEF SF!Next
<1>6. CASE Rest
  BY <1>1, <1>6 DEF Rest
<1> QED
  BY <1>1, <1>2, <1>3, <1>4, <1>5, <1>6 DEF Next

\* fetch_trailer implements the safety part of SingleFlight: one flight per id,
\* one outcome for all who joined it, "ok" only after a publication.
THEOREM Refinement == Spec => SF!SafeSpec
<1>1. Init => SF!Init
  BY RefinesInit
<1>2. IInv /\ [Next]_vars => [SF!Next]_(SF!svars)
  BY RefinesNext
<1> QED
  BY <1>1, <1>2, Invariance, PTL DEF Spec, SF!SafeSpec
=============================================================================
