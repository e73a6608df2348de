---------------------------- MODULE FetchTrailer ----------------------------
(***************************************************************************)
(* The cold path of den-reel: fetch_trailer, its de-duplicating in_flight  *)
(* map, the detached driver of every download and download_cached itself   *)
(* (src/play.rs, with default_prewarm of src/state.rs, download_to of      *)
(* src/ytdlp.rs, and cache_report and bake_clap of src/crop.rs).           *)
(*                                                                         *)
(* The service runs on one runtime thread, so the code between two awaits  *)
(* is one step.  File operations run on a blocking pool: their effect and  *)
(* the moment the task resumes are different steps where that matters (the *)
(* stat of fetch_trailer).  A crash ends the process, which is restarted   *)
(* with its files and with empty memory.                                   *)
(***************************************************************************)
EXTENDS Integers, Sequences, FiniteSets, Health

CONSTANTS
    Client,               \* requests (/play, /crop); their peer may hang up
    Prewarmer,            \* tasks that /meta spawns; nobody can cancel them
    Vid,                  \* YouTube ids
    NoVid,                \* "no id": not an element of Vid
    Reason,               \* failure reasons of download_to
    Report,               \* reports of detect: "letterboxed", "full_frame"
    DownloadConcurrency,  \* permits of download_sem
    PrewarmMax,           \* PREWARM_MAX
    CropCacheMax,         \* CROP_CACHE_MAX
    BakeClap,             \* cfg.bake_clap
    BakeAtomic,           \* MP4Box leaves a whole file behind, also if killed
    PidOf,                \* process id of each run of the service
    MaxBoots,             \* bound: restarts explored
    MaxGen                \* bound: downloads explored per run of the service

Caller == Client \cup Prewarmer
Gen == 0 .. MaxGen - 1
NoGen == -1
Outcome == {"ok"} \cup Reason

ASSUME CallersAssumption == /\ Client \cap Prewarmer = {}
                            /\ IsFiniteSet(Caller)
ASSUME VidAssumption == IsFiniteSet(Vid) /\ NoVid \notin Vid
ASSUME ReasonAssumption == /\ "extraction_failed" \in Reason
                           /\ "ok" \notin Reason /\ "none" \notin Reason
ASSUME ReportAssumption == "none" \notin Report
ASSUME LimitsAssumption ==
    /\ DownloadConcurrency \in Nat \ {0}
    /\ PrewarmMax \in Nat
    /\ CropCacheMax \in Nat \ {0}
    /\ BakeClap \in BOOLEAN /\ BakeAtomic \in BOOLEAN
    /\ MaxBoots \in Nat
    /\ MaxGen \in Nat \ {0}
ASSUME PidAssumption == PidOf \in [0 .. MaxBoots -> Nat]

VARIABLES
    files,         \* <vid>.mp4 in the cache directory: what it holds
    temp,          \* .<vid>.<pid>.<gen>.partial.mp4: what it holds
    inFlight,      \* AppState.in_flight, reduced to the generation
    dlGen,         \* AppState.dl_gen
    job,           \* the shared download future of each generation
    caller,        \* the tasks inside fetch_trailer
    extractFails,  \* AppState.extract_fails
    ended,         \* history: the outcomes of download_to, as they came
    cropCache,     \* AppState.crop_cache
    boot           \* how often the service has been restarted

vars == <<files, temp, inFlight, dlGen, job, caller, extractFails, ended,
          cropCache, boot>>

\* What a path can hold.  A partial MP4 lacks something: yt-dlp or MP4Box is at
\* it or was stopped; a clapped one carries the box that bake_clap wrote.  A temp
\* is left when no download will see to it any more, whatever it holds.
Content == {"partial", "plain", "clapped"}
PathState == Content \cup {"absent", "left"}

\* The awaits of download_cached; "done" is a completed Shared whose driver has
\* not run yet, "cleared" one whose driver has.
Phase == {"unused", "queued", "downloading", "detecting", "baking",
          "publishing", "evicting", "done", "cleared"}
Live == {"queued", "downloading", "detecting", "baking", "publishing",
         "evicting", "done"}
Permitted == {"downloading", "detecting", "baking", "publishing", "evicting"}
OwnsTemp == {"downloading", "detecting", "baking", "publishing"}

Job == [vid : Vid \cup {NoVid}, phase : Phase, result : Outcome \cup {"none"}]
Task == [pc : {"idle", "stat", "missed", "awaiting", "answered"},
         vid : Vid \cup {NoVid}, gen : Gen \cup {NoGen},
         reply : Outcome \cup {"none"}]

TempName == {PidOf[b] : b \in 0 .. MaxBoots} \X Vid \X Gen

\* Mutant of TempOf: a temp name without the process id.
TempWithoutPid(g) == <<PidOf[0], job[g].vid, g>>

TempOf(g) == <<PidOf[boot], job[g].vid, g>>

unusedJob == [vid |-> NoVid, phase |-> "unused", result |-> "none"]
idleTask == [pc |-> "idle", vid |-> NoVid, gen |-> NoGen, reply |-> "none"]

InFlightVids == {v \in Vid : inFlight[v] # NoGen}
PermitHolders == {g \in Gen : job[g].phase \in Permitted}

Init ==
    /\ files = [v \in Vid |-> "absent"]
    /\ temp = [n \in TempName |-> "absent"]
    /\ inFlight = [v \in Vid |-> NoGen]
    /\ dlGen = 0
    /\ job = [g \in Gen |-> unusedJob]
    /\ caller = [c \in Caller |-> idleTask]
    /\ extractFails = 0
    /\ ended = <<>>
    /\ cropCache = [v \in Vid |-> "none"]
    /\ boot = 0

-----------------------------------------------------------------------------
(* fetch_trailer, one caller at a time.                                     *)

\* Bound: a call starts only while a generation is left for every caller that
\* may still create a download.
Undecided == {c \in Caller : caller[c].pc \in {"stat", "missed"}}
RoomForCall == dlGen + Cardinality(Undecided) < MaxGen

Enter(c, v) ==
    /\ caller[c].pc \in {"idle", "answered"}
    /\ RoomForCall
    /\ caller' = [caller EXCEPT ![c] = [idleTask EXCEPT !.pc = "stat",
                                                        !.vid = v]]
    /\ UNCHANGED <<files, temp, inFlight, dlGen, job, extractFails, ended,
                   cropCache, boot>>

\* A request reaches fetch_trailer.
Call(c, v) == c \in Client /\ Enter(c, v)

\* default_prewarm looks at the size of in_flight, then spawns the fetch.
Prewarm(c, v) ==
    /\ c \in Prewarmer
    /\ Cardinality(InFlightVids) < PrewarmMax
    /\ Enter(c, v)

\* The stat finds a cached file: fetch_trailer returns its path.  (The atime
\* it bumps is part of module Eviction.)
StatHit(c) ==
    /\ caller[c].pc = "stat"
    /\ files[caller[c].vid] # "absent"
    /\ caller' = [caller EXCEPT ![c] = [@ EXCEPT !.pc = "answered",
                                                 !.reply = "ok"]]
    /\ UNCHANGED <<files, temp, inFlight, dlGen, job, extractFails, ended,
                   cropCache, boot>>

\* The stat finds nothing; the task learns it when it next runs.
StatMiss(c) ==
    /\ caller[c].pc = "stat"
    /\ files[caller[c].vid] = "absent"
    /\ caller' = [caller EXCEPT ![c].pc = "missed"]
    /\ UNCHANGED <<files, temp, inFlight, dlGen, job, extractFails, ended,
                   cropCache, boot>>

\* Under the in_flight lock: an entry exists, await a clone of it.
Join(c) ==
    LET v == caller[c].vid IN
    /\ caller[c].pc = "missed"
    /\ inFlight[v] # NoGen
    /\ caller' = [caller EXCEPT ![c] = [@ EXCEPT !.pc = "awaiting",
                                                 !.gen = inFlight[v]]]
    /\ UNCHANGED <<files, temp, inFlight, dlGen, job, extractFails, ended,
                   cropCache, boot>>

\* Mutant of Create: inserts without looking whether there is an entry.
CreateBlindly(c) ==
    LET v == caller[c].vid IN
    /\ caller[c].pc = "missed"
    /\ dlGen' = dlGen + 1
    /\ job' = [job EXCEPT ![dlGen] = [unusedJob EXCEPT !.vid = v,
                                                       !.phase = "queued"]]
    /\ inFlight' = [inFlight EXCEPT ![v] = dlGen]
    /\ caller' = [caller EXCEPT ![c] = [@ EXCEPT !.pc = "awaiting",
                                                 !.gen = dlGen]]
    /\ UNCHANGED <<files, temp, extractFails, ended, cropCache, boot>>

\* Mutant of Create: hands out the same generation again.
CreateSameGen(c) ==
    LET v == caller[c].vid IN
    /\ caller[c].pc = "missed"
    /\ inFlight[v] = NoGen
    /\ job' = [job EXCEPT ![dlGen] = [unusedJob EXCEPT !.vid = v,
                                                       !.phase = "queued"]]
    /\ inFlight' = [inFlight EXCEPT ![v] = dlGen]
    /\ caller' = [caller EXCEPT ![c] = [@ EXCEPT !.pc = "awaiting",
                                                 !.gen = dlGen]]
    /\ UNCHANGED <<files, temp, dlGen, extractFails, ended, cropCache, boot>>

\* Under the in_flight lock: no entry, so take a generation, insert the shared
\* download and spawn its driver.  Awaiting it at once queues it for a permit.
Create(c) ==
    LET v == caller[c].vid IN
    /\ caller[c].pc = "missed"
    /\ inFlight[v] = NoGen
    /\ dlGen' = dlGen + 1
    /\ job' = [job EXCEPT ![dlGen] = [unusedJob EXCEPT !.vid = v,
                                                       !.phase = "queued"]]
    /\ inFlight' = [inFlight EXCEPT ![v] = dlGen]
    /\ caller' = [caller EXCEPT ![c] = [@ EXCEPT !.pc = "awaiting",
                                                 !.gen = dlGen]]
    /\ UNCHANGED <<files, temp, extractFails, ended, cropCache, boot>>

\* Mutant of Answer: a waiter the driver overtook is never woken.
AnswerWhileListed(c) ==
    /\ caller[c].pc = "awaiting"
    /\ job[caller[c].gen].phase = "done"
    /\ caller' = [caller EXCEPT ![c] =
                   [@ EXCEPT !.pc = "answered", !.gen = NoGen,
                             !.reply = job[caller[c].gen].result]]
    /\ UNCHANGED <<files, temp, inFlight, dlGen, job, extractFails, ended,
                   cropCache, boot>>

\* The shared download has completed: its waiter resumes with its result.
Answer(c) ==
    /\ caller[c].pc = "awaiting"
    /\ job[caller[c].gen].phase \in {"done", "cleared"}
    /\ caller' = [caller EXCEPT ![c] =
                   [@ EXCEPT !.pc = "answered", !.gen = NoGen,
                             !.reply = job[caller[c].gen].result]]
    /\ UNCHANGED <<files, temp, inFlight, dlGen, job, extractFails, ended,
                   cropCache, boot>>

\* Mutant of Disconnect: the request that goes away takes the entry with it.
DisconnectClears(c) ==
    /\ c \in Client
    /\ caller[c].pc = "awaiting"
    /\ caller' = [caller EXCEPT ![c] = idleTask]
    /\ inFlight' = [inFlight EXCEPT ![caller[c].vid] = NoGen]
    /\ UNCHANGED <<files, temp, dlGen, job, extractFails, ended, cropCache,
                   boot>>

\* The peer of a request hangs up: hyper drops the request's future.
Disconnect(c) ==
    /\ c \in Client
    /\ caller[c].pc \in {"stat", "missed", "awaiting"}
    /\ caller' = [caller EXCEPT ![c] = idleTask]
    /\ UNCHANGED <<files, temp, inFlight, dlGen, job, extractFails, ended,
                   cropCache, boot>>

-----------------------------------------------------------------------------
(* download_cached, one generation at a time.                               *)

\* The semaphore is first come, first served, and downloads queue in the order
\* of their generations.
AcquirePermit(g) ==
    /\ job[g].phase = "queued"
    /\ \A h \in Gen : job[h].phase = "queued" => g <= h
    /\ Cardinality(PermitHolders) < DownloadConcurrency
    /\ job' = [job EXCEPT ![g].phase = "downloading"]
    /\ UNCHANGED <<files, temp, inFlight, dlGen, caller, extractFails, ended,
                   cropCache, boot>>

\* yt-dlp starts writing the temp file.
WriteTemp(g) ==
    /\ job[g].phase = "downloading"
    /\ temp[TempOf(g)] = "absent"
    /\ temp' = [temp EXCEPT ![TempOf(g)] = "partial"]
    /\ UNCHANGED <<files, inFlight, dlGen, job, caller, extractFails, ended,
                   cropCache, boot>>

\* Unlinking a temp may fail, which is ignored.
Unlinked(g) ==
    LET rest == IF temp[TempOf(g)] = "absent" THEN {"absent"} ELSE {"absent", "left"}
    IN  {[temp EXCEPT ![TempOf(g)] = t] : t \in rest}

\* download_to fails (exit code, spawn error, empty file, timeout): the temp is
\* unlinked, and only a systemic failure counts towards /health.
DownloadFail(g, r) ==
    /\ job[g].phase = "downloading"
    /\ temp' \in Unlinked(g)
    /\ ended' = Append(ended, r)
    /\ extractFails' = IF r = "extraction_failed" THEN extractFails + 1
                                                  ELSE extractFails
    /\ job' = [job EXCEPT ![g] = [@ EXCEPT !.phase = "done", !.result = r]]
    /\ UNCHANGED <<files, inFlight, dlGen, caller, cropCache, boot>>

\* What yt-dlp leaves when it succeeds: a whole file, or, where one lay already,
\* perhaps that one.  Only its exit status and the size are looked at.
Downloaded(g) == {"plain"} \cup IF temp[TempOf(g)] = "left" THEN {"partial"} ELSE {}

\* Mutant of DownloadOk: success judged by the non-empty file alone.
DownloadOkUnfinished(g) ==
    /\ job[g].phase = "downloading"
    /\ temp[TempOf(g)] # "absent"
    /\ ended' = Append(ended, "ok")
    /\ extractFails' = 0
    /\ job' = [job EXCEPT ![g].phase = "detecting"]
    /\ UNCHANGED <<files, temp, inFlight, dlGen, caller, cropCache, boot>>

\* Mutant of DownloadOk: a success takes back one failure, had there been one
\* or not.
DownloadOkDecays(g) ==
    /\ job[g].phase = "downloading"
    /\ \E t \in Downloaded(g) : temp' = [temp EXCEPT ![TempOf(g)] = t]
    /\ ended' = Append(ended, "ok")
    /\ extractFails' = extractFails - 1
    /\ job' = [job EXCEPT ![g].phase = "detecting"]
    /\ UNCHANGED <<files, inFlight, dlGen, caller, cropCache, boot>>

\* Mutant of DownloadOk: the failures so far are not forgotten.
DownloadOkKeeps(g) ==
    /\ job[g].phase = "downloading"
    /\ \E t \in Downloaded(g) : temp' = [temp EXCEPT ![TempOf(g)] = t]
    /\ ended' = Append(ended, "ok")
    /\ job' = [job EXCEPT ![g].phase = "detecting"]
    /\ UNCHANGED <<files, inFlight, dlGen, caller, extractFails, cropCache, boot>>

\* yt-dlp exits 0 and left a file that is not empty.
DownloadOk(g) ==
    /\ job[g].phase = "downloading"
    /\ \E t \in Downloaded(g) : temp' = [temp EXCEPT ![TempOf(g)] = t]
    /\ ended' = Append(ended, "ok")
    /\ extractFails' = 0
    /\ job' = [job EXCEPT ![g].phase = "detecting"]
    /\ UNCHANGED <<files, inFlight, dlGen, caller, cropCache, boot>>

\* Mutant of CacheReport: the cap is off by one.
CacheReportLate(v, r) ==
    LET full == Cardinality({u \in Vid : cropCache[u] # "none"}) > CropCacheMax
    IN  [u \in Vid |-> IF u = v THEN r
                       ELSE IF full THEN "none" ELSE cropCache[u]]

\* cache_report: a full cache is emptied first.
CacheReport(v, r) ==
    LET full == Cardinality({u \in Vid : cropCache[u] # "none"}) >= CropCacheMax
    IN  [u \in Vid |-> IF u = v THEN r
                       ELSE IF full THEN "none" ELSE cropCache[u]]

\* cropdetect over the temp yields a report, which is cached; MP4Box then runs
\* when there is a letterbox to crop and baking is enabled.
Detect(g, r) ==
    /\ job[g].phase = "detecting"
    /\ cropCache' = CacheReport(job[g].vid, r)
    /\ job' = [job EXCEPT ![g].phase =
                   IF r = "letterboxed" /\ BakeClap THEN "baking"
                                                    ELSE "publishing"]
    /\ UNCHANGED <<files, temp, inFlight, dlGen, caller, extractFails, ended,
                   boot>>

\* No usable box, no ffmpeg or a timeout: nothing is cached or baked.
DetectNothing(g) ==
    /\ job[g].phase = "detecting"
    /\ job' = [job EXCEPT ![g].phase = "publishing"]
    /\ UNCHANGED <<files, temp, inFlight, dlGen, caller, extractFails, ended,
                   cropCache, boot>>

\* MP4Box writes its box, or fails, or is killed when its time is up; the
\* download goes on all the same.  A partial file stays partial.
Bake(g, c) ==
    /\ job[g].phase = "baking"
    /\ BakeAtomic => c # "partial"
    /\ temp' = [temp EXCEPT ![TempOf(g)] = IF @ = "partial" THEN @ ELSE c]
    /\ job' = [job EXCEPT ![g].phase = "publishing"]
    /\ UNCHANGED <<files, inFlight, dlGen, caller, extractFails, ended, cropCache,
                   boot>>

\* The rename makes the temp the cached file.
Publish(g) ==
    /\ job[g].phase = "publishing"
    /\ files' = [files EXCEPT ![job[g].vid] = temp[TempOf(g)]]
    /\ temp' = [temp EXCEPT ![TempOf(g)] = "absent"]
    /\ job' = [job EXCEPT ![g].phase = "evicting"]
    /\ UNCHANGED <<inFlight, dlGen, caller, extractFails, ended, cropCache,
                   boot>>

\* Mutant of PublishFail: the temp stays.
PublishFailLeaks(g) ==
    /\ job[g].phase = "publishing"
    /\ job' = [job EXCEPT ![g] = [@ EXCEPT !.phase = "done",
                                           !.result = "extraction_failed"]]
    /\ UNCHANGED <<files, temp, inFlight, dlGen, caller, extractFails, ended,
                   cropCache, boot>>

\* The rename fails: the temp is unlinked.  The reason is extraction_failed,
\* but extract_fails is left alone.
PublishFail(g) ==
    /\ job[g].phase = "publishing"
    /\ temp' \in Unlinked(g)
    /\ job' = [job EXCEPT ![g] = [@ EXCEPT !.phase = "done",
                                           !.result = "extraction_failed"]]
    /\ UNCHANGED <<files, inFlight, dlGen, caller, extractFails, ended,
                   cropCache, boot>>

\* evict_if_needed, on a blocking thread, unlinks files one by one.  Which ones
\* is the subject of module Eviction: here it may be any.
Evict(g, v) ==
    /\ job[g].phase = "evicting"
    /\ files[v] # "absent"
    /\ files' = [files EXCEPT ![v] = "absent"]
    /\ UNCHANGED <<temp, inFlight, dlGen, job, caller, extractFails, ended,
                   cropCache, boot>>

FinishEvict(g) ==
    /\ job[g].phase = "evicting"
    /\ job' = [job EXCEPT ![g] = [@ EXCEPT !.phase = "done", !.result = "ok"]]
    /\ UNCHANGED <<files, temp, inFlight, dlGen, caller, extractFails, ended,
                   cropCache, boot>>

\* Mutant of DriverClear: the clean-up is left to whoever still waits.
ClearIfWanted(g) ==
    LET v == job[g].vid IN
    /\ job[g].phase = "done"
    /\ \E c \in Caller : caller[c].pc = "awaiting" /\ caller[c].gen = g
    /\ inFlight' = [inFlight EXCEPT ![v] = IF @ = g THEN NoGen ELSE @]
    /\ job' = [job EXCEPT ![g].phase = "cleared"]
    /\ UNCHANGED <<files, temp, dlGen, caller, extractFails, ended, cropCache,
                   boot>>

\* The detached driver resumes and removes its own entry.
DriverClear(g) ==
    LET v == job[g].vid IN
    /\ job[g].phase = "done"
    /\ inFlight' = [inFlight EXCEPT ![v] = IF @ = g THEN NoGen ELSE @]
    /\ job' = [job EXCEPT ![g].phase = "cleared"]
    /\ UNCHANGED <<files, temp, dlGen, caller, extractFails, ended, cropCache,
                   boot>>

-----------------------------------------------------------------------------
\* The process dies and is started again.
Crash ==
    /\ boot < MaxBoots
    /\ boot' = boot + 1
    /\ inFlight' = [v \in Vid |-> NoGen]
    /\ dlGen' = 0
    /\ job' = [g \in Gen |-> unusedJob]
    /\ caller' = [c \in Caller |-> idleTask]
    /\ extractFails' = 0
    /\ ended' = <<>>
    /\ cropCache' = [v \in Vid |-> "none"]
    /\ temp' = [n \in TempName |-> IF temp[n] = "absent" THEN "absent" ELSE "left"]
    /\ UNCHANGED files

\* A server without work may stay so; a server with work may not.
Rest ==
    /\ \A c \in Caller : caller[c].pc \in {"idle", "answered"}
    /\ \A g \in Gen : job[g].phase \in {"unused", "cleared"}
    /\ UNCHANGED vars

CallerStep(c) == StatHit(c) \/ StatMiss(c) \/ Join(c) \/ Create(c) \/ Answer(c)

JobStep(g) ==
    \/ AcquirePermit(g)
    \/ WriteTemp(g)
    \/ \E r \in Reason : DownloadFail(g, r)
    \/ DownloadOk(g)
    \/ \E r \in Report : Detect(g, r)
    \/ DetectNothing(g)
    \/ \E c \in Content : Bake(g, c)
    \/ Publish(g)
    \/ PublishFail(g)
    \/ \E v \in Vid : Evict(g, v)
    \/ FinishEvict(g)
    \/ DriverClear(g)

Next ==
    \/ \E c \in Caller, v \in Vid : Call(c, v) \/ Prewarm(c, v)
    \/ \E c \in Caller : CallerStep(c) \/ Disconnect(c)
    \/ \E g \in Gen : JobStep(g)
    \/ Crash
    \/ Rest

Spec == Init /\ [][Next]_vars

\* What the code justifies: a task that can run is polled, every subprocess has
\* a timeout, and file operations return.  Requests, hang-ups and crashes need
\* not happen.
Fairness ==
    /\ \A c \in Caller : WF_vars(CallerStep(c))
    /\ \A g \in Gen : WF_vars(JobStep(g))

FairSpec == Spec /\ Fairness

-----------------------------------------------------------------------------
(* What the cold path promises.                                             *)

\* Every variable holds a value of its kind.
TypeOK ==
    /\ files \in [Vid -> PathState]
    /\ temp \in [TempName -> PathState]
    /\ inFlight \in [Vid -> Gen \cup {NoGen}]
    /\ dlGen \in Nat
    /\ job \in [Gen -> Job]
    /\ caller \in [Caller -> Task]
    /\ extractFails \in Nat
    /\ ended \in Seq(Outcome)
    /\ cropCache \in [Vid -> Report \cup {"none"}]
    /\ boot \in 0 .. MaxBoots

\* An id has an entry in in_flight exactly while a download of it is under way
\* or waits for its driver, and the entry names that download: whatever callers
\* join, hang up or arrive late, no id ever has two downloads running and none
\* runs unseen (the de-dupe of fetch_trailer).
OneDownloadPerVid ==
    \A g \in Gen, v \in Vid :
        inFlight[v] = g <=> job[g].vid = v /\ job[g].phase \in Live

\* Whoever awaits a download awaits one of the id it asked for, also when the
\* driver has already cleared the entry it joined through.
WaiterMatches ==
    \A c \in Caller : caller[c].pc = "awaiting" =>
        /\ caller[c].gen \in Gen
        /\ job[caller[c].gen].vid = caller[c].vid
        /\ job[caller[c].gen].phase # "unused"

\* A temp file of this process belongs to a download that will still rename or
\* unlink it: no outcome of download_cached forgets one, though the unlink it
\* ends with may fail and leave it.
NoOrphanTemp ==
    \A v \in Vid, g \in Gen : temp[<<PidOf[boot], v, g>>] \notin {"absent", "left"} =>
        job[g].vid = v /\ job[g].phase \in OwnsTemp

\* What appears as <vid>.mp4 is finished: no caller is handed a file that
\* yt-dlp is still writing or had to leave, whenever the process crashed before.
PublishedFinal == \A v \in Vid : files[v] \in {"absent", "plain", "clapped"}

\* crop_cache never outgrows its cap, however many downloads report to it.
CropCacheBounded ==
    Cardinality({v \in Vid : cropCache[v] # "none"}) <= CropCacheMax

\* /health blames the extractor exactly when that many downloads have failed for
\* a reason of the service since the last one that worked, in whatever order they
\* ended.  A video that is private, geo-blocked or gone neither counts nor ends
\* the run ("systemic", download_cached).  The run is one of downloads: those of
\* one id count each, where extract_fails speaks of "consecutive resolves".
ExtractorBlamed ==
    LET sinceOk == {n \in 1 .. Len(ended) :
                       \A m \in n .. Len(ended) : ended[m] # "ok"}
        failed == {n \in sinceOk : ended[n] = "extraction_failed"}
    IN  HealthBody(TRUE, 0, extractFails) = "extractor_unavailable"
            <=> Cardinality(failed) >= HealthFailThreshold

\* A download starts on a temp name nothing exists under ("unique temp-file
\* suffix", dl_gen of AppState).
FreshTemp ==
    [][\A g \in Gen :
          job[g].phase = "queued" /\ job'[g].phase = "downloading" =>
              temp[TempOf(g)] = "absent"]_vars

\* Only a cold id is downloaded: when a download is created, its id has no
\* cached file (the doc comments of fetch_trailer and download_cached).
ColdOnly ==
    [][\A g \in Gen :
          job[g].phase = "unused" /\ job'[g].phase = "queued" =>
              files[job'[g].vid] = "absent"]_vars

\* Prewarm tasks never keep more than PREWARM_MAX downloads busy ("cap
\* concurrent prewarm downloads", PREWARM_MAX).
PrewarmBounded ==
    Cardinality({caller[c].gen : c \in {p \in Prewarmer :
                                          caller[p].pc = "awaiting"}}) <= PrewarmMax

\* Every download ends and its driver clears the entry, also when every caller
\* that wanted it has hung up: no id is wedged.
EntryCleared == \A v \in Vid : inFlight[v] # NoGen ~> inFlight[v] = NoGen

\* Every call comes to an answer, unless its peer hangs up or the process dies.
CallsAnswered ==
    \A c \in Caller : caller[c].pc = "stat" ~> caller[c].pc \in {"idle", "answered"}
=============================================================================
