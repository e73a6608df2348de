# A TLA+ model of den-reel

den-reel finds a film's trailer, downloads it with yt-dlp, keeps it in a bounded
disk cache and serves it to a video player. The service is one Rust process with
one runtime thread (`main.rs:265`): code between two awaits runs undisturbed, and
everything hard happens between awaits, on the blocking pool, in subprocesses,
and when the process dies.

This directory models that behaviour, checks it with TLC on small instances and
proves most of its safety with TLAPS for every instance. File names below are
relative to `src/src/` of the repository.

    tlc -config FetchBurst.cfg MCFetchTrailer.tla       # a run
    tlapm FetchTrailerProofs.tla                        # the proofs

## 1. Inventory

| component | source | state | operations | talks to |
|---|---|---|---|---|
| trailer fetch | `play.rs` 87-181, `state.rs` 137-149 | `in_flight`, `dl_gen`, temp and cached files, `download_sem` | `fetch_trailer`, drivers, `download_cached`, prewarm | yt-dlp, ffmpeg, MP4Box, eviction; called by playback, crop, discovery |
| disk cache | `play.rs` 40-85 | cached files, access times | `evict_if_needed`, `touch_atime` | called by every download and every hit |
| discovery | `addon.rs`, `upstream.rs` | `yt_cache`, `fails` | `handle_meta`, `resolve_youtube_ids`, three upstream calls, search | TMDB, KinoCheck, yt-dlp search, prewarm |
| playback | `play.rs` 183-283 | the open file | `handle_play`, `serve_file` | trailer fetch; the player and its cache |
| crop reports | `crop.rs` | `crop_cache` | `detect`, `cache_report`, `bake_clap`, `handle_crop` | ffmpeg, MP4Box, trailer fetch |
| health | `main.rs` 60-80 | `extract_fails`, `fails` | `health_body` | fed by downloads and by upstream calls |
| HTTP plumbing | `httputil.rs` | none | ETags, conditional requests, ranges, decoding | all handlers |
| router, server | `main.rs` 82-279 | none | `route`, accept loop | all handlers |
| sealed config | `seal.rs`, `userconfig.rs` | the keyring | `open`, `decode` | router, configure page |
| configure page | `configure.html` 3327-3457 | the fetched key, the form | build, seal | `/config-key` |
| subprocess wrappers | `ytdlp.rs`, `crop.rs` | none | download, search, classify | yt-dlp, ffmpeg, MP4Box |
| configuration | `config.rs` | none | read once | all |

What makes each component right:

* **Trailer fetch.** One download per id at a time, and everyone who asks meanwhile
  gets its outcome; a download goes on without its callers and always cleans up its
  entry, temp file and permit; only finished files are published; a restart needs no
  repair; a cached id is not downloaded.
* **Disk cache.** Within its cap when an eviction ends, but for what is still being
  worked on or cannot be seen or removed; nothing is removed that need not be, and the
  least recently used goes first.
* **Discovery.** Answers are ranked, free of duplicates, no older than their time to
  live, and the same for everyone; the cache does not grow for ever.
* **Playback.** Every request is answered in at most two attempts; a response carries
  the bytes its length and range announce; a player that resumes by range gets the
  bytes of one file.
* **Crop reports.** The box lies inside the picture and cuts into no majority of the
  shots (by height: a box is always centred, `crop.rs:270`); an unknown
  report is asked for again.
* **Health.** It tells an outage of the extractor from a bad video.
* **Sealed config.** Links survive a rotation of the keys; a link that cannot be
  opened is refused.

The hazards of each, at their lines, are listed in `PROJECT.json` with the
properties that cover them.

## 2. How the modules fit together

    FetchTrailer --implements--> SingleFlight <--INSTANCE-- Playback --EXTENDS--> Http
         |  (FetchTrailerRefinement)                            |
       Health --- Resolve --- SealedConfig                  CropReport (what detect finds)
         |
      Eviction (what FetchTrailer's and Playback's evictions may do, precisely)

* `FetchTrailer` is the cold path in full; `SingleFlight` is what it promises, and
  `FetchTrailerRefinement` maps the one to the other. `Playback` stands on the promise
  alone, so that what is checked and proved of it holds over the real cold path.
* `FetchTrailer` and `Playback` let an eviction remove any file at any moment of its
  phase, which includes what `Eviction` does step by step.
* `CropReport` is the arithmetic of the reports; `FetchTrailer` and `Playback` only tell
  reports apart, and have the cache and the place of `detect` among the other steps.
* `Health` is the verdict on the two counters that `FetchTrailer` and `Resolve` keep.
* `MC*` modules hold the values that a `.cfg` cannot express.

## 3. The modules

### FetchTrailer

`fetch_trailer` from the stat to the answer, the shared download of every
generation, its driver, and the process around them.

| variable | code |
|---|---|
| `files[v]` | `<cache_dir>/<v>.mp4`: absent, or what it holds (`partial`, `plain`, `clapped`) |
| `temp[<<pid, v, g>>]` | `.<v>.<pid>.<g>.partial.mp4`: the same, or `left` when no download will see to it any more |
| `inFlight[v]` | `AppState.in_flight`, reduced to the generation of the entry |
| `dlGen` | `AppState.dl_gen` |
| `job[g]` | the `Shared` future of generation `g`: the await of `download_cached` it is at, and its result |
| `caller[c]` | a task inside `fetch_trailer`: the await it is at, what it wants, what it was told |
| `extractFails`, `cropCache` | `AppState.extract_fails`, `AppState.crop_cache` (letterboxed or not) |
| `ended` | a history: the outcomes of `download_to`, in the order they came |
| `boot` | how often the process has been restarted |

Steps are the code between two awaits. The stat is two of them: the blocking thread
looks at the disk (`StatMiss`), and later the task takes the lock (`Join`,
`Create`); everything else may happen in between. `Answer` and `DriverClear` are
separate because a completed `Shared` wakes its waiters and its driver in any order.
`AcquirePermit` serves downloads in the order of their generations: the semaphore is
fair, and a download queues as soon as its creator awaits it. (If the creator hangs
up before it first polls the future, its driver queues it; the order of two such
downloads may then differ, which no property depends on.) The permit is held up to
and including the eviction. `Disconnect` drops the future of a request at any
await; the tasks that prewarm spawns cannot be dropped. `Crash` may happen
anywhere; it keeps the files and empties the memory.

yt-dlp, ffmpeg and MP4Box are external. yt-dlp may write a part, fail with any of the
reasons, or succeed; what it then leaves is complete, unless a file of an earlier run
lay under the name of the temp (`Downloaded`), for `download_to` looks at the exit
status and the size alone. Detection gives a report or none. MP4Box edits the temp in
place: it succeeds, fails, or is killed when its time is up, and the temp is renamed all
the same. Whether a killed MP4Box leaves a whole file is not for this code to say:
with `BakeAtomic` it does, without it the bake may leave a partial one. Unlinking a
temp may fail, which the code ignores (`Unlinked`).

The properties about temps take a temp whose unlink failed for `left`. `ExtractorBlamed` compares
`extract_fails` with the run of downloads since the last success. `state.rs:62` speaks
of "consecutive resolves"; what the code counts, and the property says, is downloads:
those of one id count as often as it is tried, and a warm call ends no run.

### SingleFlight, FetchTrailerRefinement

`SingleFlight` says what the rest of the service relies on, without generations,
drivers, temps or permits: a flight per key, which lands once for everyone aboard,
whether or not anybody is. The mapping takes `files` to `stored`, an entry to its
flight (`stowed` once the file is published, `landed` once the download completed,
until the driver has run) and a caller to what it asks; a waiter of a completed
download counts as told.

### Eviction

`evict_if_needed` name by name: every evictor (a download that holds a permit, so at
most `DOWNLOAD_CONCURRENCY` of them) opens the directory, lists it one file at a
time with sizes and access times, sorts, and removes from the oldest until its own
total is within the cap; only removals that succeed lower the total. In between
other downloads publish and evict, hits bump access times, and the process dies.
A published file keeps the access time of its temp.

The error paths are actions of their own: a directory that cannot be read ends the
eviction (`NoListing`), an entry or metadata that cannot be read skips the file
(`MissFile`), an access time that cannot be had is the epoch (in `ListFile`), and a
file that cannot be removed stays, counts, and leaves its turn to a newer one
(`DeleteFails`). On each of these paths the code leaves the cache over its cap, so that
the properties say what remains true. `missed` and `stuck` are the histories they need:
the files that evictions of this burst (as long as some eviction is under way) could not
see or could not remove; a new publication takes its file out of both. `kept` is the
same for one eviction, `alone` says that no other has overlapped it.

`BoundedCache` is about every eviction that has worked off its listing, not only the
last: whatever exceeds the cap then belongs to evictions still under way or was not
seen, or nothing that is left could be removed. Downloads that overlap overshoot the
cap together by just that. In the other direction two evictions that overlap may
remove more than is needed, because a file the other one removed first lowers no total;
the comment of `AloneEvictsOnlyOverCap` says so, and no comment of the code promises
otherwise.

### Resolve, SealedConfig

`handle_meta` and `resolve_youtube_ids`. A request comes with a link or without one
(`SealedConfig`: the ring of keys from the environment, which key opens what, and what
`decode` and `validate` let through); the TMDB key it resolves with is its link's or
the operator's, and a link that does not decode is refused (`Refuse`). It then hits the
cache or asks TMDB (`/find`, then `/videos`, ranked by `PickTrailerCandidates`) and
KinoCheck at once; the poll that completes the join goes on at once, to the cache or to
the title lookup and the search, which waits for a probe permit. Every call may end
with data, a hard fault, another error or a useless body, and moves the failure counter
accordingly. `Restart` empties the memory and may bring another environment: keys
rotated, mistyped or lost. Instead of absolute times the model keeps the age and the
remaining life of each entry, so that runs are not bounded in time. The ring is a set:
a sealed segment opens with one key at most, so that the order in which `open` tries
them does not show. The stable sort and the seen sets are written with positions in
the list (`Listing`, `Once`) and not as recursions, so that they can be proved about. The first answer of
a request is prewarmed, which is `Prewarm` of `FetchTrailer`; `build_meta` and the
headers of the response are not in the module.

### Playback, Http

`handle_play`, `serve_file` and `handle_crop` as tasks (`seat[x]`: the await the task is
at, its id, its attempt, the content behind its open file, and its last exchange) over
the flights of `SingleFlight`, which carry here what is in the files.

| variable | code |
|---|---|
| `flight`, `ask` | of `SingleFlight`: the downloads, and who awaits them |
| `file[v]` | the content under `<vid>.mp4`: a take of yt-dlp, with or without a clap box |
| `made[v]` | what the running download has produced, before its rename |
| `cropCache[v]` | `AppState.crop_cache`: a report is known by the take it is about |
| `evicted` | a history: the ids whose file has been evicted since it was last published |

An open file keeps its content when its path is removed or replaced; the size is read
from the open file and the body is of that content. An open may fail whether or not the
file is there (`OpenFails`: `serve_file` takes every error of `File::open` for an
eviction), which leads to the second attempt and to the end after it. So `/play` may
give up on a file that is there; what the code can promise is that `fetch_trailer` does
not name a file that was never there (`PromiseKept`) and that two attempts are the end
(`VisitorsAnswered`). `Http` has `parse_range`, the validators, `json` with its cache
headers, `apply_conditional` and the stripping of HEAD; `Reply` sends every answer
through `ApplyConditional`, as `handle_request` does.

The flights are moved by the actions of `SingleFlight` itself, so that the handlers
refine it by construction, which is not listed as a result. What is checked is that the
files agree with it: `PromiseKept`.

Two actions allow more than the code: `CropCacheFull` may empty the report cache at any
time, for reports on ids that are not modelled may fill it, and `Board` of
`SingleFlight` may start a flight for a stored key, which is the cold race that the run
`fetch_cold` finds in `fetch_trailer`.

### CropReport, Health

`CropReport` goes from the boxes of `cropdetect` to the report and the clap box:
`TypicalCrop` (the median of each field by itself), `UsesFullFrame`, `ReportFrom`,
`RefineReport` with `NearestStdAspect`, and `ClapParams`. Its behaviours add keyframes
one at a time, so that every prefix of every trailer is looked at. Fractions are exact
where the code uses floats: ratios are compared by multiplying out. `HealthBody` is the
verdict of `/health`, in the order of its tests.

## 4. The runs

| run | what it explores | what it shows |
|---|---|---|
| `fetch_burst` (6.0 M states) | two requests and a prewarm, two ids, three downloads, two permits; no bake | an id never has two entries or a hidden download; nobody waits for the wrong one; no outcome leaves a temp, but where its unlink fails; the report cache keeps its cap; `/health` blames the extractor exactly for a run of its own failures |
| `fetch_refines` (421 k) | two requests, two ids, two downloads per run of the service, each of a letterbox that is baked, a crash anywhere and a restart under another process id | the refinement of `SingleFlight` with its fairness; every entry is cleared, every call answered; nothing unfinished is published if MP4Box leaves whole files; temp names are fresh |
| `eviction` (1.5 M) | two evictions, three files of sizes 1, 1, 2 under a cap of 2, three access times, every error path | when an eviction ends, also after a crash, the cache exceeds its cap only by files still worked on, unseen or immovable; a lone eviction removes only over the cap, and the least recently used of what it can |
| `resolve` (2.6 M) | two requests, with a sealed link or without, a film and a title that TMDB and KinoCheck give one and the same teaser of, lives of 2 and 1, all ways a call may end, a rotation of the keys and their loss | no answer outlives its time; answers are ranked and free of duplicates; growth past the bound only by live entries; links sealed to listed keys work, others are refused |
| `playback` (50 k) | a viewer and a crop request for one id, two takes of different length, six requests (ranges at, over and past the end, junk, HEAD, validators), evictions, failing opens, hang-ups, restarts | length and range fit the file streamed; a range is never answered 304; nobody is promised a file that was never there; everyone is answered |
| `crop_report` (75 k) | up to five keyframes out of eight boxes, a landscape and a portrait frame, with and without parsed dimensions | what is cropped is a valid box; the box of a majority decides; no majority loses height |
| `fetch_cold` | two requests, no restart | **violated**: a cached id is downloaded again |
| `fetch_same_pid` | a restart, every run being process 1 | **violated**: a temp name is met again |
| `prewarm_burst` | two prewarms, a bound of one | **violated**: the bound is passed |
| `resolve_keys` | plain links, no call fails, KinoCheck knows nothing | **violated**: an install with a valid key is told "no trailer" because one without had asked |
| `play_stable` | two viewers of one id | **violated**: the bytes of an id change under an immutable URL |
| `crop_unknown` | one crop request | **violated**: a report that is to be retried is sent as immutable for a year |

The six violations are statements of the repository's comments that the code does
not keep; `PROJECT.json` quotes them.

**Bounds.** `MaxGen` downloads per run of the service and `MaxBoots` restarts; a
call starts only while a generation is left for everyone who may still create a
download (`RoomForCall`). Two requests suffice to race for one id, to join and to
hang up; the third caller and the third download of `fetch_burst` let a waiter of a
cleared download, a running download of the same id and one of the other id exist
together. One restart is enough: a crash keeps only files, and a second one meets
nothing that the first does not. Real limits (three permits, three prewarms, ten
thousand entries) are replaced by one or two so that they are reached. In
`Eviction`, `MaxTime` bounds the access times handed out: three let each of three
files be published, or two and one of them touched or published again; crashes and
failures may happen at any time. The theorems lift that bound, and what needs a longer history
than this is in them (any number of evictions, times and sizes). In `Resolve`, `MaxLookup` is the longest a lookup takes in units of the
negative time to live, and includes the wait for a probe permit, which has no timeout of
its own but ends with the searches ahead of it; nothing else is bounded there but the failure counter, which
stops at the threshold beyond which nobody tells values apart. `Playback` needs no
bound: its visitors come and go for ever; one id is enough because ids share nothing
there but the report cache and the evictions, which may come at any time anyway. In
`CropReport`, `MaxKeyframes` is five (the 3% of `FULL_FRAME_PCT` then never binds, as it
does in trailers of more than 66 keyframes; the theorems are about any number): three boxes of one kind then outvote any two
others, and two full-frame shots can be in the minority.
Two callers are interchangeable, as are two ids, evictors, requests or viewers: runs
without liveness use these symmetries, those with liveness use none.

**Fairness.** `FairSpec` of `FetchTrailer` asks weak fairness of every caller's steps
and of every download's, `FairSpec` of `Playback` of every visitor's steps and of every
flight's: a task that has been woken is polled, every subprocess has a timeout (240 s,
60 s, 30 s), file operations return, and the semaphore is first come, first served.
Nothing is asked of requests, hang-ups, evictions or crashes. A download that is alive
always has a step of its own enabled or waits for a permit whose holder has one. The
fairness of `Playback` about flights is what `fetch_refines` checks of `FetchTrailer`.

**Deadlock.** All runs check it but `crop_report`, whose trailers end. A
`FetchTrailer` without work may rest (`Rest`); with work it must have a step.

## 5. What is proved

All theorems are about all values of the constants, from the assumptions named in the
modules only.

**FetchTrailerProofs.** `TypeCorrect`, `SingleDownload`, `WaitersMatch`,
`CropCacheStaysBounded`: the invariants of the runs; `NoTempLeft` and `TempNamesFresh`
under `FreshPids` (runs of the service have different process ids), which the run
`fetch_same_pid` shows to be needed; and `PublishedComplete` under `FreshPids` and
`BakeAtomic`, for yt-dlp over a stale temp and a killed MP4Box may otherwise leave half a
file that is published. The inductive invariant
`IInv` adds what makes these inductive. That an id has one download needs that
generations are handed out in order and were never used before (`GensInOrder`), which
needs the bound of the model to keep a generation for everyone undecided
(`RoomReserved`); that a waiter's download is of its id needs that generations are not
reused in a run; that what is published is complete needs that temps are complete from
the end of the download on (`TempComplete`) and that two downloads of one run never
share a temp name (`TempsDiffer`). `JobFrame` states once what all steps of a download
have in common, so that the invariants about the map need not look at its phases one by
one. For the temps of earlier runs `TInv` adds that the names of runs to come do not
exist yet. `BlameDeserved`: `extract_fails` is the
number of the failures of the service in the run of downloads since the last success
(`Blame`, over the history `ended`), so that no order of downloads counts one twice, one
that the video itself is to blame for, or one before a success.

**FetchTrailerRefinementProofs.** `Refinement`: `Spec => SF!SafeSpec`, the safety part
of `SingleFlight`, step by step from `IInv`: a download that completes lands its
flight and tells exactly its waiters (`RefinesDone`), everything else tells nobody
(`NobodyTold`).

**EvictionProofs.** `CacheBounded`, `AloneOnlyOverCap`, `LeastRecentFirst` and
`TypeCorrect`, for any number of evictions, files and sizes and with every error path. An
eviction's total may be wrong in both directions once others overlap it, so the invariant
says which of it can be trusted. `Counted`: what an eviction still lists, or removed in
vain, it still counts, so a total within the cap means that what it knows of is within
the cap, and an empty list that all of that could not be removed. `Lonely` is the
converse for an eviction that was never overlapped: it counts no file that is gone, and
so removes nothing within the cap, and what it does not know of it could not see.
`Overtaken` orders the evictions under way by their publications, and says of each that
the cached files it does not know of belong to later ones or were missed, unless the rest
of the cache is within the cap or immovable already (`Settled`, which stays until somebody
publishes). When an eviction ends, what it knows of is within the cap or immovable, and
what it does not is of those still under way or was missed. A crash clears the evictions
and with them the debt: the next one to publish lists everything. Sums over sets of files
are compared with lemmas proved by a minimal counterexample (`LeastNumber`: a set of
naturals that is not empty has a least element), as induction over data is out of the
prover's reach.

**PlaybackProofs.** `TypeCorrect`, `LengthAlwaysKept`, `RangeAlwaysAnswered` and
`PromiseAlwaysKept`, for any visitors, ids, takes, sizes and requests. `RangeParsed`
and `FileStreams` say what `parse_range` and `serve_file` answer for a file of any size
and survive `apply_conditional`; the invariant carries this in every seat (`Seats`).
`PromiseAlwaysKept` rests on `Promise`: a flight that has stowed or landed well, and so
whoever is told "ok", is of an id whose file is there or was evicted since its last
publication (`Had`), and a file goes only by eviction. The proof uses nothing of
`fetch_trailer` but `SingleFlight`.

**CropReportProofs.** `CropAlwaysValid`, for any number of keyframes, boxes, frames and
landscape aspects: the median of a field is one of its values (`MedianIsElement`), so
the median box has a width and height that some keyframe had, though as a whole it need
not be any keyframe's; snapping to an aspect keeps the height within the frame and above
60% of it (`ServedHeightFits`); and a centred box of such a height is in the frame.
`MajorityAlwaysDecides`: a value that more than half of the elements have is the median
(`MajorityIsMedian`: any smaller one has less than half of the elements up to it), so
the box of most keyframes is the median of every field at once. `ContentAlwaysKept`:
fewer than half of the keyframes have content higher than the median (`FewAboveMedian`),
and the snap to an aspect keeps 95% of its height (`SnapKeepsHeight`), so those that lose
more than the tolerance are no majority.

**RankingProofs.** What the ranking computes, for lists of any length. `ListingOrdered`:
counting the places before an element gives every element a rank of its own, so that
`Listing` is the sorted list. `PickedByRank`: `pick_trailer_candidates` returns every
usable id once and by its best entry, in the order of rank and then of TMDB's list;
`JoinedByStanding` carries that order through the merge with KinoCheck and the cut at
`MAX_PROBE`, and `NoRepetition` says that no id comes twice. None of it is an induction,
as the operators are not recursive.

**ResolveProofs.** `AnswersFade`, `GrowsSwept`, `TypeCorrect`, `AlwaysRanked`,
`LinksAlwaysHonoured`, for any number of requests, keys and links, whatever the upstreams
answer. The age of a live entry and what it has still to live are together no more than
a lookup and a time to live (`EntryOK`): time moves from one to the other, a hit copies
both, so no chain of hits makes an answer older than `MaxLookup` and its TTL. That the
cache grows past its cap only when all its entries are alive compares the keys before
and after a store: without a sweep there is at most one more. `TInv` says which ids a
lookup may carry at each of its steps (`Offered`: none, what the search found, or the
merge of what TMDB and KinoCheck gave or did not give) and by which link it came in; it
holds of cached entries too, so a hit is as well ranked as the lookup that filled the
entry. A link is judged by the keys of the current run of the service (`KeyIn`), for a
restart leaves no request behind.

`OnlyKeysHideTrailers` is the other side of the run `resolve_keys`, in which an install
without a key that TMDB accepts hides a film's trailers from one that has such a key.
Under two hypotheses, that no call fails (`End = {"data"}`) and that in every
environment the requests that are not refused resolve with accepted keys
(`OneKindOfKey`), `KeyIndependent` always holds. The key is thus the only reason why
the shared entry depends on who asked first; races, expiry and rotations are none.

**Only model-checked.** Liveness (`EntryCleared`, `CallsAnswered`, `VisitorsAnswered`,
and the fairness part of the refinement `ImplementsSingleFlight`), which is beyond the prover. Every safety property of a passing run
is a theorem.

## 6. Not modelled

* The configure page: most of the file is bundled third-party cryptography, and the
  page's own script builds one link in one browser.
* `config.rs`, read once and pure: its values are the constants of the models. The
  cryptography of `seal.rs`, a library's.
* The choice of a handler by path, `query_param`, `percent_decode`, `self_base`,
  `build_meta`: pure functions of a text whose result nothing remembers.
* KinoCheck's key, which moves no state that TMDB's key does not.
* `probe` and `probe_extractable` of `ytdlp.rs`, called by nobody but a default of
  `AppState` that nothing uses.
* Command lines and stderr texts of subprocesses, logging, the side files of yt-dlp and
  the processes it leaves behind, the build and release files.
