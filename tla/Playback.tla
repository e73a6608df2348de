------------------------------ MODULE Playback ------------------------------
(***************************************************************************)
(* What a visitor of den-reel gets: handle_play and serve_file of          *)
(* src/play.rs, handle_crop of src/crop.rs, composed with what both stand  *)
(* on, fetch_trailer.  That is taken as its abstract specification, module *)
(* SingleFlight, which FetchTrailerRefinement shows it to implement; here  *)
(* its flights carry the contents of files and the reports on them.        *)
(***************************************************************************)
EXTENDS Integers, FiniteSets, Http

CONSTANTS
    Viewer,       \* visitors of /play
    Cropper,      \* visitors of /crop
    Vid,          \* YouTube ids
    NoVid,        \* "no id": not an element of Vid
    Take,         \* what yt-dlp may make of an id: formats and encodings
    NoTake,       \* "no take": not an element of Take
    Letterboxed,  \* the takes with bars
    Size,         \* bytes of the file of a take
    ClapBytes,    \* what a clap box adds
    BakeClap,     \* cfg.bake_clap
    Request       \* requests of /play

Visitor == Viewer \cup Cropper

ASSUME PlaybackAssumption ==
    /\ Viewer \cap Cropper = {} /\ IsFiniteSet(Visitor)
    /\ IsFiniteSet(Vid) /\ NoVid \notin Vid
    /\ NoTake \notin Take /\ Letterboxed \subseteq Take
    /\ Size \in [Take -> Nat \ {0}]
    /\ ClapBytes \in Nat /\ BakeClap \in BOOLEAN
    /\ \A req \in Request : req.range \in RangeHeader

VARIABLES
    flight, ask,  \* of SingleFlight: the downloads, and who awaits them
    file,         \* <vid>.mp4: the content published under it
    made,         \* the content of the download under way, from detect on
    cropCache,    \* AppState.crop_cache: a report is known by its take
    seat,         \* the tasks inside handle_play and handle_crop
    evicted       \* history: the ids evicted since last published

pvars == <<flight, ask, file, made, cropCache, seat, evicted>>

NoFile == [take |-> NoTake, clap |-> FALSE]
Content == [take : Take, clap : BOOLEAN]
SizeOf(c) == Size[c.take] + IF c.clap THEN ClapBytes ELSE 0

stored == {v \in Vid : file[v] # NoFile}

SF == INSTANCE SingleFlight WITH
         Asker <- Visitor, Key <- Vid, Outcome <- {"ok", "failed"}

NoReply == [status |-> 0, cc |-> "", etag |-> {}, acceptRanges |-> FALSE,
            body |-> {}]

\* attempt is that of handle_play; opened the content behind an open file, or
\* what ffmpeg found under the path; req and resp are the last exchange.
NoRequest == [method |-> "GET", range |-> NoRange, inm |-> [any |-> FALSE, tags |-> {}]]
Seat(pc, v, attempt, opened) ==
    [pc |-> pc, vid |-> v, attempt |-> attempt, opened |-> opened,
     req |-> NoRequest, resp |-> NoReply]
Out == Seat("out", NoVid, 0, NoFile)

Init ==
    /\ file = [v \in Vid |-> NoFile]
    /\ made = [v \in Vid |-> NoFile]
    /\ cropCache = [v \in Vid |-> NoTake]
    /\ seat = [x \in Visitor |-> Out]
    /\ evicted = {}
    /\ SF!Init

-----------------------------------------------------------------------------
(* The downloads.                                                           *)

CacheReport(v, take) == [cropCache EXCEPT ![v] = take]

\* cache_report empties a full cache: the reports on other ids, which are not
\* counted here, may have filled it at any time.
CropCacheFull ==
    /\ cropCache' = [v \in Vid |-> NoTake]
    /\ UNCHANGED <<flight, ask, file, made, seat, evicted>>

\* yt-dlp delivers some take; detect reports on it, or does not; a letterbox it
\* reports is baked, or MP4Box fails.
Make(v, take, clap, seen) ==
    /\ flight[v].st = "aloft" /\ made[v] = NoFile
    /\ clap => BakeClap /\ seen /\ take \in Letterboxed
    /\ made' = [made EXCEPT ![v] = [take |-> take, clap |-> clap]]
    /\ cropCache' = IF seen THEN CacheReport(v, take) ELSE cropCache
    /\ UNCHANGED <<flight, ask, file, seat, evicted>>

\* Mutant of Publish: a rename that fails passes for one that worked.
PublishUnchecked(v) ==
    /\ flight[v].st = "aloft" /\ made[v] # NoFile
    /\ file' \in {file, [file EXCEPT ![v] = made[v]]}
    /\ made' = [made EXCEPT ![v] = NoFile]
    /\ flight' = [flight EXCEPT ![v] = [st |-> "stowed"]]
    /\ evicted' = evicted \ {v}
    /\ UNCHANGED <<ask, cropCache, seat>>

\* The rename, in place of an older file if there is one.
Publish(v) ==
    /\ made[v] # NoFile
    /\ file' = [file EXCEPT ![v] = made[v]]
    /\ made' = [made EXCEPT ![v] = NoFile]
    /\ evicted' = evicted \ {v}
    /\ UNCHANGED <<cropCache, seat>>
    /\ SF!Stow(v)

\* Mutant of Land: what a failed download had made is left to the next.
LandKept(v, outcome) ==
    /\ UNCHANGED <<made, file, cropCache, seat, evicted>>
    /\ SF!Land(v, outcome)

\* A download that fails, before or after it has been looked at, or succeeds.
Land(v, outcome) ==
    /\ made' = [made EXCEPT ![v] = NoFile]
    /\ UNCHANGED <<file, cropCache, seat, evicted>>
    /\ SF!Land(v, outcome)

Sweep(v) == UNCHANGED <<file, made, cropCache, seat, evicted>> /\ SF!Sweep(v)

\* The eviction of some download removes a file.  Who has it open keeps it.
Evict(v) ==
    /\ \E u \in Vid : flight[u].st = "stowed"
    /\ file[v] # NoFile
    /\ file' = [file EXCEPT ![v] = NoFile]
    /\ evicted' = evicted \cup {v}
    /\ UNCHANGED <<made, cropCache, seat>>
    /\ SF!Drop(v)

Restart ==
    /\ made' = [v \in Vid |-> NoFile]
    /\ cropCache' = [v \in Vid |-> NoTake]
    /\ seat' = [x \in Visitor |-> Out]
    /\ UNCHANGED <<file, evicted>>
    /\ SF!Reset

-----------------------------------------------------------------------------
(* Both handlers.                                                           *)

Immutable == "public, max-age=31536000, immutable"

Reply(x, v, opened, req, resp) ==
    seat' = [seat EXCEPT ![x] =
                [pc |-> "answered", vid |-> v, attempt |-> 0, opened |-> opened,
                 req |-> req, resp |-> ApplyConditional(req, resp)]]

ReplyError(x, v, status, code) ==
    Reply(x, v, NoFile, NoRequest, Json(status, {code}, ""))

Free(x) == seat[x].pc \in {"out", "answered"}

\* The cache directory is unusable.
Unavailable(x, v) ==
    /\ Free(x)
    /\ ReplyError(x, v, 503, "cache_unavailable")
    /\ UNCHANGED <<flight, ask, file, made, cropCache, evicted>>

\* fetch_trailer is called.
Fetch(x, v, attempt) ==
    /\ seat' = [seat EXCEPT ![x] = Seat("asking", v, attempt, NoFile)]
    /\ UNCHANGED <<file, made, cropCache, evicted>>
    /\ SF!Ask(x, v)

\* fetch_trailer proceeds: a hit, a download to await or one just completed.
Proceed(x) ==
    /\ UNCHANGED <<file, made, cropCache, seat, evicted>>
    /\ SF!Hit(x) \/ SF!Late(x) \/ \E v \in Vid : SF!Board(x, v)

\* fetch_trailer has returned.
Told(x, outcome) == seat[x].pc = "asking" /\ ask[x] = SF!Told(outcome)

\* The peer hangs up.
HangUp(x) ==
    /\ ~ Free(x)
    /\ seat' = [seat EXCEPT ![x] = Out]
    /\ UNCHANGED <<file, made, cropCache, evicted>>
    /\ SF!Abandon(x)

-----------------------------------------------------------------------------
(* /play.                                                                   *)

\* play_error: 451, 403, 404 or 502, by the reason.
PlayFailed(x) ==
    /\ x \in Viewer /\ Told(x, "failed")
    /\ ReplyError(x, seat[x].vid, 502, "failed")
    /\ UNCHANGED <<flight, ask, file, made, cropCache, evicted>>

\* The file is there, and the open works.
OpenFile(x) ==
    LET v == seat[x].vid IN
    /\ x \in Viewer /\ Told(x, "ok")
    /\ file[v] # NoFile
    /\ seat' = [seat EXCEPT ![x] = Seat("opened", v, 0, file[v])]
    /\ UNCHANGED <<flight, ask, file, made, cropCache, evicted>>

\* Mutant of OpenFails: asks again as often as the open fails.
OpenFailsForever(x) ==
    /\ x \in Viewer /\ Told(x, "ok")
    /\ Fetch(x, seat[x].vid, 1)

\* The file cannot be opened: it was evicted since fetch_trailer answered, or the
\* open fails for another reason.  Ask once more, then give up.
OpenFails(x) ==
    /\ x \in Viewer /\ Told(x, "ok")
    /\ \/ seat[x].attempt = 0 /\ Fetch(x, seat[x].vid, 1)
       \/ /\ seat[x].attempt = 1
          /\ ReplyError(x, seat[x].vid, 500, "serve failed")
          /\ UNCHANGED <<flight, ask, file, made, cropCache, evicted>>

Part(content, first, last) == [content |-> content, first |-> first, last |-> last]

\* What serve_file sends of a content of some size: the etag is made of the id
\* and that size.
FileResponse(v, content, size, range) ==
    LET r == ParseRange(range, size)
        sent(status, first, last) ==
            [status |-> status, cc |-> Immutable, etag |-> {<<v, size>>},
             acceptRanges |-> TRUE, body |-> {Part(content, first, last)}]
    IN  CASE r.kind = "unsatisfiable" -> [NoReply EXCEPT !.status = 416]
          [] r.kind = "part" -> sent(206, r.first, r.last)
          [] r.kind = "whole" -> sent(200, 0, size - 1)

\* Mutant of Stat: asks for the size of what the path names by now.
StatPath(x) == LET c == file[seat[x].vid] IN IF c = NoFile THEN 0 ELSE SizeOf(c)

\* The size of the open file.
Stat(x) == SizeOf(seat[x].opened)

\* The size is read, and the answer made.
ServeFile(x, req) ==
    LET v == seat[x].vid IN
    /\ seat[x].pc = "opened"
    /\ Reply(x, v, seat[x].opened, req,
             FileResponse(v, seat[x].opened, Stat(x), req.range))
    /\ UNCHANGED <<flight, ask, file, made, cropCache, evicted>>

\* Stat or seek fail.
ServeFails(x) ==
    /\ seat[x].pc = "opened"
    /\ ReplyError(x, seat[x].vid, 500, "stat failed")
    /\ UNCHANGED <<flight, ask, file, made, cropCache, evicted>>

-----------------------------------------------------------------------------
(* /crop.                                                                   *)

ReplyReport(x, v, take) == Reply(x, v, NoFile, NoRequest, Json(200, {take}, Immutable))

\* A cached report is sent at once.
CropHit(x, v) ==
    /\ x \in Cropper /\ Free(x)
    /\ cropCache[v] # NoTake
    /\ ReplyReport(x, v, cropCache[v])
    /\ UNCHANGED <<flight, ask, file, made, cropCache, evicted>>

CropMiss(x, v) ==
    /\ x \in Cropper /\ Free(x)
    /\ cropCache[v] = NoTake
    /\ Fetch(x, v, 0)

\* Without a file the report is unknown.
CropFailed(x) ==
    /\ x \in Cropper /\ Told(x, "failed")
    /\ ReplyReport(x, seat[x].vid, NoTake)
    /\ UNCHANGED <<flight, ask, file, made, cropCache, evicted>>

\* The cache is looked at again; ffmpeg runs if there still is no report, on what
\* the path names now.
CropFetched(x) ==
    LET v == seat[x].vid IN
    /\ x \in Cropper /\ Told(x, "ok")
    /\ IF cropCache[v] # NoTake THEN ReplyReport(x, v, cropCache[v])
       ELSE seat' = [seat EXCEPT ![x] = Seat("detecting", v, 0, file[v])]
    /\ UNCHANGED <<flight, ask, file, made, cropCache, evicted>>

\* detect ends with a report, which is cached, or without one.
CropDetected(x, seen) ==
    LET v == seat[x].vid
        take == seat[x].opened.take
    IN
    /\ seat[x].pc = "detecting"
    /\ seen => take # NoTake
    /\ cropCache' = IF seen THEN CacheReport(v, take) ELSE cropCache
    /\ ReplyReport(x, v, IF seen THEN take ELSE NoTake)
    /\ UNCHANGED <<flight, ask, file, made, evicted>>

-----------------------------------------------------------------------------
FlightStep(v) ==
    \/ \E take \in Take, clap, seen \in BOOLEAN : Make(v, take, clap, seen)
    \/ Publish(v)
    \/ \E outcome \in {"ok", "failed"} : Land(v, outcome)
    \/ Sweep(v)

SeatStep(x) ==
    \/ Proceed(x)
    \/ PlayFailed(x)
    \/ OpenFile(x)
    \/ OpenFails(x)
    \/ \E req \in Request : ServeFile(x, req)
    \/ ServeFails(x)
    \/ CropFailed(x)
    \/ CropFetched(x)
    \/ \E seen \in BOOLEAN : CropDetected(x, seen)

Arrive(x, v) ==
    \/ Unavailable(x, v)
    \/ x \in Viewer /\ Free(x) /\ Fetch(x, v, 0)
    \/ CropHit(x, v)
    \/ CropMiss(x, v)

Next ==
    \/ \E x \in Visitor, v \in Vid : Arrive(x, v)
    \/ \E x \in Visitor : SeatStep(x) \/ HangUp(x)
    \/ \E v \in Vid : FlightStep(v) \/ Evict(v)
    \/ CropCacheFull
    \/ Restart

Spec == Init /\ [][Next]_pvars

\* What the code justifies: tasks that can run are polled, subprocesses have a
\* timeout, file operations return.  Nobody needs to come, and no file to go.
FairSpec ==
    /\ Spec
    /\ \A x \in Visitor : WF_pvars(SeatStep(x))
    /\ \A v \in Vid : WF_pvars(FlightStep(v))

-----------------------------------------------------------------------------
\* Every variable holds a value of its kind; only /play opens files for sending
\* and only /crop has them looked at.
TypeOK ==
    /\ file \in [Vid -> Content \cup {NoFile}]
    /\ made \in [Vid -> Content \cup {NoFile}]
    /\ \A v \in Vid : made[v] # NoFile => flight[v].st = "aloft"
    /\ cropCache \in [Vid -> Take \cup {NoTake}]
    /\ evicted \subseteq Vid
    /\ \A x \in Visitor :
          /\ seat[x].pc \in {"out", "asking", "opened", "detecting", "answered"}
          /\ seat[x].vid \in IF seat[x].pc = "out" THEN {NoVid} ELSE Vid
          /\ seat[x].attempt \in {0, 1}
          /\ seat[x].opened \in Content \cup {NoFile}
          /\ seat[x].pc = "opened" => x \in Viewer /\ seat[x].opened # NoFile
          /\ seat[x].pc = "detecting" => x \in Cropper

Answered(x) == seat[x].pc = "answered"

\* What an answer of /play announces lies within the file it streams, though the
\* path may have been evicted or replaced since it was opened: no player waits
\* for bytes that never come, or loses the end.
LengthKept ==
    \A x \in Viewer : Answered(x) =>
        \A part \in seat[x].resp.body : seat[x].resp.status \in {200, 206} =>
            /\ part.content = seat[x].opened
            /\ part.last < SizeOf(part.content)
            /\ seat[x].resp.status = 200 =>
                  part.first = 0 /\ part.last = SizeOf(part.content) - 1

\* A player that asks for a range of the file gets its bytes, whatever validators
\* it or a proxy sends along; it never gets a bare 304, and nobody who does not
\* send a range gets a part ("a 304 there silently breaks player seeks",
\* apply_conditional).
RangeAnswered ==
    \A x \in Viewer : Answered(x) /\ seat[x].resp.status \notin {500, 502, 503} =>
        LET req == seat[x].req
            resp == seat[x].resp
            size == SizeOf(seat[x].opened)
        IN  /\ resp.status \in {200, 206, 416}
            /\ resp.status = 206 <=> /\ req.range.form = "bytes"
                                     /\ req.range.first < size
                                     /\ \/ req.range.last = Open
                                        \/ req.range.first <= req.range.last
            /\ req.method = "GET" /\ resp.status = 206 =>
                  \E part \in resp.body :
                     /\ part.first = req.range.first
                     /\ part.last = size - 1 \/ part.last = req.range.last

\* Whoever is told that the file is cached finds it, unless it has been evicted
\* since it was last published: no download that failed, was cut short or was
\* joined when it had ended, and no visitor that left or asked again, makes
\* fetch_trailer promise a file that is not there.  What then fails in the open is
\* an eviction or the file system, as the retry of handle_play takes it to be.
PromiseKept ==
    \A x \in Visitor :
        Told(x, "ok") => file[seat[x].vid] # NoFile \/ seat[x].vid \in evicted

\* Every visitor gets an answer, also if the file cannot be opened each
\* time it is fetched, unless it hangs up or the service is restarted.
VisitorsAnswered ==
    \A x \in Visitor : seat[x].pc = "asking" ~> seat[x].pc \in {"answered", "out"}

\* The bytes of an id never change ("byte-stable + immutable", serve_file): two
\* answers for it are of one content.
ByteStable ==
    \A x, y \in Viewer :
        /\ Answered(x) /\ seat[x].resp.status \in {200, 206}
        /\ Answered(y) /\ seat[y].resp.status \in {200, 206}
        /\ seat[x].vid = seat[y].vid
        => seat[x].opened = seat[y].opened

\* A visitor who could not be told a report may ask again ("so a later call
\* retries", unknown): no cache keeps the answer.
UnknownRetried ==
    \A x \in Cropper :
        Answered(x) /\ seat[x].resp.status = 200 /\ NoTake \in seat[x].resp.body
            => seat[x].resp.cc # Immutable
=============================================================================
