--------------------------- MODULE PlaybackProofs ---------------------------
(***************************************************************************)
(* Proofs about Playback, for any visitors, ids, takes and requests: what  *)
(* /play streams fits the file it opened and the range it was asked for,   *)
(* and who is told that a file is cached finds it, unless it was evicted.  *)
(***************************************************************************)
EXTENDS Playback, TLAPS

-----------------------------------------------------------------------------
(* What serve_file answers.                                                 *)

LEMMA SizePositive ==
    ASSUME NEW c \in Content
    PROVE  SizeOf(c) \in Nat \ {0}
<1>1. Size[c.take] \in Nat \ {0} /\ ClapBytes \in Nat
  BY PlaybackAssumption DEF Content
<1> QED
  BY <1>1 DEF SizeOf

\* parse_range of a file that is not empty: a part lies within the file, begins
\* where the client asked, and ends there or at the last byte.
THEOREM RangeParsed ==
    ASSUME NEW size \in Nat \ {0}, NEW range \in RangeHeader
    PROVE  LET r == ParseRange(range, size) IN
           \/ r = Whole /\ range.form # "bytes"
           \/ /\ r = Unsatisfiable
              /\ ~ /\ range.first < size
                   /\ range.last = Open \/ range.first <= range.last
           \/ /\ r = [kind |-> "part", first |-> range.first, last |-> r.last]
              /\ range.form = "bytes" /\ range.first < size
              /\ range.last = Open \/ range.first <= range.last
              /\ r.last \in 0 .. size - 1
              /\ r.last = size - 1 \/ r.last = range.last
<1>1. CASE range.form # "bytes"
  BY <1>1 DEF ParseRange
<1>2. CASE range.form = "bytes"
  <2>1. range.first \in Nat /\ range.last \in Nat \cup {Open}
    BY <1>2 DEF RangeHeader, NoRange, JunkRange
  <2> DEFINE last == LastByte(range, size)
  <2>2. /\ last \in 0 .. size - 1
        /\ last = size - 1 \/ last = range.last
        /\ range.first < size =>
              (range.first > last <=> range.last # Open /\ range.first > range.last)
    BY <2>1 DEF LastByte, Open
  <2>3. ParseRange(range, size) =
           IF range.first >= size \/ range.first > last THEN Unsatisfiable
           ELSE [kind |-> "part", first |-> range.first, last |-> last]
    BY <1>2 DEF ParseRange
  <2> HIDE DEF last
  <2>4. CASE range.first >= size \/ range.first > last
    BY <2>1, <2>2, <2>3, <2>4
  <2>5. CASE ~ (range.first >= size \/ range.first > last)
    BY <1>2, <2>1, <2>2, <2>3, <2>5
  <2> QED
    BY <2>4, <2>5
<1> QED
  BY <1>1, <1>2

\* What an answer of serve_file to a request req keeps, for an open file of some
\* content.
Streams(content, req, resp) ==
    LET size == SizeOf(content) IN
    /\ resp.status \in {200, 206, 416}
    /\ \A part \in resp.body : resp.status \in {200, 206} =>
          /\ part.content = content
          /\ part.last < size
          /\ resp.status = 200 => part.first = 0 /\ part.last = size - 1
    /\ resp.status = 206 <=> /\ req.range.form = "bytes"
                             /\ req.range.first < size
                             /\ \/ req.range.last = Open
                                \/ req.range.first <= req.range.last
    /\ req.method = "GET" /\ resp.status = 206 =>
          \E part \in resp.body :
             /\ part.first = req.range.first
             /\ part.last = size - 1 \/ part.last = req.range.last

LEMMA FileStreams ==
    ASSUME NEW v, NEW content \in Content, NEW req \in Request
    PROVE  Streams(content, req,
                   ApplyConditional(req, FileResponse(v, content, SizeOf(content),
                                                      req.range)))
<1> DEFINE size == SizeOf(content)
           range == req.range
           r == ParseRange(range, size)
           resp == FileResponse(v, content, size, range)
           out == ApplyConditional(req, resp)
           sent(status, first, last) ==
              [status |-> status, cc |-> Immutable, etag |-> {<<v, size>>},
               acceptRanges |-> TRUE, body |-> {Part(content, first, last)}]
<1> SUFFICES Streams(content, req, out)
  OBVIOUS
<1>1. size \in Nat \ {0} /\ range \in RangeHeader
  BY SizePositive, PlaybackAssumption
<1>2. resp = CASE r.kind = "unsatisfiable" -> [NoReply EXCEPT !.status = 416]
               [] r.kind = "part" -> sent(206, r.first, r.last)
               [] r.kind = "whole" -> sent(200, 0, size - 1)
  BY DEF FileResponse
<1> HIDE DEF size, range, r, resp
<1> DEFINE Kept == \/ out = resp
                   \/ req.method = "HEAD" /\ out = [resp EXCEPT !.body = {}]
<1>s. out \in {resp, HeadStripped(req.method, resp)} => Kept
  <2> HIDE DEF out
  <2> QED
    BY Zenon DEF HeadStripped
<1>3. resp.status # 200 => Kept
  <2>1. resp.status # 200 => out \in {resp, HeadStripped(req.method, resp)}
    BY Zenon DEF ApplyConditional
  <2> QED
    BY <1>s, <2>1
<1>r. resp.acceptRanges => Kept
  <2>1. resp.acceptRanges => out \in {resp, HeadStripped(req.method, resp)}
    BY Zenon DEF ApplyConditional
  <2> QED
    BY <1>s, <2>1
<1> HIDE DEF out
<1>4. ASSUME NEW status \in {200, 206}, NEW first, NEW last,
             resp = sent(status, first, last)
      PROVE  /\ out.status = status
             /\ \A part \in out.body :
                   part.content = content /\ part.first = first /\ part.last = last
             /\ req.method = "GET" =>
                   \E part \in out.body : part.first = first /\ part.last = last
  <2>1. CASE out = resp
    <3>1. out.status = status /\ out.body = {Part(content, first, last)}
      BY <1>4, <2>1
    <3> QED
      BY <3>1 DEF Part
  <2>2. CASE req.method = "HEAD" /\ out = [resp EXCEPT !.body = {}]
    <3>1. out.status = status /\ out.body = {}
      BY <1>4, <2>2
    <3> QED
      BY <2>2, <3>1
  <2>3. resp.acceptRanges
    BY <1>4
  <2> QED
    BY <1>r, <2>1, <2>2, <2>3
<1> HIDE DEF sent
<1>5. CASE r = Whole /\ range.form # "bytes"
  <2>1. resp = sent(200, 0, size - 1)
    BY <1>2, <1>5 DEF Whole
  <2>2. out.status = 200
           /\ \A part \in out.body : part.content = content /\ part.first = 0
                                      /\ part.last = size - 1
    BY <1>4, <2>1
  <2>3. size - 1 < size
    BY <1>1
  <2> QED
    BY <1>5, <2>2, <2>3 DEF Streams, size, range
<1>6. CASE /\ r = Unsatisfiable
           /\ ~ /\ range.first < size
                /\ range.last = Open \/ range.first <= range.last
  <2>1. resp = [NoReply EXCEPT !.status = 416]
    BY <1>2, <1>6 DEF Unsatisfiable
  <2>2. resp = [status |-> 416, cc |-> "", etag |-> {}, acceptRanges |-> FALSE,
                body |-> {}]
    BY <2>1 DEF NoReply
  <2>3. out.status = 416
    <3>0. resp.status = 416
      BY <2>2
    <3>1. resp.status # 200
      BY <3>0
    <3>2. CASE out = resp
      BY <2>2, <3>2
    <3>3. CASE out = [resp EXCEPT !.body = {}]
      BY <2>2, <3>3
    <3> QED
      BY <1>3, <3>1, <3>2, <3>3
  <2> QED
    BY <1>6, <2>3 DEF Streams, size, range
<1>7. CASE /\ r = [kind |-> "part", first |-> range.first, last |-> r.last]
           /\ range.form = "bytes" /\ range.first < size
           /\ range.last = Open \/ range.first <= range.last
           /\ r.last \in 0 .. size - 1
           /\ r.last = size - 1 \/ r.last = range.last
  <2>1. r.kind = "part" /\ r.first = range.first
    BY <1>7
  <2>2. resp = sent(206, range.first, r.last)
    BY <1>2, <2>1
  <2>3. /\ out.status = 206
        /\ \A part \in out.body :
              part.content = content /\ part.first = range.first
              /\ part.last = r.last
        /\ req.method = "GET" =>
              \E part \in out.body : part.first = range.first /\ part.last = r.last
    BY <1>4, <2>2
  <2>4. r.last < size
    BY <1>1, <1>7
  <2> QED
    BY <1>7, <2>3, <2>4 DEF Streams, size, range
<1> QED
  BY <1>1, <1>5, <1>6, <1>7, RangeParsed DEF r

-----------------------------------------------------------------------------
(* The inductive invariant.                                                 *)

Flights == [st : {"none", "aloft", "stowed"}]
              \cup [st : {"landed"}, outcome : {"ok", "failed"}]
Asks == [st : {"idle"}] \cup [st : {"asking", "aboard"}, key : Vid]
           \cup [st : {"answered"}, outcome : {"ok", "failed"}]

Typing ==
    /\ flight \in [Vid -> Flights]
    /\ ask \in [Visitor -> Asks]
    /\ file \in [Vid -> Content \cup {NoFile}]
    /\ made \in [Vid -> Content \cup {NoFile}]
    /\ \A v \in Vid : made[v] # NoFile => flight[v].st = "aloft"
    /\ cropCache \in [Vid -> Take \cup {NoTake}]
    /\ seat = [x \in Visitor |-> seat[x]]
    /\ evicted \subseteq Vid

\* What an answer of /play keeps, of one task.
AnswerOK(s) ==
    \/ s.resp.status \in {500, 502, 503}
    \/ s.opened \in Content /\ Streams(s.opened, s.req, s.resp)

SeatOK(x, s) ==
    /\ s.pc \in {"out", "asking", "opened", "detecting", "answered"}
    /\ s.vid \in IF s.pc = "out" THEN {NoVid} ELSE Vid
    /\ s.attempt \in {0, 1}
    /\ s.opened \in Content \cup {NoFile}
    /\ s.pc = "opened" => x \in Viewer /\ s.opened \in Content
    /\ s.pc = "detecting" => x \in Cropper
    /\ x \in Viewer /\ s.pc = "answered" => AnswerOK(s)

Seats == \A x \in Visitor : SeatOK(x, seat[x])

\* The ids with a file, and those whose file was evicted since it was published.
Had == stored \cup evicted

\* Whoever is told "ok" is told so of such an id.
Promise ==
    /\ \A v \in Vid :
          flight[v].st = "stowed" \/ flight[v] = [st |-> "landed", outcome |-> "ok"]
              => v \in Had
    /\ \A x \in Visitor : ask[x].st \in {"asking", "aboard"} =>
          seat[x].pc = "asking" /\ ask[x].key = seat[x].vid
    /\ \A x \in Visitor : seat[x].pc = "asking" /\ ask[x] = SF!Told("ok") =>
          seat[x].vid \in Had

IInv == Typing /\ Seats /\ Promise

-----------------------------------------------------------------------------
(* What the steps change.                                                   *)

\* A step that seats one visitor anew.
SeatedAs(x, s) ==
    /\ seat' = [y \in Visitor |-> seat'[y]]
    /\ seat'[x] = s
    /\ \A y \in Visitor : y # x => seat'[y] = seat[y]

LEMMA Seated ==
    ASSUME Typing, NEW x \in Visitor, NEW s, seat' = [seat EXCEPT ![x] = s]
    PROVE  SeatedAs(x, s)
  BY DEF Typing, SeatedAs

LEMMA Replied ==
    ASSUME Typing, NEW x \in Visitor, NEW v, NEW opened, NEW req, NEW resp,
           Reply(x, v, opened, req, resp)
    PROVE  SeatedAs(x, [pc |-> "answered", vid |-> v, attempt |-> 0,
                        opened |-> opened, req |-> req,
                        resp |-> ApplyConditional(req, resp)])
  BY Seated DEF Reply

LEMMA ErrorReplied ==
    ASSUME Typing, NEW x \in Visitor, NEW v \in Vid, NEW status \in {500, 502, 503},
           NEW code, ReplyError(x, v, status, code)
    PROVE  SeatedAs(x, seat'[x]) /\ SeatOK(x, seat'[x])
<1> DEFINE resp == Json(status, {code}, "")
<1>1. SeatedAs(x, [pc |-> "answered", vid |-> v, attempt |-> 0,
                   opened |-> NoFile, req |-> NoRequest,
                   resp |-> ApplyConditional(NoRequest, resp)])
  BY Replied DEF ReplyError
<1>2. resp.status = status /\ resp.body = {code}
  BY DEF Json
<1>0. status # 200
  OBVIOUS
<1>3. ApplyConditional(NoRequest, resp) = resp
  <2> HIDE DEF resp
  <2>1. NoRequest.method = "GET"
    BY DEF NoRequest
  <2>2. resp.status # 200
    BY <1>0, <1>2
  <2> QED
    BY <2>1, <2>2 DEF ApplyConditional, HeadStripped
<1> HIDE DEF resp
<1> DEFINE s == [pc |-> "answered", vid |-> v, attempt |-> 0, opened |-> NoFile,
                 req |-> NoRequest, resp |-> resp]
<1>4. SeatedAs(x, s)
  BY <1>1, <1>3
<1>5. /\ s.pc = "answered" /\ s.vid = v /\ s.attempt = 0 /\ s.opened = NoFile
      /\ s.resp = resp
  OBVIOUS
<1> HIDE DEF s
<1>6. AnswerOK(s)
  <2>1. s.resp.status = status /\ s.resp.body = {code}
    BY <1>2, <1>5
  <2> QED
    BY <2>1 DEF AnswerOK
<1>7. SeatOK(x, s)
  BY <1>5, <1>6 DEF SeatOK
<1> QED
  BY <1>4, <1>7 DEF SeatedAs

\* The other seats: what was right of them stays right.
LEMMA OthersSeated ==
    ASSUME Seats, NEW x \in Visitor, NEW s, SeatedAs(x, s), SeatOK(x, s)
    PROVE  Seats'
<1> SUFFICES ASSUME NEW y \in Visitor PROVE SeatOK(y, seat'[y])
  BY DEF Seats
<1>1. SeatOK(y, seat[y])
  BY DEF Seats
<1> QED
  BY <1>1 DEF SeatedAs

LEMMA NobodySeated ==
    ASSUME Seats, seat' = seat
    PROVE  Seats'
  BY DEF Seats

\* Visitors of the two kinds are visitors, and nobody is of both.
LEMMA Kinds ==
    /\ \A x \in Viewer \cup Cropper : x \in Visitor
    /\ \A x \in Cropper : x \notin Viewer
  BY PlaybackAssumption DEF Visitor

LEMMA InitHolds == Init => IInv
<1> SUFFICES ASSUME Init PROVE IInv
  OBVIOUS
<1>1. \A x \in Visitor : seat[x] = Out
  BY DEF Init
<1>2. Typing
  BY DEF Init, Typing, SF!Init, SF!NoFlight, SF!NotAsking, Flights, Asks
<1>3. ASSUME NEW x \in Visitor
      PROVE  SeatOK(x, Out)
  BY DEF SeatOK, Out, Seat
<1>4. Out.pc = "out"
  BY DEF Out, Seat
<1>5. \A v \in Vid : flight[v].st = "none"
  BY DEF Init, SF!Init, SF!NoFlight
<1>6. \A x \in Visitor : ask[x].st = "idle"
  BY DEF Init, SF!Init, SF!NotAsking
<1>7. Promise
  <2>1. \A v \in Vid : ~ (flight[v].st = "stowed"
                           \/ flight[v] = [st |-> "landed", outcome |-> "ok"])
    BY <1>5
  <2> QED
    BY <1>1, <1>4, <1>6, <2>1 DEF Promise
<1> QED
  BY <1>1, <1>2, <1>3, <1>7 DEF IInv, Seats

\* What an id once had, it has had.
LEMMA HadGrows == Typing /\ [Next]_pvars => Had \subseteq Had'
<1> SUFFICES ASSUME Typing, [Next]_pvars
             PROVE  Had \subseteq Had'
  OBVIOUS
<1>a. file' = file /\ evicted' = evicted => Had \subseteq Had'
  BY DEF Had, stored
<1>1. ASSUME NEW x \in Visitor, NEW v \in Vid, Arrive(x, v)
      PROVE  file' = file /\ evicted' = evicted
  BY <1>1 DEF Arrive, Unavailable, Fetch, CropHit, CropMiss
<1>2. ASSUME NEW x \in Visitor, SeatStep(x) \/ HangUp(x)
      PROVE  file' = file /\ evicted' = evicted
  BY <1>2 DEF SeatStep, HangUp, Proceed, PlayFailed, OpenFile, OpenFails, Fetch,
              ServeFile, ServeFails, CropFailed, CropFetched, CropDetected
<1>3. ASSUME NEW v \in Vid,
             \/ \E take \in Take, clap, seen \in BOOLEAN : Make(v, take, clap, seen)
             \/ \E outcome \in {"ok", "failed"} : Land(v, outcome)
             \/ Sweep(v)
      PROVE  file' = file /\ evicted' = evicted
  BY <1>3 DEF Make, Land, Sweep
<1>4. ASSUME NEW v \in Vid, Publish(v)
      PROVE  Had \subseteq Had'
  BY <1>4 DEF Publish, Had, stored, Typing
<1>5. ASSUME NEW v \in Vid, Evict(v)
      PROVE  Had \subseteq Had'
  BY <1>5 DEF Evict, Had, stored, Typing
<1>6. CropCacheFull \/ Restart \/ UNCHANGED pvars => file' = file /\ evicted' = evicted
  BY DEF CropCacheFull, Restart, pvars
<1> QED
  BY <1>a, <1>1, <1>2, <1>3, <1>4, <1>5, <1>6 DEF Next, FlightStep

-----------------------------------------------------------------------------
(* Every step keeps the invariant.                                          *)

\* The part of Typing about the downloads and about who awaits them.
Flying ==
    /\ flight \in [Vid -> Flights]
    /\ ask \in [Visitor -> Asks]
    /\ \A v \in Vid : made[v] # NoFile => flight[v].st = "aloft"

LEMMA ToldTyped == \A o \in {"ok", "failed"} : SF!Told(o) \in Asks
  BY DEF SF!Told, Asks

LEMMA AskFlies ==
    ASSUME Typing, NEW x \in Visitor, NEW v \in Vid, SF!Ask(x, v), made' = made
    PROVE  Flying'
<1>1. [st |-> "asking", key |-> v] \in Asks
  BY DEF Asks
<1> QED
  BY <1>1 DEF SF!Ask, Typing, Flying

LEMMA ProceedFlies ==
    ASSUME Typing, NEW x \in Visitor, Proceed(x)
    PROVE  Flying'
<1>0. made' = made
  BY DEF Proceed
<1>1. CASE SF!Hit(x)
  BY <1>0, <1>1, ToldTyped DEF SF!Hit, Typing, Flying
<1>2. CASE SF!Late(x)
  <2>1. ask[x].key \in Vid
    BY <1>2 DEF SF!Late, Typing, Asks
  <2>2. flight[ask[x].key].outcome \in {"ok", "failed"}
    BY <1>2, <2>1 DEF SF!Late, Typing, Flights
  <2> QED
    BY <1>0, <1>2, <2>2, ToldTyped DEF SF!Late, Typing, Flying
<1>3. ASSUME NEW v \in Vid, SF!Board(x, v)
      PROVE  Flying'
  <2>1. [st |-> "aboard", key |-> v] \in Asks /\ [st |-> "aloft"] \in Flights
    BY DEF Asks, Flights
  <2>2. ask' \in [Visitor -> Asks]
    BY <1>3, <2>1 DEF SF!Board, Typing
  <2>3. flight' \in [Vid -> Flights]
    BY <1>3, <2>1 DEF SF!Board, Typing
  <2>4. \A u \in Vid : made'[u] # NoFile => flight'[u].st = "aloft"
    BY <1>0, <1>3 DEF SF!Board, SF!NoFlight, Typing
  <2> QED
    BY <2>2, <2>3, <2>4 DEF Flying
<1> QED
  BY <1>1, <1>2, <1>3 DEF Proceed

LEMMA LandFlies ==
    ASSUME Typing, NEW v \in Vid, NEW o \in {"ok", "failed"}, Land(v, o)
    PROVE  Flying'
<1>1. [st |-> "landed", outcome |-> o] \in Flights
  BY DEF Flights
<1>2. flight' \in [Vid -> Flights]
  BY <1>1 DEF Land, SF!Land, Typing
<1>3. ask' \in [Visitor -> Asks]
  BY ToldTyped DEF Land, SF!Land, Typing
<1>4. \A u \in Vid : made'[u] # NoFile => flight'[u].st = "aloft"
  BY DEF Land, SF!Land, Typing
<1> QED
  BY <1>2, <1>3, <1>4 DEF Flying

LEMMA TypingNext == Typing /\ Seats /\ [Next]_pvars => Typing'
<1> SUFFICES ASSUME Typing, Seats, [Next]_pvars
             PROVE  Typing'
  OBVIOUS
<1>a. ASSUME flight' = flight, ask' = ask, made' = made
      PROVE  Flying'
  BY <1>a DEF Flying, Typing
<1>b. ASSUME Flying', file' = file, made' \in [Vid -> Content \cup {NoFile}],
             cropCache' \in [Vid -> Take \cup {NoTake}],
             seat' = [y \in Visitor |-> seat'[y]], evicted' = evicted
      PROVE  Typing'
  BY <1>b DEF Typing, Flying
<1>c. ASSUME NEW v \in Vid, NEW take \in Take
      PROVE  CacheReport(v, take) \in [Vid -> Take \cup {NoTake}]
  BY DEF CacheReport, Typing
<1>d. ASSUME NEW x \in Visitor, NEW s, seat' = [seat EXCEPT ![x] = s]
      PROVE  seat' = [y \in Visitor |-> seat'[y]]
  BY <1>d, Seated DEF SeatedAs
<1>e. /\ file \in [Vid -> Content \cup {NoFile}]
      /\ made \in [Vid -> Content \cup {NoFile}]
      /\ cropCache \in [Vid -> Take \cup {NoTake}]
      /\ seat = [y \in Visitor |-> seat[y]]
  BY DEF Typing
<1>f. ASSUME NEW x \in Visitor, NEW v \in Vid, NEW i, Fetch(x, v, i)
      PROVE  Typing'
  BY <1>b, <1>d, <1>e, <1>f, AskFlies DEF Fetch
<1>1. ASSUME NEW x \in Visitor, NEW v \in Vid, Arrive(x, v)
      PROVE  Typing'
  <2>1. CASE Unavailable(x, v)
    BY <1>a, <1>b, <1>d, <1>e, <2>1 DEF Unavailable, ReplyError, Reply
  <2>2. CASE \E i \in {0, 1} : Fetch(x, v, i)
    BY <1>f, <2>2
  <2>3. CASE CropHit(x, v)
    BY <1>a, <1>b, <1>d, <1>e, <2>3 DEF CropHit, ReplyReport, Reply
  <2> QED
    BY <1>1, <2>1, <2>2, <2>3 DEF Arrive, CropMiss
<1>2. ASSUME NEW x \in Visitor, SeatStep(x)
      PROVE  Typing'
  <2>1. CASE Proceed(x)
    BY <1>b, <1>e, <2>1, ProceedFlies DEF Proceed
  <2>2. CASE PlayFailed(x)
    BY <1>a, <1>b, <1>d, <1>e, <2>2 DEF PlayFailed, ReplyError, Reply
  <2>3. CASE OpenFile(x)
    BY <1>a, <1>b, <1>d, <1>e, <2>3 DEF OpenFile
  <2>4. CASE OpenFails(x)
    <3>1. seat[x].vid \in Vid
      BY <2>4 DEF OpenFails, Told, Seats, SeatOK
    <3>2. CASE Fetch(x, seat[x].vid, 1)
      BY <1>f, <3>1, <3>2
    <3>3. CASE ReplyError(x, seat[x].vid, 500, "serve failed")
               /\ UNCHANGED <<flight, ask, file, made, cropCache, evicted>>
      BY <1>a, <1>b, <1>d, <1>e, <3>3 DEF ReplyError, Reply
    <3> QED
      BY <2>4, <3>2, <3>3 DEF OpenFails
  <2>5. ASSUME NEW req \in Request, ServeFile(x, req)
        PROVE  Typing'
    BY <1>a, <1>b, <1>d, <1>e, <2>5 DEF ServeFile, Reply
  <2>6. CASE ServeFails(x)
    BY <1>a, <1>b, <1>d, <1>e, <2>6 DEF ServeFails, ReplyError, Reply
  <2>7. CASE CropFailed(x)
    BY <1>a, <1>b, <1>d, <1>e, <2>7 DEF CropFailed, ReplyReport, Reply
  <2>8. CASE CropFetched(x)
    BY <1>a, <1>b, <1>d, <1>e, <2>8 DEF CropFetched, ReplyReport, Reply
  <2>9. ASSUME NEW seen \in BOOLEAN, CropDetected(x, seen)
        PROVE  Typing'
    <3>1. seat[x].vid \in Vid /\ seat[x].opened \in Content \cup {NoFile}
      BY <2>9 DEF CropDetected, Seats, SeatOK
    <3>2. seen => seat[x].opened.take \in Take
      BY <2>9, <3>1 DEF CropDetected, Content, NoFile
    <3>3. cropCache' \in [Vid -> Take \cup {NoTake}]
      BY <1>c, <1>e, <2>9, <3>1, <3>2 DEF CropDetected
    <3> QED
      BY <1>a, <1>b, <1>d, <1>e, <2>9, <3>3 DEF CropDetected, ReplyReport, Reply
  <2> QED
    BY <1>2, <2>1, <2>2, <2>3, <2>4, <2>5, <2>6, <2>7, <2>8, <2>9 DEF SeatStep
<1>3. ASSUME NEW x \in Visitor, HangUp(x)
      PROVE  Typing'
  <2>1. SF!NotAsking \in Asks
    BY DEF SF!NotAsking, Asks
  <2>2. Flying'
    BY <1>3, <2>1 DEF HangUp, SF!Abandon, Typing, Flying
  <2> QED
    BY <1>b, <1>d, <1>e, <1>3, <2>2 DEF HangUp
<1>4. ASSUME NEW v \in Vid, FlightStep(v)
      PROVE  Typing'
  <2>1. ASSUME NEW take \in Take, NEW clap \in BOOLEAN, NEW seen \in BOOLEAN,
               Make(v, take, clap, seen)
        PROVE  Typing'
    <3>1. [take |-> take, clap |-> clap] \in Content
      BY DEF Content
    <3>2. made' \in [Vid -> Content \cup {NoFile}]
      BY <1>e, <2>1, <3>1 DEF Make
    <3>3. cropCache' \in [Vid -> Take \cup {NoTake}]
      BY <1>c, <1>e, <2>1 DEF Make
    <3>4. Flying'
      BY <2>1 DEF Make, Flying, Typing
    <3> QED
      BY <1>b, <1>e, <2>1, <3>2, <3>3, <3>4 DEF Make
  <2>2. CASE Publish(v)
    <3>1. [st |-> "stowed"] \in Flights
      BY DEF Flights
    <3>2. Flying'
      BY <2>2, <3>1 DEF Publish, SF!Stow, Flying, Typing
    <3>3. /\ file' \in [Vid -> Content \cup {NoFile}]
          /\ made' \in [Vid -> Content \cup {NoFile}]
      BY <1>e, <2>2 DEF Publish
    <3>4. evicted' \subseteq Vid
      BY <2>2 DEF Publish, Typing
    <3> QED
      BY <2>2, <3>2, <3>3, <3>4 DEF Publish, Typing, Flying
  <2>3. ASSUME NEW o \in {"ok", "failed"}, Land(v, o)
        PROVE  Typing'
    <3>1. made' \in [Vid -> Content \cup {NoFile}]
      BY <1>e, <2>3 DEF Land
    <3> QED
      BY <1>b, <1>e, <2>3, <3>1, LandFlies DEF Land
  <2>4. CASE Sweep(v)
    <3>1. SF!NoFlight \in Flights
      BY DEF SF!NoFlight, Flights
    <3>2. Flying'
      BY <2>4, <3>1 DEF Sweep, SF!Sweep, Flying, Typing
    <3> QED
      BY <1>b, <1>e, <2>4, <3>2 DEF Sweep
  <2> QED
    BY <1>4, <2>1, <2>2, <2>3, <2>4 DEF FlightStep
<1>5. ASSUME NEW v \in Vid, Evict(v)
      PROVE  Typing'
  BY <1>5 DEF Evict, SF!Drop, Typing
<1>6. CASE CropCacheFull
  BY <1>6 DEF CropCacheFull, Typing
<1>7. CASE Restart
  BY <1>7 DEF Restart, SF!Reset, SF!NoFlight, SF!NotAsking, Typing, Flights, Asks
<1>8. CASE UNCHANGED pvars
  BY <1>8 DEF pvars, Typing
<1> QED
  BY <1>1, <1>2, <1>3, <1>4, <1>5, <1>6, <1>7, <1>8 DEF Next

\* A task that does not answer: whoever it is, its seat is in order.
LEMMA PlainSeat ==
    ASSUME NEW x, NEW v \in Vid, NEW i \in {0, 1}
    PROVE  SeatOK(x, Seat("asking", v, i, NoFile))
  BY DEF SeatOK, Seat

LEMMA OpenedSeat ==
    ASSUME NEW x \in Viewer, NEW v \in Vid, NEW c \in Content
    PROVE  SeatOK(x, Seat("opened", v, 0, c))
  BY DEF SeatOK, Seat

LEMMA DetectingSeat ==
    ASSUME NEW x \in Cropper, NEW v \in Vid, NEW c \in Content \cup {NoFile}
    PROVE  SeatOK(x, Seat("detecting", v, 0, c))
  BY DEF SeatOK, Seat

LEMMA OutSeat ==
    ASSUME NEW x
    PROVE  SeatOK(x, Out)
  BY DEF SeatOK, Out, Seat

\* A visitor of /crop may be answered anything.
LEMMA ReportSeat ==
    ASSUME Typing, NEW x \in Cropper, NEW v \in Vid, NEW take,
           ReplyReport(x, v, take)
    PROVE  \E s : SeatedAs(x, s) /\ SeatOK(x, s)
<1> DEFINE s == [pc |-> "answered", vid |-> v, attempt |-> 0, opened |-> NoFile,
                 req |-> NoRequest,
                 resp |-> ApplyConditional(NoRequest, Json(200, {take}, Immutable))]
<1>1. SeatedAs(x, s)
  BY Kinds, Replied DEF ReplyReport, Visitor
<1>2. /\ s.pc = "answered" /\ s.vid = v /\ s.attempt = 0 /\ s.opened = NoFile
  OBVIOUS
<1> HIDE DEF s
<1>3. SeatOK(x, s)
  BY <1>2, Kinds DEF SeatOK
<1> QED
  BY <1>1, <1>3

\* An answer of serve_file.
LEMMA ServedSeat ==
    ASSUME Typing, Seats, NEW x \in Visitor, NEW req \in Request, ServeFile(x, req)
    PROVE  \E s : SeatedAs(x, s) /\ SeatOK(x, s)
<1> DEFINE v == seat[x].vid
           c == seat[x].opened
           resp == ApplyConditional(req, FileResponse(v, c, SizeOf(c), req.range))
           s == [pc |-> "answered", vid |-> v, attempt |-> 0, opened |-> c,
                 req |-> req, resp |-> resp]
<1>1. v \in Vid /\ c \in Content
  BY DEF ServeFile, Seats, SeatOK
<1>2. Reply(x, v, c, req, FileResponse(v, c, SizeOf(c), req.range))
  BY DEF ServeFile, Stat
<1>3. Streams(c, req, resp)
  BY <1>1, FileStreams
<1> HIDE DEF v, c
<1>4. SeatedAs(x, s)
  BY <1>2, Replied
<1> HIDE DEF resp
<1>5. /\ s.pc = "answered" /\ s.vid = v /\ s.attempt = 0 /\ s.opened = c
      /\ s.req = req /\ s.resp = resp
  OBVIOUS
<1> HIDE DEF s
<1>6. SeatOK(x, s)
  <2>1. AnswerOK(s)
    BY <1>1, <1>3, <1>5 DEF AnswerOK
  <2> QED
    BY <1>1, <1>5, <2>1 DEF SeatOK
<1> QED
  BY <1>4, <1>6

LEMMA SeatsNext == IInv /\ [Next]_pvars => Seats'
<1> SUFFICES ASSUME IInv, [Next]_pvars
             PROVE  Seats'
  OBVIOUS
<1>a. Typing /\ Seats
  BY DEF IInv
<1>b. ASSUME NEW x \in Visitor, NEW s, seat' = [seat EXCEPT ![x] = s],
             SeatOK(x, s)
      PROVE  Seats'
  BY <1>a, <1>b, Seated, OthersSeated
<1>c. ASSUME NEW x \in Visitor, NEW v \in Vid, NEW status \in {500, 502, 503},
             NEW code, ReplyError(x, v, status, code)
      PROVE  Seats'
  <2>1. SeatedAs(x, seat'[x]) /\ SeatOK(x, seat'[x])
    BY <1>a, <1>c, ErrorReplied
  <2> QED
    BY <1>a, <2>1, OthersSeated
<1>d. ASSUME NEW x \in Visitor,
             \E s : SeatedAs(x, s) /\ SeatOK(x, s)
      PROVE  Seats'
  BY <1>a, <1>d, OthersSeated
<1>e. ASSUME NEW x \in Visitor, NEW v \in Vid, NEW i \in {0, 1}, Fetch(x, v, i)
      PROVE  Seats'
  BY <1>b, <1>e, PlainSeat DEF Fetch
<1>1. ASSUME NEW x \in Visitor, NEW v \in Vid, Arrive(x, v)
      PROVE  Seats'
  <2>1. CASE Unavailable(x, v)
    <3>1. ReplyError(x, v, 503, "cache_unavailable")
      BY <2>1 DEF Unavailable
    <3> QED
      BY <1>c, <3>1
  <2>2. CASE \E i \in {0, 1} : Fetch(x, v, i)
    BY <1>e, <2>2
  <2>3. CASE CropHit(x, v)
    BY <1>a, <1>d, <2>3, ReportSeat DEF CropHit
  <2> QED
    BY <1>1, <2>1, <2>2, <2>3 DEF Arrive, CropMiss
<1>2. ASSUME NEW x \in Visitor, SeatStep(x)
      PROVE  Seats'
  <2>0. seat[x].pc # "out" => seat[x].vid \in Vid
    BY <1>a DEF Seats, SeatOK
  <2>1. CASE Proceed(x)
    BY <1>a, <2>1, NobodySeated DEF Proceed
  <2>2. CASE PlayFailed(x)
    <3>1. ReplyError(x, seat[x].vid, 502, "failed") /\ seat[x].vid \in Vid
      BY <2>0, <2>2 DEF PlayFailed, Told
    <3> QED
      BY <1>c, <3>1
  <2>3. CASE OpenFile(x)
    <3>1. /\ x \in Viewer /\ seat[x].vid \in Vid
          /\ file[seat[x].vid] # NoFile
          /\ seat' = [seat EXCEPT ![x] = Seat("opened", seat[x].vid, 0,
                                              file[seat[x].vid])]
      BY <2>0, <2>3 DEF OpenFile, Told
    <3>2. file[seat[x].vid] \in Content
      BY <1>a, <3>1 DEF Typing
    <3> QED
      BY <1>b, <3>1, <3>2, OpenedSeat
  <2>4. CASE OpenFails(x)
    <3>1. seat[x].vid \in Vid
      BY <2>0, <2>4 DEF OpenFails, Told
    <3>2. CASE Fetch(x, seat[x].vid, 1)
      BY <1>e, <3>1, <3>2
    <3>3. CASE ReplyError(x, seat[x].vid, 500, "serve failed")
               /\ UNCHANGED <<flight, ask, file, made, cropCache, evicted>>
      BY <1>c, <3>1, <3>3
    <3> QED
      BY <2>4, <3>2, <3>3 DEF OpenFails
  <2>5. ASSUME NEW req \in Request, ServeFile(x, req)
        PROVE  Seats'
    BY <1>a, <1>d, <2>5, ServedSeat
  <2>6. CASE ServeFails(x)
    <3>1. ReplyError(x, seat[x].vid, 500, "stat failed") /\ seat[x].vid \in Vid
      BY <2>0, <2>6 DEF ServeFails
    <3> QED
      BY <1>c, <3>1
  <2>7. CASE CropFailed(x)
    BY <1>a, <1>d, <2>0, <2>7, ReportSeat DEF CropFailed, Told
  <2>8. CASE CropFetched(x)
    <3>1. x \in Cropper /\ seat[x].vid \in Vid
      BY <2>0, <2>8 DEF CropFetched, Told
    <3>2. CASE ReplyReport(x, seat[x].vid, cropCache[seat[x].vid])
      BY <1>a, <1>d, <3>1, <3>2, ReportSeat
    <3>3. CASE seat' = [seat EXCEPT ![x] = Seat("detecting", seat[x].vid, 0,
                                                file[seat[x].vid])]
      <4>1. file[seat[x].vid] \in Content \cup {NoFile}
        BY <1>a, <3>1 DEF Typing
      <4> QED
        BY <1>b, <3>1, <3>3, <4>1, DetectingSeat
    <3> QED
      BY <2>8, <3>2, <3>3 DEF CropFetched
  <2>9. ASSUME NEW seen \in BOOLEAN, CropDetected(x, seen)
        PROVE  Seats'
    <3>1. seat[x].vid \in Vid /\ x \in Cropper
      BY <1>a, <2>9 DEF CropDetected, Seats, SeatOK
    <3>2. \E take : ReplyReport(x, seat[x].vid, take)
      BY <2>9 DEF CropDetected
    <3> QED
      BY <1>a, <1>d, <3>1, <3>2, ReportSeat
  <2> QED
    BY <1>2, <2>1, <2>2, <2>3, <2>4, <2>5, <2>6, <2>7, <2>8, <2>9 DEF SeatStep
<1>3. ASSUME NEW x \in Visitor, HangUp(x)
      PROVE  Seats'
  BY <1>b, <1>3, OutSeat DEF HangUp
<1>4. ASSUME NEW v \in Vid, FlightStep(v) \/ Evict(v)
      PROVE  Seats'
  <2>1. seat' = seat
    BY <1>4 DEF FlightStep, Make, Publish, Land, Sweep, Evict
  <2> QED
    BY <1>a, <2>1, NobodySeated
<1>5. CASE CropCacheFull \/ UNCHANGED pvars
  <2>1. seat' = seat
    BY <1>5 DEF CropCacheFull, pvars
  <2> QED
    BY <1>a, <2>1, NobodySeated
<1>6. CASE Restart
  <2>1. ASSUME NEW y \in Visitor PROVE SeatOK(y, seat'[y])
    BY <1>6, OutSeat DEF Restart
  <2> QED
    BY <2>1 DEF Seats
<1> QED
  BY <1>1, <1>2, <1>3, <1>4, <1>5, <1>6 DEF Next

\* A visitor of /crop or /play that is answered, or leaves, or sits down to a file.
LEMMA Leaves ==
    ASSUME Typing, NEW x \in Visitor, NEW v, NEW opened, NEW req, NEW resp,
           \/ Reply(x, v, opened, req, resp)
           \/ seat' = [seat EXCEPT ![x] = Out]
           \/ \E pc \in {"opened", "detecting"} :
                 seat' = [seat EXCEPT ![x] = Seat(pc, v, 0, opened)]
    PROVE  \E s : SeatedAs(x, s) /\ s.pc # "asking"
<1>1. CASE Reply(x, v, opened, req, resp)
  <2> DEFINE s == [pc |-> "answered", vid |-> v, attempt |-> 0, opened |-> opened,
                   req |-> req, resp |-> ApplyConditional(req, resp)]
  <2>1. SeatedAs(x, s)
    BY <1>1, Replied
  <2>2. s.pc # "asking"
    OBVIOUS
  <2> QED
    BY <2>1, <2>2
<1>2. CASE seat' = [seat EXCEPT ![x] = Out]
  <2>1. Out.pc # "asking"
    BY DEF Out, Seat
  <2> QED
    BY <1>2, <2>1, Seated
<1>3. ASSUME NEW pc \in {"opened", "detecting"},
             seat' = [seat EXCEPT ![x] = Seat(pc, v, 0, opened)]
      PROVE  \E s : SeatedAs(x, s) /\ s.pc # "asking"
  <2>1. Seat(pc, v, 0, opened).pc # "asking"
    BY DEF Seat
  <2> QED
    BY <1>3, <2>1, Seated
<1> QED
  BY <1>1, <1>2, <1>3

LEMMA PromiseNext == IInv /\ [Next]_pvars => Promise'
<1> SUFFICES ASSUME IInv, [Next]_pvars
             PROVE  Promise'
  OBVIOUS
<1>a. Typing /\ Seats /\ Promise /\ Had \subseteq Had'
  BY HadGrows DEF IInv
<1>t. \A o : SF!Told(o).st = "answered"
  BY DEF SF!Told
<1>b. ASSUME NEW x \in Visitor, NEW s, SeatedAs(x, s), s.pc # "asking",
             ask[x].st \notin {"asking", "aboard"}, UNCHANGED <<flight, ask>>
      PROVE  Promise'
  BY <1>a, <1>b DEF Promise, SeatedAs
<1>c. ASSUME NEW x \in Visitor, NEW v, NEW opened, NEW req, NEW resp,
             \/ Reply(x, v, opened, req, resp)
             \/ \E pc \in {"opened", "detecting"} :
                   seat' = [seat EXCEPT ![x] = Seat(pc, v, 0, opened)],
             seat[x].pc # "asking" \/ \E o : ask[x] = SF!Told(o),
             UNCHANGED <<flight, ask>>
      PROVE  Promise'
  <2>1. ask[x].st \notin {"asking", "aboard"}
    BY <1>a, <1>c, <1>t DEF Promise
  <2>2. \E s : SeatedAs(x, s) /\ s.pc # "asking"
    BY <1>a, <1>c, Leaves
  <2> QED
    BY <1>b, <1>c, <2>1, <2>2
<1>d. ASSUME NEW x \in Visitor, NEW v \in Vid, NEW i, Fetch(x, v, i)
      PROVE  Promise'
  <2> DEFINE s == Seat("asking", v, i, NoFile)
  <2>1. SeatedAs(x, s)
    BY <1>a, <1>d, Seated DEF Fetch
  <2>2. s.pc = "asking" /\ s.vid = v
    BY DEF Seat
  <2> HIDE DEF s
  <2>3. /\ ask'[x] = [st |-> "asking", key |-> v]
        /\ \A y \in Visitor : y # x => ask'[y] = ask[y]
        /\ flight' = flight
    BY <1>a, <1>d DEF Fetch, SF!Ask, Typing
  <2>4. ask'[x].st = "asking" /\ ask'[x].key = v
    BY <2>3
  <2> QED
    BY <1>a, <1>t, <2>1, <2>2, <2>3, <2>4 DEF Promise, SeatedAs
<1>1. ASSUME NEW x \in Visitor, NEW v \in Vid, Arrive(x, v)
      PROVE  Promise'
  <2>1. CASE Unavailable(x, v)
    BY <1>c, <2>1 DEF Unavailable, Free, ReplyError
  <2>2. CASE \E i \in {0, 1} : Fetch(x, v, i)
    BY <1>d, <2>2
  <2>3. CASE CropHit(x, v)
    BY <1>c, <2>3 DEF CropHit, Free, ReplyReport
  <2> QED
    BY <1>1, <2>1, <2>2, <2>3 DEF Arrive, CropMiss
<1>2. ASSUME NEW x \in Visitor, SeatStep(x)
      PROVE  Promise'
  <2>1. CASE Proceed(x)
    <3>1. seat' = seat /\ file' = file /\ evicted' = evicted
      BY <2>1 DEF Proceed
    <3>2. CASE SF!Hit(x)
      <4>1. ask[x].key \in Had /\ seat[x].vid = ask[x].key
        BY <1>a, <3>2 DEF SF!Hit, Promise, Had
      <4>2. /\ ask'[x] = SF!Told("ok")
            /\ \A y \in Visitor : y # x => ask'[y] = ask[y]
            /\ flight' = flight
        BY <1>a, <3>2 DEF SF!Hit, Typing
      <4> QED
        BY <1>a, <1>t, <3>1, <4>1, <4>2 DEF Promise
    <3>3. CASE SF!Late(x)
      <4> DEFINE v == ask[x].key
                 o == flight[v].outcome
      <4>1. seat[x].vid = v /\ v \in Vid
        BY <1>a, <3>3 DEF SF!Late, Promise, Typing, Asks
      <4>2. /\ ask'[x] = SF!Told(o)
            /\ \A y \in Visitor : y # x => ask'[y] = ask[y]
            /\ flight' = flight
        BY <1>a, <3>3 DEF SF!Late, Typing
      <4>3. flight[v] = [st |-> "landed", outcome |-> o]
        BY <1>a, <3>3, <4>1 DEF SF!Late, Typing, Flights
      <4> HIDE DEF v, o
      <4>4. SF!Told(o) = SF!Told("ok") => o = "ok"
        BY DEF SF!Told
      <4>5. SF!Told(o) = SF!Told("ok") => v \in Had
        BY <1>a, <4>1, <4>3, <4>4 DEF Promise
      <4> QED
        BY <1>a, <1>t, <3>1, <4>1, <4>2, <4>5 DEF Promise
    <3>4. ASSUME NEW v \in Vid, SF!Board(x, v)
          PROVE  Promise'
      <4>1. seat[x].pc = "asking" /\ seat[x].vid = v
        BY <1>a, <3>4 DEF SF!Board, Promise
      <4>2. /\ ask'[x] = [st |-> "aboard", key |-> v]
            /\ \A y \in Visitor : y # x => ask'[y] = ask[y]
        BY <1>a, <3>4 DEF SF!Board, Typing
      <4>3. ask'[x].st = "aboard" /\ ask'[x].key = v
        BY <4>2
      <4>4. \A u \in Vid : flight'[u] = flight[u] \/ flight'[u] = [st |-> "aloft"]
        BY <1>a, <3>4 DEF SF!Board, Typing
      <4>5. \A u \in Vid :
               flight'[u].st = "stowed" \/ flight'[u] = [st |-> "landed", outcome |-> "ok"]
                  => flight'[u] = flight[u]
        BY <4>4
      <4> QED
        BY <1>a, <1>t, <3>1, <4>1, <4>2, <4>3, <4>5 DEF Promise
    <3> QED
      BY <2>1, <3>2, <3>3, <3>4 DEF Proceed
  <2>2. CASE PlayFailed(x) \/ CropFailed(x)
    BY <1>c, <2>2 DEF PlayFailed, CropFailed, Told, ReplyError, ReplyReport
  <2>3. CASE OpenFile(x)
    BY <1>c, <2>3 DEF OpenFile, Told
  <2>4. CASE OpenFails(x)
    <3>1. seat[x].vid \in Vid
      BY <1>a, <2>4 DEF OpenFails, Told, Seats, SeatOK
    <3> QED
      BY <1>c, <1>d, <2>4, <3>1 DEF OpenFails, Told, ReplyError
  <2>5. CASE ServeFails(x)
    BY <1>c, <2>5 DEF ServeFails, ReplyError
  <2>8. ASSUME NEW req \in Request, ServeFile(x, req)
        PROVE  Promise'
    BY <1>c, <2>8 DEF ServeFile
  <2>6. CASE CropFetched(x)
    <3> DEFINE v == seat[x].vid
    <3>1. ask[x] = SF!Told("ok") /\ UNCHANGED <<flight, ask>>
      BY <2>6 DEF CropFetched, Told
    <3>2. CASE ReplyReport(x, v, cropCache[v])
      BY <1>c, <3>1, <3>2 DEF ReplyReport
    <3>3. CASE seat' = [seat EXCEPT ![x] = Seat("detecting", v, 0, file[v])]
      <4> HIDE DEF v
      <4> QED
        BY <1>c, <3>1, <3>3
    <3> QED
      BY <2>6, <3>2, <3>3 DEF CropFetched
  <2>7. ASSUME NEW seen \in BOOLEAN, CropDetected(x, seen)
        PROVE  Promise'
    BY <1>c, <2>7 DEF CropDetected, ReplyReport
  <2> QED
    BY <1>2, <2>1, <2>2, <2>3, <2>4, <2>5, <2>6, <2>7, <2>8 DEF SeatStep
<1>3. ASSUME NEW x \in Visitor, HangUp(x)
      PROVE  Promise'
  <2>1. \E s : SeatedAs(x, s) /\ s.pc # "asking"
    BY <1>a, <1>3, Leaves DEF HangUp
  <2>2. /\ ask'[x] = SF!NotAsking
        /\ \A y \in Visitor : y # x => ask'[y] = ask[y]
        /\ flight' = flight
    BY <1>a, <1>3 DEF HangUp, SF!Abandon, Typing
  <2>3. ask'[x].st = "idle"
    BY <2>2 DEF SF!NotAsking
  <2> QED
    BY <1>a, <2>1, <2>2, <2>3 DEF Promise, SeatedAs
<1>4. ASSUME NEW v \in Vid, FlightStep(v)
      PROVE  Promise'
  <2>1. CASE \E take \in Take, clap, seen \in BOOLEAN : Make(v, take, clap, seen)
    BY <1>a, <2>1 DEF Make, Promise
  <2>2. CASE Publish(v)
    <3>1. v \in Had'
      BY <1>a, <2>2 DEF Publish, Had, stored, Typing
    <3>2. \A u \in Vid : u # v => flight'[u] = flight[u]
      BY <1>a, <2>2 DEF Publish, SF!Stow, Typing
    <3>3. seat' = seat /\ ask' = ask
      BY <2>2 DEF Publish, SF!Stow
    <3> QED
      BY <1>a, <3>1, <3>2, <3>3 DEF Promise
  <2>3. ASSUME NEW o \in {"ok", "failed"}, Land(v, o)
        PROVE  Promise'
    <3>1. /\ \A u \in Vid : u # v => flight'[u] = flight[u]
          /\ flight'[v] = [st |-> "landed", outcome |-> o]
          /\ flight[v].st = IF o = "ok" THEN "stowed" ELSE "aloft"
          /\ seat' = seat
      BY <1>a, <2>3 DEF Land, SF!Land, Typing
    <3>2. \A x \in Visitor :
             \/ ask'[x] = ask[x]
             \/ ask[x] = [st |-> "aboard", key |-> v] /\ ask'[x] = SF!Told(o)
      BY <2>3 DEF Land, SF!Land
    <3>3. o = "ok" => v \in Had
      BY <1>a, <3>1 DEF Promise
    <3>4. flight'[v].st # "stowed"
             /\ (flight'[v] = [st |-> "landed", outcome |-> "ok"] => o = "ok")
      BY <3>1
    <3>5. \A x \in Visitor : ask[x] = [st |-> "aboard", key |-> v]
                                => seat[x].vid = v /\ ask[x].st = "aboard"
      BY <1>a DEF Promise
    <3>6. SF!Told(o) = SF!Told("ok") => o = "ok"
      BY DEF SF!Told
    <3> QED
      BY <1>a, <1>t, <3>1, <3>2, <3>3, <3>4, <3>5, <3>6 DEF Promise
  <2>4. CASE Sweep(v)
    <3>1. /\ \A u \in Vid : u # v => flight'[u] = flight[u]
          /\ flight'[v].st = "none"
          /\ seat' = seat /\ ask' = ask
      BY <1>a, <2>4 DEF Sweep, SF!Sweep, SF!NoFlight, Typing
    <3> QED
      BY <1>a, <3>1 DEF Promise
  <2> QED
    BY <1>4, <2>1, <2>2, <2>3, <2>4 DEF FlightStep
<1>5. ASSUME NEW v \in Vid, Evict(v)
      PROVE  Promise'
  BY <1>a, <1>5 DEF Evict, SF!Drop, Promise
<1>6. CASE CropCacheFull \/ UNCHANGED pvars
  BY <1>a, <1>6 DEF CropCacheFull, pvars, Promise
<1>7. CASE Restart
  <2>1. \A v \in Vid : flight'[v].st = "none"
    BY <1>7 DEF Restart, SF!Reset, SF!NoFlight
  <2>2. \A x \in Visitor : ask'[x].st = "idle"
    BY <1>7 DEF Restart, SF!Reset, SF!NotAsking
  <2>3. \A v \in Vid : ~ (flight'[v].st = "stowed"
                           \/ flight'[v] = [st |-> "landed", outcome |-> "ok"])
    BY <2>1
  <2> QED
    BY <1>t, <2>2, <2>3 DEF Promise
<1> QED
  BY <1>1, <1>2, <1>3, <1>4, <1>5, <1>6, <1>7 DEF Next

LEMMA Inductive == Spec => []IInv
<1>1. IInv /\ [Next]_pvars => IInv'
  BY TypingNext, SeatsNext, PromiseNext DEF IInv
<1> QED
  BY InitHolds, <1>1, PTL DEF Spec

-----------------------------------------------------------------------------
(* What the runs check, of every instance.                                  *)

LEMMA AnsweredOK ==
    ASSUME IInv, NEW x \in Viewer, Answered(x)
    PROVE  AnswerOK(seat[x])
  BY Kinds DEF IInv, Seats, SeatOK, Answered, Visitor

\* The variables hold values of their kinds (Playback).
THEOREM TypeCorrect == Spec => []TypeOK
<1>1. IInv => TypeOK
  <2> SUFFICES ASSUME IInv PROVE TypeOK
    OBVIOUS
  <2>1. NoFile \notin Content
    BY PlaybackAssumption DEF NoFile, Content
  <2> QED
    BY <2>1 DEF IInv, Typing, Seats, SeatOK, TypeOK
<1> QED
  BY <1>1, Inductive, PTL

\* What /play announces lies within the file it streams (serve_file).
THEOREM LengthAlwaysKept == Spec => []LengthKept
<1>1. IInv => LengthKept
  <2> SUFFICES ASSUME IInv, NEW x \in Viewer, Answered(x),
                      seat[x].resp.status \in {200, 206}
               PROVE  \A part \in seat[x].resp.body :
                         /\ part.content = seat[x].opened
                         /\ part.last < SizeOf(part.content)
                         /\ seat[x].resp.status = 200 =>
                               part.first = 0 /\ part.last = SizeOf(part.content) - 1
    BY DEF LengthKept
  <2>1. AnswerOK(seat[x])
    BY AnsweredOK
  <2>2. seat[x].resp.status \notin {500, 502, 503}
    OBVIOUS
  <2>3. Streams(seat[x].opened, seat[x].req, seat[x].resp)
    BY <2>1, <2>2 DEF AnswerOK
  <2> QED
    BY <2>3 DEF Streams
<1> QED
  BY <1>1, Inductive, PTL

\* A range is answered with its bytes, and only a range with a part (parse_range,
\* apply_conditional).
THEOREM RangeAlwaysAnswered == Spec => []RangeAnswered
<1>1. IInv => RangeAnswered
  <2> SUFFICES ASSUME IInv, NEW x \in Viewer, Answered(x),
                      seat[x].resp.status \notin {500, 502, 503}
               PROVE  LET req == seat[x].req
                          resp == seat[x].resp
                          size == SizeOf(seat[x].opened)
                      IN  /\ resp.status \in {200, 206, 416}
                          /\ resp.status = 206 <=>
                                /\ req.range.form = "bytes"
                                /\ req.range.first < size
                                /\ \/ req.range.last = Open
                                   \/ req.range.first <= req.range.last
                          /\ req.method = "GET" /\ resp.status = 206 =>
                                \E part \in resp.body :
                                   /\ part.first = req.range.first
                                   /\ part.last = size - 1 \/ part.last = req.range.last
    BY DEF RangeAnswered
  <2>1. AnswerOK(seat[x])
    BY AnsweredOK
  <2>2. Streams(seat[x].opened, seat[x].req, seat[x].resp)
    BY <2>1 DEF AnswerOK
  <2> QED
    BY <2>2 DEF Streams
<1> QED
  BY <1>1, Inductive, PTL

\* Whoever is told that the file is cached finds it, unless it has been evicted
\* since it was last published (fetch_trailer, as handle_play uses it).
THEOREM PromiseAlwaysKept == Spec => []PromiseKept
<1>1. IInv => PromiseKept
  <2> SUFFICES ASSUME IInv, NEW x \in Visitor, Told(x, "ok")
               PROVE  file[seat[x].vid] # NoFile \/ seat[x].vid \in evicted
    BY DEF PromiseKept
  <2>1. seat[x].vid \in Had
    BY DEF Told, IInv, Promise
  <2> QED
    BY <2>1 DEF Had, stored
<1> QED
  BY <1>1, Inductive, PTL
=============================================================================
