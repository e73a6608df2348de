------------------------------- MODULE Resolve -------------------------------
(***************************************************************************)
(* Discovery in den-reel: the /meta routes of src/main.rs, handle_meta and *)
(* resolve_youtube_ids of src/addon.rs, the lookups of src/upstream.rs.    *)
(* Many requests resolve at once; they share one cache, whose lock is      *)
(* never held across an await, and one failure counter.                    *)
(*                                                                         *)
(* What TMDB, KinoCheck and the YouTube search know is a constant; how     *)
(* their single calls may end is another.  Instead of the clock and the    *)
(* times of expiry, the model counts how old an entry is and how long it   *)
(* has still to live.                                                      *)
(***************************************************************************)
EXTENDS Integers, FiniteSets, Functions, Sequences, SealedConfig, Health

CONSTANTS
    Request,           \* /meta requests in progress
    Key,               \* cache keys: "imdb:lang"
    Link,              \* config segments of the installs' links
    NoLink,            \* a request without one; not an element of Link
    Env,               \* environments the operator starts the service with:
                       \* [configKey, configKeysPrev, tmdbKey]
    ValidKey,          \* the TMDB keys that TMDB accepts
    Videos,            \* per key: TMDB's /videos, [site, key, type, official]
    Kino,              \* per key: KinoCheck's id, as a sequence of at most one
    Known,             \* keys of titles that TMDB's /find knows
    Found,             \* per key: what the YouTube search lists for the title
    End,               \* how calls may end: see GetJsonEnd
    MaxProbe,          \* MAX_PROBE
    YtTtl, YtNegTtl,   \* YT_TTL_MS, YT_NEG_TTL_MS
    YtCacheMax,        \* YT_CACHE_MAX
    ProbeConcurrency,  \* permits of probe_sem
    MaxLookup          \* bound: the time from a cache miss to the answer, the
                       \* wait for a probe permit included

ASSUME ResolveAssumption ==
    /\ IsFiniteSet(Request) /\ IsFiniteSet(Key)
    /\ NoLink \notin Link /\ "" \notin ValidKey
    /\ Link \subseteq Segment({link.tmdbKey : link \in Link} \ {NoConfig})
    /\ Key # {} /\ Known \subseteq Key
    /\ \A k \in Key :
          /\ Videos[k] \in Seq(Range(Videos[k]))
          /\ Videos[k] # <<>> => k \in Known
          /\ Kino[k] \in Seq(Range(Kino[k])) /\ Len(Kino[k]) <= 1
          /\ Found[k] \in Seq(Range(Found[k]))
    /\ {MaxProbe, YtTtl, YtNegTtl, ProbeConcurrency} \subseteq Nat \ {0}
    /\ {YtCacheMax, MaxLookup} \subseteq Nat

VARIABLES
    ytCache,  \* AppState.yt_cache: ids, the time left to live and, a history,
              \* the time since the lookup began
    fails,    \* HttpUpstream.fails; counts no further than health_body looks
    req,      \* the requests inside resolve_youtube_ids, and their answers
    env       \* the environment of this run of the service

rvars == <<ytCache, fails, req, env>>

\* Ages are counted up to the first one nothing may reach.
TooOld == YtTtl + YtNegTtl + MaxLookup + 1

NoEntry == [ids |-> <<>>, left |-> 0, age |-> -1]
Cached(k) == ytCache[k] # NoEntry

\* tmdb and kino are the two branches of the join, cand and extra what they
\* found; ids is the answer and age the time since its lookup began.
At(pc, k, link, tmdb, kino, ids, age) ==
    [pc |-> pc, key |-> k, link |-> link, tmdb |-> tmdb, kino |-> kino,
     cand |-> <<>>, extra |-> <<>>, ids |-> ids, age |-> age]
Answer(k, link, ids, age) == At("answered", k, link, "done", "done", ids, age)

AnyKey == CHOOSE k \in Key : TRUE
Idle == At("idle", AnyKey, NoLink, "done", "done", <<>>, 0)

Pcs == {"idle", "joined", "titling", "queued", "searching", "answered",
        "refused"}
Over == {"idle", "answered", "refused"}
Looking == {r \in Request : req[r].pc \in {"joined", "titling", "queued",
                                           "searching"}}
Searching == {r \in Request : req[r].pc = "searching"}

Init ==
    /\ ytCache = [k \in Key |-> NoEntry]
    /\ fails = 0
    /\ req = [r \in Request |-> Idle]
    /\ env \in Env

Ring == FromEnv(env.configKey, env.configKeysPrev)

\* The TMDB key a request resolves with: its link's; without a link the
\* operator's, if there is one.
KeyOf(link) == IF link = NoLink THEN env.tmdbKey ELSE Decode(Ring, link)

\* Mutant of FirstOccurrences: the alternates as they come.
AllOccurrences(s) == SubSeq(s, 1, IF Len(s) < MaxProbe THEN Len(s) ELSE MaxProbe)

\* The elements of a finite set one after another, by their places.
Listing(S, place) ==
    [n \in 1 .. Cardinality(S) |->
        CHOOSE i \in S : Cardinality({j \in S : place[j] <= place[i]}) = n]

\* What a seen set makes of a list: every id once, where it first stands.
Once(s) ==
    LET first == {i \in DOMAIN s : \A j \in DOMAIN s : s[j] = s[i] => i <= j}
        order == Listing(first, [i \in first |-> i])
    IN  [n \in DOMAIN order |-> s[order[n]]]

\* No more than MAX_PROBE of them.
FirstOccurrences(s) ==
    LET once == Once(s)
    IN  SubSeq(once, 1, IF Len(once) < MaxProbe THEN Len(once) ELSE MaxProbe)

\* The official trailer first, then trailers, teasers, anything else.
RankOf(v) ==
    CASE v.type = "Trailer" -> IF v.official THEN 0 ELSE 1
      [] v.type = "Teaser" -> 2
      [] OTHER -> 3

Usable(v) == v.site = "YouTube" /\ v.key # ""

\* The ids of what /videos lists, by rank and in TMDB's order within a rank: the
\* sort is stable.
PickTrailerCandidates(videos) ==
    LET usable == {i \in DOMAIN videos : Usable(videos[i])}
        place == [i \in usable |-> RankOf(videos[i]) * Len(videos) + i]
        yt == Listing(usable, place)
    IN  Once([n \in DOMAIN yt |-> videos[yt[n]].key])

Tmdb == [k \in Key |-> PickTrailerCandidates(Videos[k])]

Id == UNION {Range(Tmdb[k]) \cup Range(Kino[k]) \cup Range(Found[k]) : k \in Key}

\* How a get_json ends: with the data; with a hard fault (transport, 401, 403,
\* 429, 5xx), which counts; with another error status, which does not; or with
\* a success status whose body is of no use, which counts as a success.
GetJsonEnd == {"data", "fault", "miss", "garbage"}
ASSUME EndAssumption == End \subseteq GetJsonEnd

\* TMDB refuses a key it does not know with a 401; a call may fail otherwise first.
TmdbEnd(tmdbKey) ==
    IF tmdbKey \in ValidKey THEN End ELSE {"fault"} \cup (End \ {"data"})

FailsAfter(end) ==
    CASE end = "fault" -> IF fails < HealthFailThreshold THEN fails + 1 ELSE fails
      [] end = "miss" -> fails
      [] OTHER -> 0

-----------------------------------------------------------------------------
\* Mutant of Fresh: an entry is used whatever its age.
FreshForever(e) == e # NoEntry

Fresh(e) == e.left > 0

\* Mutant of Swept: sweeps one entry late.
SweptLate ==
    IF Cardinality({k \in Key : Cached(k)}) > YtCacheMax
    THEN [k \in Key |-> IF Fresh(ytCache[k]) THEN ytCache[k] ELSE NoEntry]
    ELSE ytCache

\* A large cache loses its expired entries before an insertion.
Swept ==
    IF Cardinality({k \in Key : Cached(k)}) >= YtCacheMax
    THEN [k \in Key |-> IF Fresh(ytCache[k]) THEN ytCache[k] ELSE NoEntry]
    ELSE ytCache

\* The lookup q of request r ends with ids, which are cached.
Store(r, q, ids) ==
    /\ ytCache' = [Swept EXCEPT ![q.key] =
                     [ids |-> ids, age |-> q.age,
                      left |-> IF ids = <<>> THEN YtNegTtl ELSE YtTtl]]
    /\ req' = [req EXCEPT ![r] = Answer(q.key, q.link, ids, q.age)]

\* A link that does not decode is refused before anything is looked up.
Refuse(r, link) ==
    /\ req[r].pc \in Over
    /\ KeyOf(link) = NoConfig
    /\ req' = [req EXCEPT ![r] = At("refused", AnyKey, link, "done", "done", <<>>, 0)]
    /\ UNCHANGED <<ytCache, fails, env>>

\* A request finds its key in the cache.
Hit(r, k, link) ==
    /\ req[r].pc \in Over
    /\ KeyOf(link) # NoConfig
    /\ Fresh(ytCache[k])
    /\ req' = [req EXCEPT ![r] = Answer(k, link, ytCache[k].ids, ytCache[k].age)]
    /\ UNCHANGED <<ytCache, fails, env>>

\* It does not: TMDB (if there is a key for it) and KinoCheck are asked at once.
Miss(r, k, link) ==
    /\ req[r].pc \in Over
    /\ KeyOf(link) # NoConfig
    /\ ~ Fresh(ytCache[k])
    /\ req' = [req EXCEPT ![r] =
                 At("joined", k, link, IF KeyOf(link) = "" THEN "done" ELSE "find",
                    "asking", <<>>, 0)]
    /\ UNCHANGED <<ytCache, fails, env>>

\* Mutant of JoinStep: goes on as soon as one of the two is done.
JoinEither(r, q) ==
    LET ids == FirstOccurrences(q.cand \o q.extra) IN
    IF q.tmdb # "done" /\ q.kino # "done"
    THEN req' = [req EXCEPT ![r] = q] /\ UNCHANGED ytCache
    ELSE IF ids # <<>> \/ KeyOf(q.link) = ""
         THEN Store(r, q, ids)
         ELSE req' = [req EXCEPT ![r] = [q EXCEPT !.pc = "titling"]]
              /\ UNCHANGED ytCache

\* Request r goes on as q; when that completes the join, the candidates are
\* stored, or, if there are none, the title is looked up.
JoinStep(r, q) ==
    LET ids == FirstOccurrences(q.cand \o q.extra) IN
    IF q.tmdb # "done" \/ q.kino # "done"
    THEN req' = [req EXCEPT ![r] = q] /\ UNCHANGED ytCache
    ELSE IF ids # <<>> \/ KeyOf(q.link) = ""
         THEN Store(r, q, ids)
         ELSE req' = [req EXCEPT ![r] = [q EXCEPT !.pc = "titling"]]
              /\ UNCHANGED ytCache

\* /find answers: with a hit /videos is asked, else there are no candidates.
TmdbFind(r, end) ==
    LET q == req[r] IN
    /\ q.pc = "joined" /\ q.tmdb = "find"
    /\ end \in TmdbEnd(KeyOf(q.link))
    /\ fails' = FailsAfter(end)
    /\ UNCHANGED env
    /\ JoinStep(r, [q EXCEPT !.tmdb = IF end = "data" /\ q.key \in Known
                                      THEN "videos" ELSE "done"])

TmdbVideos(r, end) ==
    LET q == req[r] IN
    /\ q.pc = "joined" /\ q.tmdb = "videos"
    /\ end \in TmdbEnd(KeyOf(q.link))
    /\ fails' = FailsAfter(end)
    /\ UNCHANGED env
    /\ JoinStep(r, [q EXCEPT !.tmdb = "done",
                             !.cand = IF end = "data" THEN Tmdb[q.key] ELSE <<>>])

KinoCheck(r, end) ==
    LET q == req[r] IN
    /\ q.pc = "joined" /\ q.kino = "asking"
    /\ end \in End
    /\ fails' = FailsAfter(end)
    /\ UNCHANGED env
    /\ JoinStep(r, [q EXCEPT !.kino = "done",
                             !.extra = IF end = "data" THEN Kino[q.key] ELSE <<>>])

\* tmdb_title: with a title the search queues for a probe permit, without one
\* the empty list is stored.
TmdbTitle(r, end) ==
    LET q == req[r] IN
    /\ q.pc = "titling"
    /\ end \in TmdbEnd(KeyOf(q.link))
    /\ fails' = FailsAfter(end)
    /\ UNCHANGED env
    /\ IF end = "data" /\ q.key \in Known
       THEN req' = [req EXCEPT ![r].pc = "queued"] /\ UNCHANGED ytCache
       ELSE Store(r, q, <<>>)

AcquireProbe(r) ==
    /\ req[r].pc = "queued"
    /\ Cardinality(Searching) < ProbeConcurrency
    /\ req' = [req EXCEPT ![r].pc = "searching"]
    /\ UNCHANGED <<ytCache, fails, env>>

\* The search ends with its results, or with none: exit code, spawn error, time
\* out.
Search(r) ==
    /\ req[r].pc = "searching"
    /\ \E found \in {Found[req[r].key], <<>>} :
          Store(r, req[r], FirstOccurrences(found))
    /\ UNCHANGED <<fails, env>>

\* The peer hangs up: the lookup is dropped, with its subprocess and permit.
Disconnect(r) ==
    /\ r \in Looking
    /\ req' = [req EXCEPT ![r] = Idle]
    /\ UNCHANGED <<ytCache, fails, env>>

Older(e) == [ids |-> e.ids,
             left |-> IF e.left > 0 THEN e.left - 1 ELSE 0,
             age |-> IF e.age < TooOld THEN e.age + 1 ELSE TooOld]

\* Time passes.  Every call of a lookup has a timeout, its wait for a permit of
\* probe_sem has none but ends with the searches ahead of it: MaxLookup bounds both.
Tick ==
    /\ \A r \in Looking : req[r].age < MaxLookup
    /\ ytCache' = [k \in Key |-> IF Cached(k) THEN Older(ytCache[k]) ELSE NoEntry]
    /\ req' = [r \in Request |->
                  IF r \in Looking THEN [req[r] EXCEPT !.age = @ + 1] ELSE req[r]]
    /\ UNCHANGED <<fails, env>>

\* The operator restarts the service, possibly with other keys.
Restart(e) ==
    /\ env' = e
    /\ ytCache' = [k \in Key |-> NoEntry]
    /\ fails' = 0
    /\ req' = [r \in Request |-> Idle]

LookupStep(r) ==
    \/ \E end \in GetJsonEnd :
          TmdbFind(r, end) \/ TmdbVideos(r, end) \/ KinoCheck(r, end)
             \/ TmdbTitle(r, end)
    \/ AcquireProbe(r)
    \/ Search(r)

Next ==
    \/ \E r \in Request, link \in Link \cup {NoLink} :
          Refuse(r, link) \/ \E k \in Key : Hit(r, k, link) \/ Miss(r, k, link)
    \/ \E r \in Request : LookupStep(r) \/ Disconnect(r)
    \/ Tick
    \/ \E e \in Env : Restart(e)

Spec == Init /\ [][Next]_rvars

-----------------------------------------------------------------------------
Entry == {NoEntry} \cup
         [ids : Seq(Id), left : 0 .. YtTtl + YtNegTtl, age : 0 .. TooOld]

\* Every variable holds a value of its kind, and every lookup that has ended its
\* two branches has moved on.
TypeOK ==
    /\ ytCache \in [Key -> Entry]
    /\ fails \in 0 .. HealthFailThreshold
    /\ env \in Env
    /\ \A r \in Request :
          /\ req[r].pc \in Pcs
          /\ req[r].key \in Key
          /\ req[r].link \in Link \cup {NoLink}
          /\ req[r].ids \in Seq(Id)
          /\ req[r].age \in 0 .. TooOld
          /\ req[r].pc = "joined" <=> req[r].tmdb # "done" \/ req[r].kino # "done"

\* No answer, from the cache or not, is older than its time to live and one
\* lookup: overlapping lookups of one key, of which an old one may be the last
\* to store, do not keep a result alive, and "no trailer" fades first.
AnswerAge ==
    \A r \in Request : req[r].pc = "answered" =>
        req[r].age <= MaxLookup + IF req[r].ids = <<>> THEN YtNegTtl ELSE YtTtl

\* The position of an id in what TMDB lists: by its best entry.  What TMDB does
\* not list comes last.
Standing(k, id) ==
    LET vs == Videos[k]
        pos == {[rank |-> RankOf(vs[i]), at |-> i] :
                   i \in {n \in DOMAIN vs : Usable(vs[n]) /\ vs[n].key = id}}
    IN  IF pos = {} THEN [rank |-> 4, at |-> 0]
        ELSE CHOOSE p \in pos : \A o \in pos :
                p.rank < o.rank \/ (p.rank = o.rank /\ p.at <= o.at)

\* An answer never offers one trailer twice, nor more than MAX_PROBE.  Unless it
\* is what the search found, the best comes first: official trailers, then the
\* other kinds, in TMDB's order within a kind, and then what only KinoCheck
\* knows, whichever of the two answered first or failed.
RankedAnswer ==
    \A r \in Request : req[r].pc = "answered" =>
        LET k == req[r].key
            ids == req[r].ids
        IN  /\ IsInjective(ids)
            /\ Len(ids) <= MaxProbe
            /\ \/ ids = FirstOccurrences(Found[k])
               \/ \A i, j \in 1 .. Len(ids) : i < j =>
                     LET p == Standing(k, ids[i])
                         o == Standing(k, ids[j])
                     IN  p.rank < o.rank \/ (p.rank = o.rank /\ p.at <= o.at)

\* A link sealed to a key the operator lists, as current or as prior and beside
\* whatever malformed entries, keeps working through every rotation; a link for
\* any other key is refused, and in no case does the operator's own TMDB key
\* stand in for that of a link ("fail CLOSED", decode; "rotated without breaking
\* installs", Keyring).
LinksHonoured ==
    \A r \in Request :
        LET link == req[r].link
            listed == env.configKey \in SecretKey
                         /\ link.to \in {env.configKey} \cup Range(env.configKeysPrev)
        IN  req[r].pc # "idle" /\ link # NoLink /\ link.form = "sealed" =>
               /\ req[r].pc = "refused" <=> ~ listed \/ link.tmdbKey = ""
               /\ req[r].pc # "refused" => KeyOf(link) = link.tmdbKey

\* The cache grows past YT_CACHE_MAX only by entries that have not expired.
SweptBeforeGrowing ==
    [][\A k \in Key :
          /\ ~ Cached(k) /\ Cached(k)'
          /\ Cardinality({j \in Key : Cached(j)})' > YtCacheMax
          => \A j \in Key : Cached(j)' => Fresh(ytCache'[j])]_rvars

\* The answer does not depend on whose key filled the shared entry ("the resolved
\* trailer is public and key-independent", resolve_youtube_ids): a request with
\* a valid key for a title with TMDB trailers is not told there are none.  Only
\* of interest where no call fails: End = {"data"}.
KeyIndependent ==
    \A r \in Request :
        /\ req[r].pc = "answered" /\ KeyOf(req[r].link) \in ValidKey
        /\ Tmdb[req[r].key] # <<>>
        => req[r].ids # <<>>
=============================================================================
