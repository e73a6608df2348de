---------------------------- MODULE ResolveProofs ----------------------------
(***************************************************************************)
(* Proofs about Resolve, for any requests, titles, links, keys and times   *)
(* to live: no answer outlives its time, however lookups of one key        *)
(* overlap; the cache grows past its bound by live entries only; answers   *)
(* are ranked, and links honoured, in every run of the service.            *)
(***************************************************************************)
EXTENDS Resolve, RankingProofs, FiniteSetTheorems, TLAPS

-----------------------------------------------------------------------------
(* The inductive invariant.                                                 *)

Ttl(ids) == IF ids = <<>> THEN YtNegTtl ELSE YtTtl

\* The age of a live entry and what it has still to live are together no more than
\* a lookup and a time to live: neither time nor a copy of the entry adds to them.
EntryOK(e) ==
    /\ e.left \in Nat
    /\ e.left > 0 => e.age \in Nat /\ e.age + e.left <= MaxLookup + Ttl(e.ids)

Shaped(q) ==
    q = [pc |-> q.pc, key |-> q.key, link |-> q.link, tmdb |-> q.tmdb,
         kino |-> q.kino, cand |-> q.cand, extra |-> q.extra, ids |-> q.ids,
         age |-> q.age]

Looks(q) == q.pc \in {"joined", "titling", "queued", "searching"}
IsAnswered(q) == q.pc = "answered"

ReqOK(q) ==
    /\ Shaped(q)
    /\ q.age \in Nat
    /\ Looks(q) => q.age <= MaxLookup
    /\ IsAnswered(q) => q.age <= MaxLookup + Ttl(q.ids)

Entries == \A k \in Key : EntryOK(ytCache[k])
Requests == \A r \in Request : ReqOK(req[r])

IInv ==
    /\ ytCache = [k \in Key |-> ytCache[k]]
    /\ req = [r \in Request |-> req[r]]
    /\ Entries
    /\ Requests

-----------------------------------------------------------------------------
LEMMA Limits ==
    /\ MaxLookup \in Nat /\ YtCacheMax \in Nat
    /\ YtTtl \in Nat \ {0} /\ YtNegTtl \in Nat \ {0}
    /\ \A ids : Ttl(ids) \in Nat \ {0} /\ MaxLookup + Ttl(ids) < TooOld
<1>1. /\ MaxLookup \in Nat /\ YtCacheMax \in Nat
      /\ YtTtl \in Nat \ {0} /\ YtNegTtl \in Nat \ {0}
  BY ResolveAssumption
<1> QED
  BY <1>1 DEF Ttl, TooOld

LEMMA NothingCached == EntryOK(NoEntry) /\ NoEntry.left = 0
<1>1. NoEntry.left = 0
  BY DEF NoEntry
<1> QED
  BY <1>1 DEF EntryOK

LEMMA Answers ==
    ASSUME NEW k, NEW link, NEW ids, NEW age \in Nat, age <= MaxLookup + Ttl(ids)
    PROVE  ReqOK(Answer(k, link, ids, age))
<1> DEFINE q == Answer(k, link, ids, age)
<1>1. Shaped(q) /\ q.age = age /\ q.ids = ids /\ q.pc = "answered"
  BY DEF Answer, At, Shaped
<1> HIDE DEF q
<1>2. ~ Looks(q)
  BY <1>1 DEF Looks
<1>3. Shaped(q) /\ q.age = age /\ q.ids = ids
  BY <1>1
<1>4. ReqOK(q)
  BY <1>2, <1>3 DEF ReqOK
<1> QED
  BY <1>4 DEF q

\* A request that has just come, or was refused or dropped.
LEMMA Newcomers ==
    ASSUME NEW pc, pc # "answered", NEW k, NEW link, NEW tmdb, NEW kino
    PROVE  ReqOK(At(pc, k, link, tmdb, kino, <<>>, 0))
<1> DEFINE q == At(pc, k, link, tmdb, kino, <<>>, 0)
<1>0. Shaped(q) /\ q.age = 0 /\ q.pc = pc
  BY DEF At, Shaped
<1> HIDE DEF q
<1>1. Shaped(q) /\ q.age = 0
  BY <1>0
<1>2. ~ IsAnswered(q)
  BY <1>0 DEF IsAnswered
<1>3. ReqOK(q)
  BY <1>1, <1>2, Limits DEF ReqOK
<1> QED
  BY <1>3 DEF q

\* A step that moves one request and leaves the cache alone.
LEMMA RequestMoves ==
    ASSUME IInv, NEW r \in Request, NEW q, ReqOK(q), req' = [req EXCEPT ![r] = q],
           ytCache' = ytCache
    PROVE  IInv'
  BY DEF IInv, Entries, Requests

LEMMA SweptOK ==
    ASSUME IInv
    PROVE  /\ Swept = [k \in Key |-> Swept[k]]
           /\ \A k \in Key : EntryOK(Swept[k])
  BY NothingCached DEF IInv, Entries, Swept

\* A lookup that is no longer than any stores what it found.
LEMMA Stores ==
    ASSUME IInv, NEW r \in Request, NEW q, q.age \in Nat, q.age <= MaxLookup, NEW ids,
           Store(r, q, ids)
    PROVE  IInv'
<1> DEFINE e == [ids |-> ids, age |-> q.age,
                 left |-> IF ids = <<>> THEN YtNegTtl ELSE YtTtl]
           a == Answer(q.key, q.link, ids, q.age)
<1>1. ytCache' = [Swept EXCEPT ![q.key] = e] /\ req' = [req EXCEPT ![r] = a]
  BY DEF Store
<1>2. e.ids = ids /\ e.age = q.age /\ e.left = Ttl(ids)
  BY DEF Ttl
<1> HIDE DEF e
<1>3. EntryOK(e)
  BY <1>2, Limits DEF EntryOK
<1>4. q.age <= MaxLookup + Ttl(ids)
  BY Limits
<1>5. ReqOK(a)
  BY <1>4, Answers
<1> HIDE DEF a
<1> QED
  BY <1>1, <1>3, <1>5, SweptOK DEF IInv, Entries, Requests

\* What a lookup under way may become.
LEMMA Goes ==
    ASSUME NEW q, ReqOK(q), Looks(q), NEW x
    PROVE  /\ ReqOK([q EXCEPT !.tmdb = x]) /\ Looks([q EXCEPT !.tmdb = x])
           /\ ReqOK([q EXCEPT !.kino = x]) /\ Looks([q EXCEPT !.kino = x])
           /\ ReqOK([q EXCEPT !.cand = x]) /\ Looks([q EXCEPT !.cand = x])
           /\ ReqOK([q EXCEPT !.extra = x]) /\ Looks([q EXCEPT !.extra = x])
<1>0. /\ Shaped(q) /\ q.age \in Nat /\ q.age <= MaxLookup /\ q.pc # "answered"
  BY DEF ReqOK, Looks
<1>a. ASSUME NEW p, Shaped(p), p.pc = q.pc, p.age = q.age
      PROVE  ReqOK(p) /\ Looks(p)
  BY <1>0, <1>a DEF ReqOK, Looks, IsAnswered
<1>1. LET p == [q EXCEPT !.tmdb = x] IN Shaped(p) /\ p.pc = q.pc /\ p.age = q.age
  BY <1>0 DEF Shaped
<1>2. LET p == [q EXCEPT !.kino = x] IN Shaped(p) /\ p.pc = q.pc /\ p.age = q.age
  BY <1>0 DEF Shaped
<1>3. LET p == [q EXCEPT !.cand = x] IN Shaped(p) /\ p.pc = q.pc /\ p.age = q.age
  BY <1>0 DEF Shaped
<1>4. LET p == [q EXCEPT !.extra = x] IN Shaped(p) /\ p.pc = q.pc /\ p.age = q.age
  BY <1>0 DEF Shaped
<1> QED
  BY <1>a, <1>1, <1>2, <1>3, <1>4

LEMMA PhaseGoes ==
    ASSUME NEW q, ReqOK(q), Looks(q), NEW pc \in {"titling", "queued", "searching"}
    PROVE  ReqOK([q EXCEPT !.pc = pc])
<1> DEFINE p == [q EXCEPT !.pc = pc]
<1>0. /\ Shaped(q) /\ q.age \in Nat /\ q.age <= MaxLookup
  BY DEF ReqOK
<1>1. Shaped(p) /\ p.age = q.age /\ p.pc = pc
  BY <1>0 DEF Shaped
<1> HIDE DEF p
<1>2. Looks(p) /\ ~ IsAnswered(p)
  BY <1>1 DEF Looks, IsAnswered
<1>3. Shaped(p) /\ p.age = q.age
  BY <1>1
<1>4. ReqOK(p)
  BY <1>0, <1>2, <1>3 DEF ReqOK
<1> QED
  BY <1>4 DEF p

LEMMA Joins ==
    ASSUME IInv, NEW r \in Request, NEW q, ReqOK(q), Looks(q), JoinStep(r, q)
    PROVE  IInv'
<1>1. q.age \in Nat /\ q.age <= MaxLookup
  BY DEF ReqOK
<1>2. CASE req' = [req EXCEPT ![r] = q] /\ UNCHANGED ytCache
  BY <1>2, RequestMoves
<1>3. CASE \E ids : Store(r, q, ids)
  BY <1>1, <1>3, Stores
<1>4. CASE req' = [req EXCEPT ![r] = [q EXCEPT !.pc = "titling"]] /\ UNCHANGED ytCache
  BY <1>4, PhaseGoes, RequestMoves
<1> QED
  BY <1>2, <1>3, <1>4 DEF JoinStep

LEMMA InitHolds == Init => IInv
<1>1. ReqOK(Idle)
  BY Newcomers DEF Idle
<1> QED
  BY <1>1, NothingCached DEF Init, IInv, Entries, Requests

LEMMA LookupNext ==
    ASSUME IInv, NEW r \in Request, LookupStep(r)
    PROVE  IInv'
<1> DEFINE q == req[r]
<1>1. ReqOK(q)
  BY DEF IInv, Requests
<1>2. Looks(q) => q.age \in Nat /\ q.age <= MaxLookup
  BY <1>1 DEF ReqOK
<1>3. ASSUME NEW end, TmdbFind(r, end)
      PROVE  IInv'
  <2>1. Looks(q) /\ \E x : JoinStep(r, [q EXCEPT !.tmdb = x])
    BY <1>3 DEF TmdbFind, Looks
  <2> QED
    BY <1>1, <2>1, Goes, Joins
<1>4. ASSUME NEW end, TmdbVideos(r, end)
      PROVE  IInv'
  <2> DEFINE cand == IF end = "data" THEN Tmdb[q.key] ELSE <<>>
             p == [q EXCEPT !.tmdb = "done"]
  <2>1. Looks(q) /\ JoinStep(r, [q EXCEPT !.tmdb = "done", !.cand = cand])
    BY <1>4 DEF TmdbVideos, Looks
  <2>2. [q EXCEPT !.tmdb = "done", !.cand = cand] = [p EXCEPT !.cand = cand]
    BY Zenon
  <2>3. ReqOK(p) /\ Looks(p)
    BY <1>1, <2>1, Goes
  <2> HIDE DEF p, cand
  <2>4. ReqOK([p EXCEPT !.cand = cand]) /\ Looks([p EXCEPT !.cand = cand])
    BY <2>3, Goes
  <2> QED
    BY <2>1, <2>2, <2>4, Joins
<1>5. ASSUME NEW end, KinoCheck(r, end)
      PROVE  IInv'
  <2> DEFINE extra == IF end = "data" THEN Kino[q.key] ELSE <<>>
             p == [q EXCEPT !.kino = "done"]
  <2>1. Looks(q) /\ JoinStep(r, [q EXCEPT !.kino = "done", !.extra = extra])
    BY <1>5 DEF KinoCheck, Looks
  <2>2. [q EXCEPT !.kino = "done", !.extra = extra] = [p EXCEPT !.extra = extra]
    BY Zenon
  <2>3. ReqOK(p) /\ Looks(p)
    BY <1>1, <2>1, Goes
  <2> HIDE DEF p, extra
  <2>4. ReqOK([p EXCEPT !.extra = extra]) /\ Looks([p EXCEPT !.extra = extra])
    BY <2>3, Goes
  <2> QED
    BY <2>1, <2>2, <2>4, Joins
<1>6. ASSUME NEW end, TmdbTitle(r, end)
      PROVE  IInv'
  <2>1. Looks(q)
    BY <1>6 DEF TmdbTitle, Looks
  <2>2. CASE req' = [req EXCEPT ![r].pc = "queued"] /\ UNCHANGED ytCache
    <3>1. req' = [req EXCEPT ![r] = [q EXCEPT !.pc = "queued"]]
      BY <2>2
    <3> HIDE DEF q
    <3> QED
      BY <1>1, <2>1, <2>2, <3>1, PhaseGoes, RequestMoves
  <2>3. CASE Store(r, q, <<>>)
    BY <1>2, <2>1, <2>3, Stores
  <2> QED
    BY <1>6, <2>2, <2>3 DEF TmdbTitle
<1>7. CASE AcquireProbe(r)
  <2>1. Looks(q)
    BY <1>7 DEF AcquireProbe, Looks
  <2>2. req' = [req EXCEPT ![r] = [q EXCEPT !.pc = "searching"]] /\ ytCache' = ytCache
    BY <1>7 DEF AcquireProbe
  <2> HIDE DEF q
  <2> QED
    BY <1>1, <2>1, <2>2, PhaseGoes, RequestMoves
<1>8. CASE Search(r)
  <2>1. Looks(q) /\ \E ids : Store(r, q, ids)
    BY <1>8 DEF Search, Looks
  <2> QED
    BY <1>2, <2>1, Stores
<1> QED
  BY <1>3, <1>4, <1>5, <1>6, <1>7, <1>8 DEF LookupStep

\* What time does to an entry.
LEMMA Ages ==
    ASSUME NEW e, EntryOK(e)
    PROVE  EntryOK(Older(e))
<1> DEFINE o == Older(e)
<1>1. /\ o.ids = e.ids
      /\ o.left = IF e.left > 0 THEN e.left - 1 ELSE 0
      /\ o.age = IF e.age < TooOld THEN e.age + 1 ELSE TooOld
  BY DEF Older
<1> HIDE DEF o
<1>2. EntryOK(o)
  <2>1. CASE e.left > 1
    <3>1. e.left \in Nat /\ e.age \in Nat /\ e.age + e.left <= MaxLookup + Ttl(e.ids)
      BY <2>1 DEF EntryOK
    <3>2. /\ MaxLookup \in Nat /\ Ttl(e.ids) \in Nat
          /\ MaxLookup + Ttl(e.ids) < TooOld /\ TooOld \in Nat
      BY Limits DEF TooOld
    <3> QED
      BY <1>1, <2>1, <3>1, <3>2 DEF EntryOK
  <2>2. CASE ~ (e.left > 1)
    <3>1. e.left \in Nat
      BY DEF EntryOK
    <3>2. o.left = 0
      BY <1>1, <2>2, <3>1
    <3> QED
      BY <3>2 DEF EntryOK
  <2> QED
    BY <2>1, <2>2
<1> QED
  BY <1>2 DEF o

LEMMA TickNext ==
    ASSUME IInv, Tick
    PROVE  IInv'
<1>1. \A k \in Key : EntryOK(ytCache'[k])
  BY Ages, NothingCached DEF Tick, IInv, Entries
<1>2. ASSUME NEW r \in Request
      PROVE  ReqOK(req'[r])
  <2> DEFINE q == req[r]
             p == [q EXCEPT !.age = @ + 1]
  <2>1. ReqOK(q)
    BY DEF IInv, Requests
  <2>2. CASE r \notin Looking
    BY <2>1, <2>2 DEF Tick
  <2>3. CASE r \in Looking
    <3>1. req'[r] = p /\ q.age < MaxLookup
      BY <2>3 DEF Tick
    <3>2. Shaped(q) /\ q.age \in Nat
      BY <2>1 DEF ReqOK
    <3>3. Shaped(p) /\ p.age = q.age + 1 /\ p.pc = q.pc
      BY <3>2 DEF Shaped
    <3>4. q.pc # "answered"
      BY <2>3 DEF Looking
    <3> HIDE DEF p
    <3>5. ~ IsAnswered(p)
      BY <3>3, <3>4 DEF IsAnswered
    <3>6. Shaped(p) /\ p.age = q.age + 1
      BY <3>3
    <3>7. p.age \in Nat /\ p.age <= MaxLookup
      BY <3>1, <3>2, <3>6, Limits
    <3>8. ReqOK(p)
      BY <3>5, <3>6, <3>7 DEF ReqOK
    <3> QED
      BY <3>1, <3>8
  <2> QED
    BY <2>2, <2>3
<1> QED
  BY <1>1, <1>2 DEF IInv, Entries, Requests, Tick

LEMMA IInvKept == IInv /\ [Next]_rvars => IInv'
<1> SUFFICES ASSUME IInv, [Next]_rvars
             PROVE  IInv'
  OBVIOUS
<1>1. ASSUME NEW r \in Request, NEW link, Refuse(r, link)
      PROVE  IInv'
  <2>1. ReqOK(At("refused", AnyKey, link, "done", "done", <<>>, 0))
    BY Newcomers
  <2> QED
    BY <1>1, <2>1, RequestMoves DEF Refuse
<1>2. ASSUME NEW r \in Request, NEW link, NEW k \in Key, Hit(r, k, link)
      PROVE  IInv'
  <2> DEFINE e == ytCache[k]
  <2>1. e.left \in Nat /\ e.left > 0 /\ EntryOK(e)
    BY <1>2 DEF Hit, Fresh, IInv, Entries, EntryOK
  <2>2. e.age \in Nat /\ e.age + e.left <= MaxLookup + Ttl(e.ids)
    BY <2>1 DEF EntryOK
  <2>3. e.age <= MaxLookup + Ttl(e.ids)
    BY <2>1, <2>2, Limits
  <2>4. ReqOK(Answer(k, link, e.ids, e.age))
    BY <2>2, <2>3, Answers
  <2> QED
    BY <1>2, <2>4, RequestMoves DEF Hit
<1>3. ASSUME NEW r \in Request, NEW link, NEW k \in Key, Miss(r, k, link)
      PROVE  IInv'
  <2> DEFINE tmdb == IF KeyOf(link) = "" THEN "done" ELSE "find"
  <2>1. ReqOK(At("joined", k, link, tmdb, "asking", <<>>, 0))
    BY Newcomers
  <2> QED
    BY <1>3, <2>1, RequestMoves DEF Miss
<1>4. ASSUME NEW r \in Request, Disconnect(r)
      PROVE  IInv'
  <2>1. ReqOK(Idle)
    BY Newcomers DEF Idle
  <2> QED
    BY <1>4, <2>1, RequestMoves DEF Disconnect
<1>5. ASSUME NEW e, Restart(e)
      PROVE  IInv'
  <2>1. ReqOK(Idle)
    BY Newcomers DEF Idle
  <2> QED
    BY <1>5, <2>1, NothingCached DEF Restart, IInv, Entries, Requests
<1>6. CASE UNCHANGED rvars
  BY <1>6 DEF rvars, IInv, Entries, Requests
<1> QED
  BY <1>1, <1>2, <1>3, <1>4, <1>5, <1>6, LookupNext, TickNext DEF Next

LEMMA Inductive == Spec => []IInv
  BY InitHolds, IInvKept, PTL DEF Spec

-----------------------------------------------------------------------------
\* No answer is older than a lookup and its time to live (resolve_youtube_ids).
THEOREM AnswersFade == Spec => []AnswerAge
<1>1. IInv => AnswerAge
  BY DEF IInv, Requests, ReqOK, IsAnswered, Ttl, AnswerAge
<1> QED
  BY <1>1, Inductive, PTL

\* An insertion that makes the cache larger than its bound has swept it of what had
\* expired (resolve_youtube_ids).
THEOREM GrowsSwept == Spec => SweptBeforeGrowing
<1> DEFINE Step ==
      \A k \in Key :
         /\ ~ Cached(k) /\ Cached(k)'
         /\ Cardinality({j \in Key : Cached(j)})' > YtCacheMax
         => \A j \in Key : Cached(j)' => Fresh(ytCache'[j])
<1>1. IInv /\ [Next]_rvars => Step
  <2> SUFFICES ASSUME IInv, [Next]_rvars PROVE Step
    OBVIOUS
  <2>a. CASE \A k \in Key : Cached(k)' => Cached(k)
    BY <2>a
  <2>1. ASSUME NEW r \in Request, NEW q, NEW ids, Store(r, q, ids)
        PROVE  Step
    <3> DEFINE S == {k \in Key : Cached(k)}
               T == {k \in Key : ytCache'[k] # NoEntry}
               e == [ids |-> ids, age |-> q.age,
                     left |-> IF ids = <<>> THEN YtNegTtl ELSE YtTtl]
    <3>1. ytCache' = [Swept EXCEPT ![q.key] = e]
      BY <2>1 DEF Store
    <3>2. e.left > 0
      BY Limits
    <3> HIDE DEF e
    <3>3. CASE Cardinality(S) >= YtCacheMax
      <4>1. \A k \in Key : Swept[k] = IF Fresh(ytCache[k]) THEN ytCache[k] ELSE NoEntry
        BY <3>3 DEF Swept
      <4>2. \A k \in Key : ytCache'[k] = Swept[k] \/ ytCache'[k] = e
        BY <3>1, SweptOK
      <4>3. \A k \in Key : ytCache'[k] # NoEntry => Fresh(ytCache'[k])
        BY <3>2, <4>1, <4>2 DEF Fresh
      <4> QED
        BY <4>3 DEF Cached
    <3>4. CASE ~ (Cardinality(S) >= YtCacheMax)
      <4>1. Swept = ytCache
        BY <3>4 DEF Swept
      <4>2. T \subseteq S \cup {q.key}
        BY <3>1, <4>1, SweptOK DEF Cached
      <4>3. IsFiniteSet(Key) /\ S \in SUBSET Key
        BY ResolveAssumption
      <4>4. IsFiniteSet(S)
        BY <4>3, FS_Subset
      <4>5. /\ Cardinality(S) \in Nat
            /\ IsFiniteSet(S \cup {q.key})
            /\ Cardinality(S \cup {q.key}) <= Cardinality(S) + 1
        <5>1. Cardinality(S) \in Nat
          BY <4>4, FS_CardinalityType
        <5>2. /\ IsFiniteSet(S \cup {q.key})
              /\ Cardinality(S \cup {q.key}) =
                    IF q.key \in S THEN Cardinality(S) ELSE Cardinality(S) + 1
          BY <4>4, FS_AddElement
        <5> HIDE DEF S
        <5> QED
          BY <5>1, <5>2
      <4>6. /\ Cardinality(S \cup {q.key}) \in Nat
            /\ IsFiniteSet(T)
            /\ Cardinality(T) <= Cardinality(S \cup {q.key})
        BY <4>2, <4>5, FS_Subset, FS_CardinalityType
      <4>7. Cardinality(T) \in Nat
        BY <4>6, FS_CardinalityType
      <4>8. ~ (Cardinality(T) > YtCacheMax)
        BY <3>4, <4>5, <4>6, <4>7, Limits
      <4> QED
        BY <4>8 DEF Cached
    <3> QED
      BY <3>3, <3>4
  <2>2. CASE UNCHANGED ytCache
    BY <2>2, <2>a DEF Cached
  <2>3. ASSUME NEW r \in Request, NEW q, JoinStep(r, q)
        PROVE  UNCHANGED ytCache \/ \E ids : Store(r, q, ids)
    BY <2>3 DEF JoinStep
  <2>4. ASSUME NEW r \in Request, LookupStep(r)
        PROVE  UNCHANGED ytCache \/ \E q, ids : Store(r, q, ids)
    BY <2>3, <2>4 DEF LookupStep, TmdbFind, TmdbVideos, KinoCheck, TmdbTitle,
                      AcquireProbe, Search
  <2>5. ASSUME NEW r \in Request, NEW link,
               \/ Refuse(r, link) \/ Disconnect(r)
               \/ \E k \in Key : Hit(r, k, link) \/ Miss(r, k, link)
        PROVE  UNCHANGED ytCache
    BY <2>5 DEF Refuse, Disconnect, Hit, Miss
  <2>6. CASE Tick \/ \E e : Restart(e)
    BY <2>6, <2>a DEF Tick, Restart, Cached
  <2>7. UNCHANGED rvars => UNCHANGED ytCache
    BY DEF rvars
  <2> HIDE DEF Step
  <2> QED
    BY <2>1, <2>2, <2>4, <2>5, <2>6, <2>7 DEF Next
<1> QED
  BY <1>1, Inductive, PTL DEF Spec, SweptBeforeGrowing
-----------------------------------------------------------------------------
(* What is stored and answered, and with whose key.                         *)

\* The lists that a lookup of key k may end with: nothing, what the search found,
\* or the candidates of both sources, whichever of them failed.
Offered(k, ids) ==
    \/ ids = <<>>
    \/ ids = FirstOccurrences(Found[k])
    \/ Joined(k, ids)

\* KeyOf in the environment e.
KeyIn(e, link) ==
    IF link = NoLink THEN e.tmdbKey
    ELSE Decode(FromEnv(e.configKey, e.configKeysPrev), link)

\* What a request carries, at whatever point it is.
Carries(q) ==
    /\ q.key \in Key
    /\ q.link \in Link \cup {NoLink}
    /\ q.cand \in {<<>>, Tmdb[q.key]}
    /\ q.extra \in {<<>>, Kino[q.key]}
    /\ q.age \in 0 .. TooOld

\* It joins as long as a branch is under way, it has ids when it is answered and
\* not before, and it is refused if and only if its link has no key: the
\* environment does not change under a request.
AtItsPlace(q, e) ==
    /\ q.pc \in Pcs
    /\ q.pc = "joined" <=> q.tmdb # "done" \/ q.kino # "done"
    /\ IF q.pc = "answered" THEN Offered(q.key, q.ids) ELSE q.ids = <<>>
    /\ IF q.pc = "idle" THEN q.link = NoLink
       ELSE q.pc = "refused" <=> KeyIn(e, q.link) = NoConfig

Lists == \A k \in Key : ytCache[k] \in Entry /\ Offered(k, ytCache[k].ids)
Places == \A r \in Request : Carries(req[r]) /\ AtItsPlace(req[r], env)

TInv ==
    /\ fails \in 0 .. HealthFailThreshold
    /\ env \in Env
    /\ Lists
    /\ Places

-----------------------------------------------------------------------------
LEMMA KeyOfIn == \A link : KeyOf(link) = KeyIn(env, link)
  BY DEF KeyOf, KeyIn, Ring

LEMMA OfferedIds ==
    ASSUME NEW k \in Key, NEW ids, Offered(k, ids)
    PROVE  ids \in Seq(Id)
<1>1. /\ Tmdb[k] \in Seq(Range(Tmdb[k]))
      /\ Kino[k] \in Seq(Range(Kino[k]))
      /\ Found[k] \in Seq(Range(Found[k]))
  <2>1. Tmdb[k] \in Seq(Range(Tmdb[k]))
    BY TmdbByStanding
  <2>2. Kino[k] \in Seq(Range(Kino[k])) /\ Found[k] \in Seq(Range(Found[k]))
    BY ResolveAssumption
  <2> QED
    BY <2>1, <2>2
<1>2. /\ Range(Tmdb[k]) \subseteq Id /\ Range(Kino[k]) \subseteq Id
      /\ Range(Found[k]) \subseteq Id
  BY DEF Id
<1>3. ASSUME NEW s, NEW T, s \in Seq(T), T \subseteq Id
      PROVE  s \in Seq(Id)
  BY <1>3
<1>4. Tmdb[k] \in Seq(Id) /\ Kino[k] \in Seq(Id) /\ Found[k] \in Seq(Id)
  BY <1>1, <1>2, <1>3
<1>5. \A s \in Seq(Id) : FirstOccurrences(s) \in Seq(Id)
  BY FirstOfOnce
<1>6. CASE Joined(k, ids)
  <2>1. PICK c \in {<<>>, Tmdb[k]}, e \in {<<>>, Kino[k]} :
                ids = FirstOccurrences(c \o e)
    BY <1>6 DEF Joined
  <2>2. <<>> \in Seq(Id)
    OBVIOUS
  <2>3. c \in Seq(Id) /\ e \in Seq(Id)
    BY <1>4, <2>2
  <2>4. c \o e \in Seq(Id)
    BY <2>3, ConcatProperties
  <2> QED
    BY <1>5, <2>1, <2>4
<1>7. CASE ids = <<>>
  BY <1>7
<1>8. CASE ids = FirstOccurrences(Found[k])
  BY <1>4, <1>5, <1>8
<1> QED
  BY <1>6, <1>7, <1>8 DEF Offered

LEMMA NothingOffered == NoEntry \in Entry /\ \A k : Offered(k, NoEntry.ids)
<1>1. NoEntry.ids = <<>>
  BY DEF NoEntry
<1> QED
  BY <1>1 DEF Entry, Offered

LEMMA Faults ==
    ASSUME fails \in 0 .. HealthFailThreshold, NEW end
    PROVE  FailsAfter(end) \in 0 .. HealthFailThreshold
  BY HealthAssumption DEF FailsAfter

\* Requests that have just come, or were dropped.
LEMMA ComesToItsPlace ==
    ASSUME NEW e, NEW k \in Key, NEW link \in Link \cup {NoLink}, NEW tmdb, NEW kino,
           NEW pc \in {"idle", "joined", "refused"},
           pc = "joined" <=> tmdb # "done" \/ kino # "done",
           IF pc = "idle" THEN link = NoLink
           ELSE pc = "refused" <=> KeyIn(e, link) = NoConfig
    PROVE  LET q == At(pc, k, link, tmdb, kino, <<>>, 0)
           IN  Carries(q) /\ AtItsPlace(q, e)
<1> DEFINE q == At(pc, k, link, tmdb, kino, <<>>, 0)
<1>1. /\ q.pc = pc /\ q.key = k /\ q.link = link /\ q.tmdb = tmdb /\ q.kino = kino
      /\ q.cand = <<>> /\ q.extra = <<>> /\ q.ids = <<>> /\ q.age = 0
  BY DEF At
<1> HIDE DEF q
<1>2. 0 \in 0 .. TooOld
  BY Limits DEF TooOld
<1>3. Carries(q)
  BY <1>1, <1>2 DEF Carries
<1>4. AtItsPlace(q, e)
  BY <1>1 DEF AtItsPlace, Pcs
<1> QED
  BY <1>3, <1>4 DEF q

LEMMA IdleAtItsPlace == Carries(Idle) /\ \A e : AtItsPlace(Idle, e)
<1>1. AnyKey \in Key
  BY ResolveAssumption DEF AnyKey
<1> QED
  BY <1>1, ComesToItsPlace DEF Idle

LEMMA AnswersAtItsPlace ==
    ASSUME NEW e, NEW k \in Key, NEW link \in Link \cup {NoLink}, NEW ids,
           Offered(k, ids), NEW age \in 0 .. TooOld, KeyIn(e, link) # NoConfig
    PROVE  LET q == Answer(k, link, ids, age)
           IN  Carries(q) /\ AtItsPlace(q, e)
<1> DEFINE q == Answer(k, link, ids, age)
<1>1. /\ q.pc = "answered" /\ q.key = k /\ q.link = link /\ q.tmdb = "done"
      /\ q.kino = "done" /\ q.cand = <<>> /\ q.extra = <<>> /\ q.ids = ids
      /\ q.age = age
  BY DEF Answer, At
<1> HIDE DEF q
<1>2. Carries(q)
  BY <1>1 DEF Carries
<1>3. AtItsPlace(q, e)
  BY <1>1 DEF AtItsPlace, Pcs
<1> QED
  BY <1>2, <1>3 DEF q

-----------------------------------------------------------------------------
(* The steps.                                                               *)

LEMMA OneMoves ==
    ASSUME IInv, TInv, NEW r \in Request, NEW q, Carries(q), AtItsPlace(q, env),
           req' = [req EXCEPT ![r] = q], UNCHANGED <<ytCache, env>>,
           fails' \in 0 .. HealthFailThreshold
    PROVE  TInv'
  BY DEF IInv, TInv, Lists, Places

\* What a lookup is that may end with ids.
Ending(q, e) ==
    /\ Carries(q)
    /\ q.age \in 0 .. MaxLookup
    /\ KeyIn(e, q.link) # NoConfig

LEMMA StoresOffered ==
    ASSUME IInv, TInv, NEW r \in Request, NEW q, Ending(q, env),
           NEW ids, Offered(q.key, ids), Store(r, q, ids), env' = env,
           fails' \in 0 .. HealthFailThreshold
    PROVE  TInv'
<1> DEFINE e == [ids |-> ids, age |-> q.age,
                 left |-> IF ids = <<>> THEN YtNegTtl ELSE YtTtl]
           a == Answer(q.key, q.link, ids, q.age)
<1>1. ytCache' = [Swept EXCEPT ![q.key] = e] /\ req' = [req EXCEPT ![r] = a]
  BY DEF Store
<1>2. /\ q.key \in Key /\ q.link \in Link \cup {NoLink}
      /\ q.age \in 0 .. MaxLookup /\ q.age \in 0 .. TooOld
      /\ KeyIn(env, q.link) # NoConfig
  BY DEF Ending, Carries
<1>3. e \in Entry /\ e.ids = ids
  <2>1. ids \in Seq(Id)
    BY <1>2, OfferedIds
  <2>2. e.left \in 0 .. YtTtl + YtNegTtl
    BY Limits
  <2> QED
    BY <1>2, <2>1, <2>2 DEF Entry
<1>4. Carries(a) /\ AtItsPlace(a, env)
  BY <1>2, AnswersAtItsPlace
<1> HIDE DEF e, a
<1>5. ASSUME NEW k \in Key
      PROVE  Swept[k] \in Entry /\ Offered(k, Swept[k].ids)
  <2>1. Swept[k] = ytCache[k] \/ Swept[k] = NoEntry
    BY DEF Swept
  <2> QED
    BY <2>1, NothingOffered DEF TInv, Lists
<1>6. Lists'
  <2> SUFFICES ASSUME NEW k \in Key
               PROVE  ytCache'[k] \in Entry /\ Offered(k, ytCache'[k].ids)
    BY DEF Lists
  <2>1. CASE k = q.key
    <3>1. ytCache'[k] = e
      BY <1>1, <2>1, SweptOK
    <3> QED
      BY <1>3, <2>1, <3>1
  <2>2. CASE k # q.key
    <3>1. ytCache'[k] = Swept[k]
      BY <1>1, <2>2, SweptOK
    <3> QED
      BY <1>5, <3>1
  <2> QED
    BY <2>1, <2>2
<1>7. Places'
  BY <1>1, <1>4 DEF IInv, TInv, Places
<1> QED
  BY <1>6, <1>7 DEF TInv

\* What a lookup under way becomes: its place is that of its phase.
LEMMA StaysOnItsWay ==
    ASSUME NEW e, NEW q, Shaped(q), Carries(q), q.ids = <<>>,
           KeyIn(e, q.link) # NoConfig, NEW pc \in {"joined", "titling", "queued", "searching"},
           pc = "joined" <=> q.tmdb # "done" \/ q.kino # "done"
    PROVE  LET p == [q EXCEPT !.pc = pc] IN Carries(p) /\ AtItsPlace(p, e)
<1> DEFINE p == [q EXCEPT !.pc = pc]
<1>1. /\ p.pc = pc /\ p.key = q.key /\ p.link = q.link /\ p.tmdb = q.tmdb
      /\ p.kino = q.kino /\ p.cand = q.cand /\ p.extra = q.extra
      /\ p.ids = q.ids /\ p.age = q.age
  BY DEF Shaped
<1> HIDE DEF p
<1>2. Carries(p)
  BY <1>1 DEF Carries
<1>3. AtItsPlace(p, e)
  BY <1>1 DEF AtItsPlace, Pcs
<1> QED
  BY <1>2, <1>3 DEF p

\* The lookup q, with what its branches have brought so far, joins.
LEMMA JoinsOffered ==
    ASSUME IInv, TInv, NEW r \in Request, NEW q, Shaped(q), q.pc = "joined",
           q.ids = <<>>, Ending(q, env), JoinStep(r, q), env' = env,
           fails' \in 0 .. HealthFailThreshold
    PROVE  TInv'
<1> DEFINE ids == FirstOccurrences(q.cand \o q.extra)
<1>0. Carries(q) /\ KeyIn(env, q.link) # NoConfig
  BY DEF Ending
<1>1. CASE q.tmdb # "done" \/ q.kino # "done"
  <2>1. req' = [req EXCEPT ![r] = q] /\ UNCHANGED ytCache
    BY <1>1 DEF JoinStep
  <2>2. AtItsPlace(q, env)
    BY <1>0, <1>1 DEF AtItsPlace, Pcs
  <2> QED
    BY <1>0, <2>1, <2>2, OneMoves
<1>2. CASE Store(r, q, ids)
  <2>1. Joined(q.key, ids)
    BY <1>0 DEF Carries, Joined
  <2>2. Offered(q.key, ids)
    BY <2>1 DEF Offered
  <2> HIDE DEF ids
  <2> QED
    BY <1>2, <2>2, StoresOffered
<1>3. CASE /\ q.tmdb = "done" /\ q.kino = "done"
           /\ req' = [req EXCEPT ![r] = [q EXCEPT !.pc = "titling"]]
           /\ UNCHANGED ytCache
  <2> DEFINE p == [q EXCEPT !.pc = "titling"]
  <2>1. Carries(p) /\ AtItsPlace(p, env)
    BY <1>0, <1>3, StaysOnItsWay
  <2> HIDE DEF p
  <2>2. req' = [req EXCEPT ![r] = p] /\ UNCHANGED ytCache
    BY <1>3 DEF p
  <2> QED
    BY <2>1, <2>2, OneMoves
<1> QED
  BY <1>1, <1>2, <1>3 DEF JoinStep

\* A request whose lookup is under way.
LEMMA OnItsWay ==
    ASSUME IInv, TInv, NEW r \in Request, Looks(req[r])
    PROVE  LET q == req[r]
           IN  Shaped(q) /\ Carries(q) /\ Ending(q, env) /\ q.ids = <<>>
                 /\ AtItsPlace(q, env)
<1> DEFINE q == req[r]
<1>1. ReqOK(q) /\ Carries(q) /\ AtItsPlace(q, env)
  BY DEF IInv, Requests, TInv, Places
<1> HIDE DEF q
<1>2. Looks(q) /\ q.pc # "answered" /\ q.pc # "idle" /\ q.pc # "refused"
  BY DEF Looks, q
<1>3. Shaped(q) /\ q.age \in Nat /\ q.age <= MaxLookup
  BY <1>1, <1>2 DEF ReqOK
<1>4. q.ids = <<>> /\ KeyIn(env, q.link) # NoConfig
  BY <1>1, <1>2 DEF AtItsPlace
<1>5. q.age \in 0 .. MaxLookup
  BY <1>3, Limits
<1> QED
  BY <1>1, <1>3, <1>4, <1>5 DEF Ending, q

LEMMA LookupTyped ==
    ASSUME IInv, TInv, NEW r \in Request, LookupStep(r)
    PROVE  TInv'
<1> DEFINE q == req[r]
<1>0. Looks(q) => /\ Shaped(q) /\ Carries(q) /\ Ending(q, env) /\ q.ids = <<>>
                  /\ AtItsPlace(q, env)
  BY OnItsWay
<1>a. \A end : FailsAfter(end) \in 0 .. HealthFailThreshold
  BY Faults DEF TInv
<1>b. ASSUME NEW p, Looks(q), Shaped(p), p.pc = "joined", p.key = q.key,
             p.link = q.link, p.age = q.age, p.ids = q.ids,
             p.cand \in {<<>>, Tmdb[q.key]}, p.extra \in {<<>>, Kino[q.key]},
             JoinStep(r, p), env' = env, fails' \in 0 .. HealthFailThreshold
      PROVE  TInv'
  <2>1. Ending(p, env) /\ p.ids = <<>>
    BY <1>0, <1>b DEF Ending, Carries
  <2> QED
    BY <1>b, <2>1, JoinsOffered
<1>1. ASSUME NEW end, TmdbFind(r, end)
      PROVE  TInv'
  <2> DEFINE x == IF end = "data" /\ q.key \in Known THEN "videos" ELSE "done"
             p == [q EXCEPT !.tmdb = x]
  <2>1. Looks(q) /\ q.pc = "joined" /\ JoinStep(r, p) /\ env' = env
           /\ fails' = FailsAfter(end)
    BY <1>1 DEF TmdbFind, Looks
  <2>2. Shaped(q) /\ Carries(q)
    BY <1>0, <2>1
  <2> HIDE DEF x
  <2>3. /\ Shaped(p) /\ p.pc = q.pc /\ p.key = q.key /\ p.link = q.link
        /\ p.age = q.age /\ p.ids = q.ids /\ p.cand = q.cand /\ p.extra = q.extra
    BY <2>2 DEF Shaped
  <2> HIDE DEF p, q
  <2> QED
    BY <1>a, <1>b, <2>1, <2>2, <2>3 DEF Carries
<1>2. ASSUME NEW end, TmdbVideos(r, end)
      PROVE  TInv'
  <2> DEFINE x == IF end = "data" THEN Tmdb[q.key] ELSE <<>>
             p == [q EXCEPT !.tmdb = "done", !.cand = x]
  <2>1. Looks(q) /\ q.pc = "joined" /\ JoinStep(r, p) /\ env' = env
           /\ fails' = FailsAfter(end)
    BY <1>2 DEF TmdbVideos, Looks
  <2>2. Shaped(q) /\ Carries(q) /\ x \in {<<>>, Tmdb[q.key]}
    BY <1>0, <2>1
  <2> HIDE DEF x
  <2>3. /\ Shaped(p) /\ p.pc = q.pc /\ p.key = q.key /\ p.link = q.link
        /\ p.age = q.age /\ p.ids = q.ids /\ p.cand = x /\ p.extra = q.extra
    <3> DEFINE o == [q EXCEPT !.tmdb = "done"]
    <3>1. /\ Shaped(o) /\ o.pc = q.pc /\ o.key = q.key /\ o.link = q.link
          /\ o.age = q.age /\ o.ids = q.ids /\ o.cand = q.cand /\ o.extra = q.extra
      BY <2>2 DEF Shaped
    <3>2. p = [o EXCEPT !.cand = x]
      BY Zenon
    <3> HIDE DEF o, p
    <3>3. /\ Shaped(p) /\ p.pc = o.pc /\ p.key = o.key /\ p.link = o.link
          /\ p.age = o.age /\ p.ids = o.ids
      BY <3>1, <3>2 DEF Shaped
    <3>4. p.cand = x /\ p.extra = o.extra
      BY <3>1, <3>2 DEF Shaped
    <3> QED
      BY <3>1, <3>3, <3>4
  <2> HIDE DEF p, q
  <2> QED
    BY <1>a, <1>b, <2>1, <2>2, <2>3 DEF Carries
<1>3. ASSUME NEW end, KinoCheck(r, end)
      PROVE  TInv'
  <2> DEFINE x == IF end = "data" THEN Kino[q.key] ELSE <<>>
             p == [q EXCEPT !.kino = "done", !.extra = x]
  <2>1. Looks(q) /\ q.pc = "joined" /\ JoinStep(r, p) /\ env' = env
           /\ fails' = FailsAfter(end)
    BY <1>3 DEF KinoCheck, Looks
  <2>2. Shaped(q) /\ Carries(q) /\ x \in {<<>>, Kino[q.key]}
    BY <1>0, <2>1
  <2> HIDE DEF x
  <2>3. /\ Shaped(p) /\ p.pc = q.pc /\ p.key = q.key /\ p.link = q.link
        /\ p.age = q.age /\ p.ids = q.ids /\ p.cand = q.cand /\ p.extra = x
    <3> DEFINE o == [q EXCEPT !.kino = "done"]
    <3>1. /\ Shaped(o) /\ o.pc = q.pc /\ o.key = q.key /\ o.link = q.link
          /\ o.age = q.age /\ o.ids = q.ids /\ o.cand = q.cand /\ o.extra = q.extra
      BY <2>2 DEF Shaped
    <3>2. p = [o EXCEPT !.extra = x]
      BY Zenon
    <3> HIDE DEF o, p
    <3>3. /\ Shaped(p) /\ p.pc = o.pc /\ p.key = o.key /\ p.link = o.link
          /\ p.age = o.age /\ p.ids = o.ids
      BY <3>1, <3>2 DEF Shaped
    <3>4. p.cand = o.cand /\ p.extra = x
      BY <3>1, <3>2 DEF Shaped
    <3> QED
      BY <3>1, <3>3, <3>4
  <2> HIDE DEF p, q
  <2> QED
    BY <1>a, <1>b, <2>1, <2>2, <2>3 DEF Carries
<1>4. ASSUME NEW end, TmdbTitle(r, end)
      PROVE  TInv'
  <2>1. /\ Looks(q) /\ q.pc = "titling" /\ env' = env /\ fails' = FailsAfter(end)
        /\ \/ req' = [req EXCEPT ![r] = [q EXCEPT !.pc = "queued"]]
                 /\ UNCHANGED ytCache
           \/ Store(r, q, <<>>)
    BY <1>4 DEF TmdbTitle, Looks
  <2>2. CASE req' = [req EXCEPT ![r] = [q EXCEPT !.pc = "queued"]] /\ UNCHANGED ytCache
    <3> DEFINE p == [q EXCEPT !.pc = "queued"]
    <3>1. q.tmdb = "done" /\ q.kino = "done" /\ KeyIn(env, q.link) # NoConfig
      BY <1>0, <2>1 DEF AtItsPlace, Ending
    <3>2. Carries(p) /\ AtItsPlace(p, env)
      BY <1>0, <2>1, <3>1, StaysOnItsWay
    <3> HIDE DEF p
    <3>3. req' = [req EXCEPT ![r] = p]
      BY <2>2 DEF p
    <3> QED
      BY <1>a, <2>1, <2>2, <3>2, <3>3, OneMoves
  <2>3. CASE Store(r, q, <<>>)
    <3>1. Offered(q.key, <<>>)
      BY DEF Offered
    <3> QED
      BY <1>0, <1>a, <2>1, <2>3, <3>1, StoresOffered
  <2> QED
    BY <2>1, <2>2, <2>3
<1>5. CASE AcquireProbe(r)
  <2> DEFINE p == [q EXCEPT !.pc = "searching"]
  <2>1. Looks(q) /\ q.pc = "queued" /\ UNCHANGED <<ytCache, fails, env>>
           /\ req' = [req EXCEPT ![r] = p]
    BY <1>5 DEF AcquireProbe, Looks
  <2>2. q.tmdb = "done" /\ q.kino = "done" /\ KeyIn(env, q.link) # NoConfig
    BY <1>0, <2>1 DEF AtItsPlace, Ending
  <2>3. Carries(p) /\ AtItsPlace(p, env)
    BY <1>0, <2>1, <2>2, StaysOnItsWay
  <2>4. fails' \in 0 .. HealthFailThreshold
    BY <2>1 DEF TInv
  <2> HIDE DEF p
  <2> QED
    BY <2>1, <2>3, <2>4, OneMoves
<1>6. CASE Search(r)
  <2>1. PICK found \in {Found[q.key], <<>>} : Store(r, q, FirstOccurrences(found))
    BY <1>6 DEF Search
  <2>2. Looks(q) /\ UNCHANGED <<fails, env>>
    BY <1>6 DEF Search, Looks
  <2>3. Offered(q.key, FirstOccurrences(found))
    <3>1. CASE found = Found[q.key]
      BY <3>1 DEF Offered
    <3>2. CASE found = <<>>
      BY <3>2 DEF Offered, Joined
    <3> QED
      BY <2>1, <3>1, <3>2
  <2>4. fails' \in 0 .. HealthFailThreshold
    BY <2>2 DEF TInv
  <2> QED
    BY <1>0, <2>1, <2>2, <2>3, <2>4, StoresOffered
<1> QED
  BY <1>1, <1>2, <1>3, <1>4, <1>5, <1>6 DEF LookupStep

LEMMA TickTyped ==
    ASSUME IInv, TInv, Tick
    PROVE  TInv'
<1>1. ASSUME NEW k \in Key
      PROVE  ytCache'[k] \in Entry /\ Offered(k, ytCache'[k].ids)
  <2> DEFINE e == ytCache[k]
             o == Older(e)
  <2>1. e \in Entry /\ Offered(k, e.ids)
    BY DEF TInv, Lists
  <2>2. CASE e = NoEntry
    BY <2>2, NothingOffered DEF Tick, Cached
  <2>3. CASE e # NoEntry
    <3>1. ytCache'[k] = o
      BY <2>3 DEF Tick, Cached
    <3>2. /\ e.ids \in Seq(Id) /\ e.left \in 0 .. YtTtl + YtNegTtl
          /\ e.age \in 0 .. TooOld
      BY <2>1, <2>3 DEF Entry
    <3>3. /\ o.ids = e.ids
          /\ o.left = IF e.left > 0 THEN e.left - 1 ELSE 0
          /\ o.age = IF e.age < TooOld THEN e.age + 1 ELSE TooOld
          /\ o = [ids |-> o.ids, left |-> o.left, age |-> o.age]
      BY DEF Older
    <3> HIDE DEF o, e
    <3>4. o.left \in 0 .. YtTtl + YtNegTtl
      BY <3>2, <3>3, Limits
    <3>5. o.age \in 0 .. TooOld
      BY <3>2, <3>3, Limits DEF TooOld
    <3>6. o \in Entry
      BY <3>2, <3>3, <3>4, <3>5 DEF Entry
    <3> QED
      BY <2>1, <3>1, <3>3, <3>6
  <2> QED
    BY <2>2, <2>3
<1>2. ASSUME NEW r \in Request
      PROVE  Carries(req'[r]) /\ AtItsPlace(req'[r], env)
  <2> DEFINE q == req[r]
             p == [q EXCEPT !.age = @ + 1]
  <2>1. CASE r \notin Looking
    <3>1. req'[r] = req[r]
      BY <2>1 DEF Tick
    <3> QED
      BY <3>1 DEF TInv, Places
  <2>2. CASE r \in Looking
    <3>1. req'[r] = p /\ q.age < MaxLookup
      BY <2>2 DEF Tick
    <3>2. Shaped(q) /\ Carries(q) /\ AtItsPlace(q, env) /\ q.age \in 0 .. MaxLookup
      BY <2>2, OnItsWay DEF Looking, Looks, Ending
    <3>3. /\ p.pc = q.pc /\ p.key = q.key /\ p.link = q.link /\ p.tmdb = q.tmdb
          /\ p.kino = q.kino /\ p.cand = q.cand /\ p.extra = q.extra /\ p.ids = q.ids
          /\ p.age = q.age + 1
      BY <3>2 DEF Shaped
    <3> HIDE DEF p, q
    <3>4. p.age \in 0 .. TooOld
      BY <3>1, <3>2, <3>3, Limits DEF TooOld
    <3>5. Carries(p)
      BY <3>2, <3>3, <3>4 DEF Carries
    <3>6. AtItsPlace(p, env)
      BY <3>2, <3>3 DEF AtItsPlace
    <3> QED
      BY <3>1, <3>5, <3>6
  <2> QED
    BY <2>1, <2>2
<1>3. env' = env /\ fails' = fails
  BY DEF Tick
<1> QED
  BY <1>1, <1>2, <1>3 DEF TInv, Lists, Places

LEMMA TypedAtFirst == Init => TInv
<1> SUFFICES ASSUME Init PROVE TInv
  OBVIOUS
<1>1. fails \in 0 .. HealthFailThreshold /\ env \in Env
  BY HealthAssumption DEF Init
<1>2. Lists
  BY NothingOffered DEF Init, Lists
<1>3. Places
  BY IdleAtItsPlace DEF Init, Places
<1> QED
  BY <1>1, <1>2, <1>3 DEF TInv

LEMMA TInvKept == IInv /\ TInv /\ [Next]_rvars => TInv'
<1> SUFFICES ASSUME IInv, TInv, [Next]_rvars
             PROVE  TInv'
  OBVIOUS
<1>0. fails \in 0 .. HealthFailThreshold
  BY DEF TInv
<1>1. ASSUME NEW r \in Request, NEW link \in Link \cup {NoLink}, Refuse(r, link)
      PROVE  TInv'
  <2> DEFINE q == At("refused", AnyKey, link, "done", "done", <<>>, 0)
  <2>1. /\ KeyIn(env, link) = NoConfig /\ req' = [req EXCEPT ![r] = q]
        /\ UNCHANGED <<ytCache, fails, env>>
    BY <1>1, KeyOfIn DEF Refuse
  <2>2. AnyKey \in Key
    BY ResolveAssumption DEF AnyKey
  <2>3. Carries(q) /\ AtItsPlace(q, env)
    BY <2>1, <2>2, ComesToItsPlace
  <2> HIDE DEF q
  <2> QED
    BY <1>0, <2>1, <2>3, OneMoves
<1>2. ASSUME NEW r \in Request, NEW link \in Link \cup {NoLink}, NEW k \in Key,
             Hit(r, k, link)
      PROVE  TInv'
  <2> DEFINE e == ytCache[k]
             q == Answer(k, link, e.ids, e.age)
  <2>1. /\ KeyIn(env, link) # NoConfig /\ req' = [req EXCEPT ![r] = q]
        /\ UNCHANGED <<ytCache, fails, env>> /\ e.left > 0
    BY <1>2, KeyOfIn DEF Hit, Fresh
  <2>2. e \in Entry /\ Offered(k, e.ids)
    BY DEF TInv, Lists
  <2>3. e.age \in 0 .. TooOld
    <3>1. e # NoEntry
      BY <2>1, NothingCached
    <3> HIDE DEF e
    <3> QED
      BY <2>2, <3>1 DEF Entry
  <2>4. Carries(q) /\ AtItsPlace(q, env)
    BY <2>1, <2>2, <2>3, AnswersAtItsPlace
  <2> HIDE DEF q
  <2> QED
    BY <1>0, <2>1, <2>4, OneMoves
<1>3. ASSUME NEW r \in Request, NEW link \in Link \cup {NoLink}, NEW k \in Key,
             Miss(r, k, link)
      PROVE  TInv'
  <2> DEFINE tmdb == IF KeyOf(link) = "" THEN "done" ELSE "find"
             q == At("joined", k, link, tmdb, "asking", <<>>, 0)
  <2>1. /\ KeyIn(env, link) # NoConfig /\ req' = [req EXCEPT ![r] = q]
        /\ UNCHANGED <<ytCache, fails, env>>
    BY <1>3, KeyOfIn DEF Miss
  <2> HIDE DEF tmdb
  <2>2. Carries(q) /\ AtItsPlace(q, env)
    BY <2>1, ComesToItsPlace
  <2> HIDE DEF q
  <2> QED
    BY <1>0, <2>1, <2>2, OneMoves
<1>4. ASSUME NEW r \in Request, Disconnect(r)
      PROVE  TInv'
  BY <1>0, <1>4, IdleAtItsPlace, OneMoves DEF Disconnect
<1>5. ASSUME NEW e \in Env, Restart(e)
      PROVE  TInv'
  <2>1. fails' \in 0 .. HealthFailThreshold /\ env' \in Env
    BY <1>5, HealthAssumption DEF Restart
  <2>2. Lists'
    BY <1>5, NothingOffered DEF Restart, Lists
  <2>3. Places'
    BY <1>5, IdleAtItsPlace DEF Restart, Places
  <2> QED
    BY <2>1, <2>2, <2>3 DEF TInv
<1>6. CASE UNCHANGED rvars
  BY <1>6 DEF rvars, TInv, Lists, Places
<1> QED
  BY <1>1, <1>2, <1>3, <1>4, <1>5, <1>6, LookupTyped, TickTyped DEF Next

LEMMA TypedAlways == Spec => [](IInv /\ TInv)
<1>1. Init => IInv /\ TInv
  BY InitHolds, TypedAtFirst
<1>2. (IInv /\ TInv) /\ [Next]_rvars => (IInv /\ TInv)'
  BY IInvKept, TInvKept
<1> QED
  BY <1>1, <1>2, PTL DEF Spec

-----------------------------------------------------------------------------
\* Every variable of discovery has its type, a request waits exactly as long as
\* one of its two branches is under way (resolve_youtube_ids).
THEOREM TypeCorrect == Spec => []TypeOK
<1>1. IInv /\ TInv => TypeOK
  <2> SUFFICES ASSUME IInv, TInv PROVE TypeOK
    OBVIOUS
  <2>1. ytCache \in [Key -> Entry]
    BY DEF IInv, TInv, Lists
  <2>2. ASSUME NEW r \in Request
        PROVE  /\ req[r].pc \in Pcs
               /\ req[r].key \in Key
               /\ req[r].link \in Link \cup {NoLink}
               /\ req[r].ids \in Seq(Id)
               /\ req[r].age \in 0 .. TooOld
               /\ req[r].pc = "joined" <=> req[r].tmdb # "done" \/ req[r].kino # "done"
    <3>1. Carries(req[r]) /\ AtItsPlace(req[r], env)
      BY DEF TInv, Places
    <3>2. Offered(req[r].key, req[r].ids)
      BY <3>1 DEF AtItsPlace, Offered
    <3> QED
      BY <3>1, <3>2, OfferedIds DEF Carries, AtItsPlace
  <2> QED
    BY <2>1, <2>2 DEF TypeOK, TInv
<1> QED
  BY <1>1, TypedAlways, PTL

\* merge, pick_trailer_candidates: whichever source answered first or failed, and
\* whether the answer comes from the cache or not, the best trailer comes first
\* and none comes twice.
THEOREM AlwaysRanked == Spec => []RankedAnswer
<1>1. IInv /\ TInv => RankedAnswer
  <2> SUFFICES ASSUME TInv, NEW r \in Request, req[r].pc = "answered"
               PROVE  LET k == req[r].key
                          ids == req[r].ids
                      IN  /\ IsInjective(ids)
                          /\ Len(ids) <= MaxProbe
                          /\ \/ ids = FirstOccurrences(Found[k])
                             \/ \A i, j \in 1 .. Len(ids) : i < j =>
                                   NotAfter(Standing(k, ids[i]), Standing(k, ids[j]))
    BY DEF RankedAnswer, NotAfter
  <2> DEFINE k == req[r].key
             ids == req[r].ids
  <2>1. k \in Key /\ Offered(k, ids)
    BY DEF TInv, Places, Carries, AtItsPlace
  <2> HIDE DEF k, ids
  <2>2. CASE ids = <<>>
    <3>1. IsInjective(<<>>) /\ Len(<<>>) = 0
      BY DEF IsInjective
    <3>2. MaxProbe \in Nat
      BY ResolveAssumption
    <3> QED
      BY <2>2, <3>1, <3>2 DEF k, ids
  <2>3. CASE ids = FirstOccurrences(Found[k])
    <3>1. Found[k] \in Seq(Range(Found[k]))
      BY <2>1, ResolveAssumption
    <3> QED
      BY <2>3, <3>1, NoRepetition DEF k, ids
  <2>4. CASE Joined(k, ids)
    BY <2>1, <2>4, JoinedByStanding DEF k, ids
  <2> QED
    BY <2>1, <2>2, <2>3, <2>4 DEF Offered
<1> QED
  BY <1>1, TypedAlways, PTL

\* Keyring::from_env, open, decode: a link sealed to a key the operator lists works
\* with the TMDB key it carries, any other one is refused, in every run of the
\* service and whatever malformed entries the list has.
THEOREM LinksAlwaysHonoured == Spec => []LinksHonoured
<1>1. IInv /\ TInv => LinksHonoured
  <2> SUFFICES ASSUME TInv, NEW r \in Request, req[r].pc # "idle",
                      req[r].link # NoLink, req[r].link.form = "sealed"
               PROVE  LET link == req[r].link
                          listed == env.configKey \in SecretKey
                             /\ link.to \in {env.configKey} \cup Range(env.configKeysPrev)
                      IN  /\ req[r].pc = "refused" <=> ~ listed \/ link.tmdbKey = ""
                          /\ req[r].pc # "refused" => KeyOf(link) = link.tmdbKey
    BY DEF LinksHonoured
  <2> DEFINE link == req[r].link
             listed == env.configKey \in SecretKey
                         /\ link.to \in {env.configKey} \cup Range(env.configKeysPrev)
  <2>1. link \in Link /\ (req[r].pc = "refused" <=> KeyOf(link) = NoConfig)
    BY KeyOfIn DEF TInv, Places, Carries, AtItsPlace
  <2>2. link.to \in SecretKey /\ link.tmdbKey # NoConfig
    <3>1. link \in Segment({l.tmdbKey : l \in Link} \ {NoConfig})
      BY <2>1, ResolveAssumption
    <3>2. link.form = "sealed"
      OBVIOUS
    <3> HIDE DEF link
    <3> QED
      BY <3>1, <3>2 DEF Segment
  <2>3. Opens(Ring, link) <=> listed
    BY <2>2 DEF Opens, Ring, FromEnv
  <2>4. KeyOf(link) = IF ~ listed THEN NoConfig ELSE Validate(link.tmdbKey)
    BY <2>1, <2>3, ResolveAssumption DEF KeyOf, Decode
  <2> HIDE DEF link, listed
  <2>5. /\ req[r].pc = "refused" <=> ~ listed \/ link.tmdbKey = ""
        /\ req[r].pc # "refused" => KeyOf(link) = link.tmdbKey
    BY <2>1, <2>2, <2>4 DEF Validate
  <2> QED
    BY <2>5 DEF link, listed
<1> QED
  BY <1>1, TypedAlways, PTL

-----------------------------------------------------------------------------
(* When an answer does not depend on who asked first.                       *)

\* Every link that is not refused has a key TMDB accepts, and so has the operator.
OneKindOfKey ==
    \A e \in Env, link \in Link \cup {NoLink} :
        KeyIn(e, link) \in ValidKey \cup {NoConfig}

HasTrailers(k) == Tmdb[k] # <<>>

\* A lookup for a title with TMDB trailers has yet to hear of them, has them, or
\* has been answered with some.
OnTrack(q) ==
    /\ q.pc \in {"idle", "joined", "answered", "refused"}
    /\ q.pc = "answered" => q.ids # <<>>
    /\ q.pc = "joined" => q.tmdb \in {"find", "videos"} \/ q.cand = Tmdb[q.key]

KInv ==
    /\ \A k \in Key : HasTrailers(k) /\ ytCache[k].left > 0 => ytCache[k].ids # <<>>
    /\ \A r \in Request : HasTrailers(req[r].key) => OnTrack(req[r])

LEMMA TrailersKnown ==
    ASSUME NEW k \in Key, HasTrailers(k)
    PROVE  k \in Known
<1> SUFFICES ASSUME Videos[k] = <<>> PROVE FALSE
  BY ResolveAssumption
<1> DEFINE vs == Videos[k]
           p == PickTrailerCandidates(vs)
<1>1. vs \in Seq(Range(vs)) /\ DOMAIN vs = {}
  <2>1. vs \in Seq(Range(vs))
    BY ResolveAssumption
  <2>2. DOMAIN << >> = {}
    OBVIOUS
  <2> QED
    BY <2>1, <2>2
<1>2. p = Tmdb[k] /\ p # <<>>
  BY DEF HasTrailers, Tmdb
<1>3. UsablePlaces(vs) = {}
  BY <1>1 DEF UsablePlaces
<1> HIDE DEF vs
<1>4. /\ Len(p) \in Nat /\ p \in Seq(Range(p))
      /\ \A n \in 1 .. Len(p) : BestPlace(vs, n) \in UsablePlaces(vs)
  BY <1>1, PickedByRank
<1> HIDE DEF p
<1>5. Len(p) # 0
  BY <1>2, <1>4, EmptySeq
<1>6. 1 \in 1 .. Len(p)
  BY <1>4, <1>5
<1>7. BestPlace(vs, 1) \in UsablePlaces(vs)
  BY <1>4, <1>6, Zenon
<1> QED
  BY <1>3, <1>7, Zenon

\* What FirstOccurrences makes of a list that is not empty is not empty.
LEMMA SomeLeft ==
    ASSUME NEW T, NEW s \in Seq(T), s # <<>>
    PROVE  FirstOccurrences(s) # <<>>
<1> DEFINE o == Once(s)
           last == IF Len(o) < MaxProbe THEN Len(o) ELSE MaxProbe
<1>1. Len(s) \in Nat /\ Len(s) # 0
  BY EmptySeq
<1>2. /\ Len(o) \in Nat /\ o \in Seq(T)
      /\ \A j \in 1 .. Len(s) : \E n \in 1 .. Len(o) : o[n] = s[j]
  BY OnceByFirstPlace
<1>3. FirstOccurrences(s) = SubSeq(o, 1, last)
  BY DEF FirstOccurrences
<1> HIDE DEF o
<1>4. \E n \in 1 .. Len(o) : TRUE
  BY <1>1, <1>2
<1>5. MaxProbe \in Nat \ {0}
  BY ResolveAssumption
<1>6. last \in Nat /\ 1 <= last /\ last <= Len(o)
  BY <1>2, <1>4, <1>5
<1> HIDE DEF last
<1>7. \A i \in 1 .. last : o[i] \in T
  BY <1>2, <1>6
<1>8. Len(SubSeq(o, 1, last)) = last - 1 + 1
  BY <1>6, <1>7, SubSeqProperties
<1>9. Len(SubSeq(o, 1, last)) # 0 /\ Len(<< >>) = 0
  BY <1>6, <1>8
<1> QED
  BY <1>3, <1>9

LEMMA JoinedSome ==
    ASSUME NEW k \in Key, HasTrailers(k), NEW e \in {<<>>, Kino[k]}
    PROVE  FirstOccurrences(Tmdb[k] \o e) # <<>>
<1> DEFINE c == Tmdb[k]
           T == Range(c) \cup Range(Kino[k])
<1>1. c \in Seq(Range(c)) /\ Kino[k] \in Seq(Range(Kino[k]))
  BY TmdbByStanding, ResolveAssumption
<1>2. c \in Seq(T) /\ e \in Seq(T)
  <2>1. \A s, A, B : s \in Seq(A) /\ A \subseteq B => s \in Seq(B)
    OBVIOUS
  <2> HIDE DEF c
  <2>2. c \in Seq(T) /\ Kino[k] \in Seq(T) /\ <<>> \in Seq(T)
    BY <1>1, <2>1
  <2> QED
    BY <2>2
<1>3. c # <<>>
  BY DEF HasTrailers
<1> HIDE DEF c, T
<1>4. c \o e \in Seq(T) /\ Len(c \o e) = Len(c) + Len(e)
  BY <1>2, ConcatProperties
<1>5. Len(c) \in Nat /\ Len(c) # 0 /\ Len(e) \in Nat
  BY <1>2, <1>3, EmptySeq
<1>6. Len(c \o e) # 0
  BY <1>4, <1>5
<1>7. c \o e # <<>>
  BY <1>6
<1> QED
  BY <1>4, <1>7, SomeLeft DEF c

LEMMA Moves ==
    ASSUME IInv, KInv, NEW r \in Request, NEW q, HasTrailers(q.key) => OnTrack(q),
           req' = [req EXCEPT ![r] = q], ytCache' = ytCache
    PROVE  KInv'
  BY DEF IInv, KInv

LEMMA StoresSome ==
    ASSUME IInv, KInv, NEW r \in Request, NEW q, q.key \in Key, NEW ids,
           HasTrailers(q.key) => ids # <<>>, Store(r, q, ids)
    PROVE  KInv'
<1> DEFINE e == [ids |-> ids, age |-> q.age,
                 left |-> IF ids = <<>> THEN YtNegTtl ELSE YtTtl]
           a == Answer(q.key, q.link, ids, q.age)
<1>1. ytCache' = [Swept EXCEPT ![q.key] = e] /\ req' = [req EXCEPT ![r] = a]
  BY DEF Store
<1>2. e.ids = ids /\ a.pc = "answered" /\ a.key = q.key /\ a.ids = ids
  BY DEF Answer, At
<1> HIDE DEF e, a
<1>3. HasTrailers(a.key) => OnTrack(a)
  BY <1>2 DEF OnTrack
<1>4. \A k \in Key : Swept[k] = ytCache[k] \/ Swept[k].left = 0
  BY NothingCached DEF Swept
<1>5. ASSUME NEW k \in Key, HasTrailers(k), ytCache'[k].left > 0
      PROVE  ytCache'[k].ids # <<>>
  <2>1. CASE k = q.key
    BY <1>1, <1>2, <1>5, <2>1, SweptOK
  <2>2. CASE k # q.key
    <3>1. ytCache'[k] = Swept[k]
      BY <1>1, <2>2, SweptOK
    <3> QED
      BY <1>4, <1>5, <3>1 DEF KInv
  <2> QED
    BY <2>1, <2>2
<1>6. \A s \in Request : HasTrailers(req'[s].key) => OnTrack(req'[s])
  BY <1>1, <1>3 DEF IInv, KInv
<1> QED
  BY <1>5, <1>6 DEF KInv

LEMMA JoinsOnTrack ==
    ASSUME IInv, KInv, NEW r \in Request, NEW q, Shaped(q), Carries(q), q.pc = "joined",
           HasTrailers(q.key) => OnTrack(q), JoinStep(r, q)
    PROVE  KInv'
<1> DEFINE ids == FirstOccurrences(q.cand \o q.extra)
<1>0. q.key \in Key /\ q.extra \in {<<>>, Kino[q.key]}
  BY DEF Carries
<1>1. CASE q.tmdb # "done" \/ q.kino # "done"
  BY <1>1, Moves DEF JoinStep
<1>2. CASE q.tmdb = "done" /\ q.kino = "done"
  <2>1. HasTrailers(q.key) => ids # <<>>
    <3> SUFFICES ASSUME HasTrailers(q.key) PROVE ids # <<>>
      OBVIOUS
    <3>1. q.cand = Tmdb[q.key]
      BY <1>2 DEF OnTrack
    <3> QED
      BY <1>0, <3>1, JoinedSome
  <2>2. CASE Store(r, q, ids)
    <3> HIDE DEF ids
    <3> QED
      BY <1>0, <2>1, <2>2, StoresSome
  <2>3. CASE /\ ids = <<>>
             /\ req' = [req EXCEPT ![r] = [q EXCEPT !.pc = "titling"]]
             /\ UNCHANGED ytCache
    <3> DEFINE p == [q EXCEPT !.pc = "titling"]
    <3>1. p.key = q.key
      BY DEF Shaped
    <3> HIDE DEF p
    <3>2. ~ HasTrailers(p.key)
      BY <2>1, <2>3, <3>1
    <3>3. req' = [req EXCEPT ![r] = p]
      BY <2>3 DEF p
    <3> QED
      BY <2>3, <3>2, <3>3, Moves
  <2> QED
    BY <1>2, <2>2, <2>3 DEF JoinStep
<1> QED
  BY <1>1, <1>2

\* With data from every call, and a key TMDB accepts.
LEMMA LookupOnTrack ==
    ASSUME End = {"data"}, OneKindOfKey, IInv, TInv, KInv,
           NEW r \in Request, LookupStep(r)
    PROVE  KInv'
<1> DEFINE q == req[r]
<1>0. Looks(q) => Shaped(q) /\ Carries(q) /\ Ending(q, env)
  BY OnItsWay
<1>1. HasTrailers(q.key) => OnTrack(q)
  BY DEF KInv
<1>2. Looks(q) => TmdbEnd(KeyOf(q.link)) = {"data"}
  <2> SUFFICES ASSUME Looks(q) PROVE TmdbEnd(KeyOf(q.link)) = {"data"}
    OBVIOUS
  <2>1. KeyIn(env, q.link) # NoConfig /\ q.link \in Link \cup {NoLink} /\ env \in Env
    BY <1>0 DEF Ending, Carries, TInv
  <2> HIDE DEF q
  <2>2. KeyOf(q.link) \in ValidKey
    BY <2>1, KeyOfIn DEF OneKindOfKey
  <2> QED
    BY <2>2 DEF TmdbEnd
<1>3. ASSUME NEW end, TmdbFind(r, end)
      PROVE  KInv'
  <2> DEFINE x == IF end = "data" /\ q.key \in Known THEN "videos" ELSE "done"
             p == [q EXCEPT !.tmdb = x]
  <2>1. Looks(q) /\ q.pc = "joined" /\ JoinStep(r, p) /\ end \in TmdbEnd(KeyOf(q.link))
    BY <1>3 DEF TmdbFind, Looks
  <2>2. Shaped(q) /\ Carries(q) /\ end = "data"
    BY <1>0, <1>2, <2>1
  <2>3. HasTrailers(q.key) => x = "videos"
    BY <2>2, TrailersKnown DEF Carries
  <2> HIDE DEF x
  <2>4. /\ Shaped(p) /\ p.pc = q.pc /\ p.key = q.key /\ p.link = q.link /\ p.tmdb = x
        /\ p.age = q.age /\ p.cand = q.cand /\ p.extra = q.extra
    BY <2>2 DEF Shaped
  <2> HIDE DEF p, q
  <2>5. Carries(p) /\ (HasTrailers(p.key) => OnTrack(p))
    BY <2>1, <2>2, <2>3, <2>4 DEF Carries, OnTrack
  <2> QED
    BY <2>1, <2>4, <2>5, JoinsOnTrack
<1>4. ASSUME NEW end, TmdbVideos(r, end)
      PROVE  KInv'
  <2> DEFINE x == IF end = "data" THEN Tmdb[q.key] ELSE <<>>
             o == [q EXCEPT !.tmdb = "done"]
             p == [q EXCEPT !.tmdb = "done", !.cand = x]
  <2>1. Looks(q) /\ q.pc = "joined" /\ JoinStep(r, p) /\ end \in TmdbEnd(KeyOf(q.link))
    BY <1>4 DEF TmdbVideos, Looks
  <2>2. Shaped(q) /\ Carries(q) /\ x = Tmdb[q.key]
    BY <1>0, <1>2, <2>1
  <2> HIDE DEF x
  <2>3. /\ Shaped(o) /\ o.pc = q.pc /\ o.key = q.key /\ o.link = q.link
        /\ o.age = q.age /\ o.extra = q.extra
    BY <2>2 DEF Shaped
  <2>4. p = [o EXCEPT !.cand = x]
    BY Zenon
  <2> HIDE DEF o, p
  <2>5. /\ Shaped(p) /\ p.pc = o.pc /\ p.key = o.key /\ p.link = o.link
        /\ p.age = o.age /\ p.cand = x /\ p.extra = o.extra
    BY <2>3, <2>4 DEF Shaped
  <2> HIDE DEF q
  <2>6. Carries(p) /\ (HasTrailers(p.key) => OnTrack(p))
    BY <2>1, <2>2, <2>3, <2>5 DEF Carries, OnTrack
  <2> QED
    BY <2>1, <2>3, <2>5, <2>6, JoinsOnTrack
<1>5. ASSUME NEW end, KinoCheck(r, end)
      PROVE  KInv'
  <2> DEFINE x == IF end = "data" THEN Kino[q.key] ELSE <<>>
             o == [q EXCEPT !.kino = "done"]
             p == [q EXCEPT !.kino = "done", !.extra = x]
  <2>1. Looks(q) /\ q.pc = "joined" /\ JoinStep(r, p)
    BY <1>5 DEF KinoCheck, Looks
  <2>2. Shaped(q) /\ Carries(q) /\ x \in {<<>>, Kino[q.key]}
    BY <1>0, <2>1
  <2> HIDE DEF x
  <2>3. /\ Shaped(o) /\ o.pc = q.pc /\ o.key = q.key /\ o.link = q.link
        /\ o.tmdb = q.tmdb /\ o.age = q.age /\ o.cand = q.cand
    BY <2>2 DEF Shaped
  <2>4. p = [o EXCEPT !.extra = x]
    BY Zenon
  <2> HIDE DEF o, p
  <2>5. /\ Shaped(p) /\ p.pc = o.pc /\ p.key = o.key /\ p.link = o.link
        /\ p.tmdb = o.tmdb /\ p.age = o.age /\ p.cand = o.cand /\ p.extra = x
    BY <2>3, <2>4 DEF Shaped
  <2> HIDE DEF q
  <2>6. Carries(p) /\ (HasTrailers(p.key) => OnTrack(p))
    BY <1>1, <2>1, <2>2, <2>3, <2>5 DEF Carries, OnTrack
  <2> QED
    BY <2>1, <2>3, <2>5, <2>6, JoinsOnTrack
\* The title is looked up, and the search made, for other titles only.
<1>6. ASSUME q.pc \in {"titling", "queued", "searching"}
      PROVE  Shaped(q) /\ q.key \in Key /\ ~ HasTrailers(q.key)
  BY <1>0, <1>1, <1>6 DEF Looks, OnTrack, Carries
<1>7. ASSUME NEW pc, q.pc \in {"titling", "queued", "searching"},
             req' = [req EXCEPT ![r].pc = pc], UNCHANGED ytCache
      PROVE  KInv'
  <2> DEFINE p == [q EXCEPT !.pc = pc]
  <2>1. p.key = q.key
    BY <1>6, <1>7 DEF Shaped
  <2>2. req' = [req EXCEPT ![r] = p]
    BY <1>7
  <2> HIDE DEF p
  <2>3. ~ HasTrailers(p.key)
    BY <1>6, <1>7, <2>1
  <2> QED
    BY <1>7, <2>2, <2>3, Moves
<1>8. ASSUME NEW ids, q.pc \in {"titling", "queued", "searching"}, Store(r, q, ids)
      PROVE  KInv'
  BY <1>6, <1>8, StoresSome
<1>9. ASSUME NEW end, TmdbTitle(r, end)
      PROVE  KInv'
  BY <1>7, <1>8, <1>9 DEF TmdbTitle
<1>10. CASE AcquireProbe(r) \/ Search(r)
  BY <1>7, <1>8, <1>10 DEF AcquireProbe, Search
<1> QED
  BY <1>3, <1>4, <1>5, <1>9, <1>10 DEF LookupStep

LEMMA KInvKept ==
    ASSUME End = {"data"}, OneKindOfKey, IInv, TInv, KInv, [Next]_rvars
    PROVE  KInv'
<1>1. ASSUME NEW r \in Request, NEW link \in Link \cup {NoLink}, Refuse(r, link)
      PROVE  KInv'
  <2> DEFINE q == At("refused", AnyKey, link, "done", "done", <<>>, 0)
  <2>1. q.pc = "refused"
    BY DEF At
  <2>2. req' = [req EXCEPT ![r] = q] /\ ytCache' = ytCache
    BY <1>1 DEF Refuse
  <2> HIDE DEF q
  <2>3. OnTrack(q)
    BY <2>1 DEF OnTrack
  <2> QED
    BY <2>2, <2>3, Moves
<1>2. ASSUME NEW r \in Request, NEW link \in Link \cup {NoLink}, NEW k \in Key,
             Hit(r, k, link)
      PROVE  KInv'
  <2> DEFINE q == Answer(k, link, ytCache[k].ids, ytCache[k].age)
  <2>1. q.pc = "answered" /\ q.key = k /\ q.ids = ytCache[k].ids
    BY DEF Answer, At
  <2>2. req' = [req EXCEPT ![r] = q] /\ ytCache' = ytCache /\ ytCache[k].left > 0
    BY <1>2 DEF Hit, Fresh
  <2> HIDE DEF q
  <2>3. HasTrailers(q.key) => OnTrack(q)
    BY <2>1, <2>2 DEF OnTrack, KInv
  <2> QED
    BY <2>2, <2>3, Moves
<1>3. ASSUME NEW r \in Request, NEW link \in Link \cup {NoLink}, NEW k \in Key,
             Miss(r, k, link)
      PROVE  KInv'
  <2> DEFINE tmdb == IF KeyOf(link) = "" THEN "done" ELSE "find"
             q == At("joined", k, link, tmdb, "asking", <<>>, 0)
  <2>1. KeyIn(env, link) # NoConfig /\ env \in Env
    BY <1>3, KeyOfIn DEF Miss, TInv
  <2>2. tmdb = "find"
    BY <2>1, KeyOfIn, ResolveAssumption DEF OneKindOfKey
  <2> HIDE DEF tmdb
  <2>3. q.pc = "joined" /\ q.tmdb = "find"
    BY <2>2 DEF At
  <2>4. req' = [req EXCEPT ![r] = q] /\ ytCache' = ytCache
    BY <1>3 DEF Miss, tmdb
  <2> HIDE DEF q
  <2>5. OnTrack(q)
    BY <2>3 DEF OnTrack
  <2> QED
    BY <2>4, <2>5, Moves
<1>i. OnTrack(Idle)
  <2>1. Idle.pc = "idle"
    BY DEF Idle, At
  <2> QED
    BY <2>1 DEF OnTrack
<1>4. ASSUME NEW r \in Request, Disconnect(r)
      PROVE  KInv'
  BY <1>4, <1>i, Moves DEF Disconnect
<1>5. ASSUME NEW e \in Env, Restart(e)
      PROVE  KInv'
  BY <1>5, <1>i, NothingCached DEF Restart, KInv
<1>6. CASE Tick
  <2>1. ASSUME NEW k \in Key, HasTrailers(k), ytCache'[k].left > 0
        PROVE  ytCache'[k].ids # <<>>
    <3>1. ytCache'[k] = IF Cached(k) THEN Older(ytCache[k]) ELSE NoEntry
      BY <1>6, <2>1 DEF Tick
    <3>2. Cached(k) /\ ytCache'[k] = Older(ytCache[k])
      BY <2>1, <3>1, NothingCached
    <3>3. ytCache'[k].ids = ytCache[k].ids
             /\ ytCache'[k].left = IF ytCache[k].left > 0 THEN ytCache[k].left - 1 ELSE 0
      BY <3>2 DEF Older
    <3>4. ytCache[k].left > 0
      BY <2>1, <3>3
    <3> QED
      BY <2>1, <3>3, <3>4 DEF KInv
  <2>2. ASSUME NEW r \in Request, HasTrailers(req'[r].key)
        PROVE  OnTrack(req'[r])
    <3> DEFINE q == req[r]
               p == [q EXCEPT !.age = @ + 1]
    <3>1. Shaped(q)
      BY DEF IInv, Requests, ReqOK
    <3>2. /\ p.pc = q.pc /\ p.key = q.key /\ p.tmdb = q.tmdb
          /\ p.cand = q.cand /\ p.ids = q.ids
      BY <3>1 DEF Shaped
    <3>3. req'[r] = q \/ req'[r] = p
      BY <1>6 DEF Tick
    <3> HIDE DEF p
    <3>4. HasTrailers(q.key)
      BY <2>2, <3>2, <3>3
    <3>5. OnTrack(q)
      BY <3>4 DEF KInv
    <3> QED
      BY <3>2, <3>3, <3>5 DEF OnTrack
  <2> QED
    BY <2>1, <2>2 DEF KInv
<1>7. CASE UNCHANGED rvars
  BY <1>7 DEF rvars, KInv
<1> QED
  BY <1>1, <1>2, <1>3, <1>4, <1>5, <1>6, <1>7, LookupOnTrack DEF Next

\* A shared entry depends on who asked first only where somebody resolves with a
\* key that TMDB refuses, or with none (the run that violates KeyIndependent has
\* such a link): if TMDB accepts the key of every request and no call fails, no
\* order of requests, expiries and restarts hides the trailers of a title
\* (resolve_youtube_ids).
THEOREM OnlyKeysHideTrailers ==
    ASSUME End = {"data"}, OneKindOfKey
    PROVE  Spec => []KeyIndependent
<1>1. Init => KInv
  <2>1. OnTrack(Idle)
    <3>1. Idle.pc = "idle"
      BY DEF Idle, At
    <3> QED
      BY <3>1 DEF OnTrack
  <2> QED
    BY <2>1, NothingCached DEF Init, KInv
<1>2. (IInv /\ TInv) /\ KInv /\ [Next]_rvars => KInv'
  BY KInvKept
<1>3. (IInv /\ TInv) /\ KInv => KeyIndependent
  BY DEF KInv, OnTrack, HasTrailers, KeyIndependent, TInv, Places, Carries
<1> QED
  BY <1>1, <1>2, <1>3, TypedAlways, PTL DEF Spec
=============================================================================
