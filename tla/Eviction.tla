------------------------------ MODULE Eviction ------------------------------
(***************************************************************************)
(* The bounded cache of den-reel (evict_if_needed and touch_atime in       *)
(* src/play.rs).  Every download evicts on a blocking thread right after   *)
(* it has published its file, so as many evictions can run at once as      *)
(* there are download permits, each on its own listing of the directory.   *)
(* The listing is not atomic: names are visited one by one.                *)
(***************************************************************************)
EXTENDS Integers, FiniteSets, FiniteSetsExt

CONSTANTS
    Vid,            \* YouTube ids
    NoVid,          \* "no id": not an element of Vid
    Evictor,        \* downloads that hold a permit at once
    Size,           \* bytes of the file of each id
    CacheMaxBytes,  \* cfg.cache_max_bytes
    MaxTime         \* bound: access times explored

ASSUME EvictionAssumption ==
    /\ IsFiniteSet(Vid) /\ NoVid \notin Vid /\ IsFiniteSet(Evictor)
    /\ Size \in [Vid -> Nat \ {0}]
    /\ CacheMaxBytes \in Nat
    /\ MaxTime \in Nat

VARIABLES
    cached,  \* the ids whose <vid>.mp4 exists
    atime,   \* access time of the file of each id, 0 without one
    clock,   \* the last access time given out
    ev,      \* the downloads that hold a permit
    missed,  \* history: files an eviction of this burst did not get to see
    stuck    \* history: files an eviction of this burst could not remove

evars == <<cached, atime, clock, ev, missed, stuck>>

\* stamp is the access time of the temp file, if any, todo what of the directory is not
\* yet visited, left the listing not yet worked off, total the bytes it still
\* counts; kept and alone are history: what it tried in vain to remove, and that
\* no other eviction has overlapped this one.
idle == [pc |-> "idle", vid |-> NoVid, stamp |-> 0, todo |-> {}, left |-> {},
         total |-> 0, kept |-> {}, alone |-> TRUE]

Bytes(V) == MapThenSumSet(LAMBDA v : Size[v], V)
Evicting == {e \in Evictor : ev[e].pc = "evicting"}

Init ==
    /\ cached = {}
    /\ atime = [v \in Vid |-> 0]
    /\ clock = 0
    /\ ev = [e \in Evictor |-> idle]
    /\ missed = {} /\ stuck = {}

\* A download of v gets a permit and writes its temp.  No other download of v
\* is under way (OneDownloadPerVid of FetchTrailer).
Download(e, v) ==
    /\ ev[e].pc = "idle"
    /\ \A f \in Evictor : ev[f].vid # v
    /\ clock < MaxTime
    /\ clock' = clock + 1
    /\ ev' = [ev EXCEPT ![e].pc = "downloading", ![e].vid = v,
                        ![e].stamp = clock + 1]
    /\ UNCHANGED <<cached, atime, missed, stuck>>

\* The download fails and releases its permit.
Fail(e) ==
    /\ ev[e].pc = "downloading"
    /\ ev' = [ev EXCEPT ![e] = idle]
    /\ UNCHANGED <<cached, atime, clock, missed, stuck>>

\* The rename: the file keeps the temp's access time, which may lie well before
\* those of files served meanwhile.
Publish(e) ==
    /\ ev[e].pc = "downloading"
    /\ cached' = cached \cup {ev[e].vid}
    /\ atime' = [atime EXCEPT ![ev[e].vid] = ev[e].stamp]
    /\ ev' = [f \in Evictor |->
                 IF f = e THEN [ev[e] EXCEPT !.pc = "evicting", !.stamp = 0,
                                             !.todo = Vid, !.alone = Evicting = {}]
                 ELSE [ev[f] EXCEPT !.alone = FALSE]]
    /\ missed' = missed \ {ev[e].vid}
    /\ stuck' = stuck \ {ev[e].vid}
    /\ UNCHANGED clock

\* Mutant of Touch: the access time is set ahead, to make the file last.
TouchAhead(v) ==
    /\ v \in cached
    /\ clock < MaxTime
    /\ clock' = clock + 1
    /\ atime' = [atime EXCEPT ![v] = clock + 2]
    /\ UNCHANGED <<cached, ev, missed, stuck>>

\* A warm call bumps the access time.
Touch(v) ==
    /\ v \in cached
    /\ clock < MaxTime
    /\ clock' = clock + 1
    /\ atime' = [atime EXCEPT ![v] = clock + 1]
    /\ UNCHANGED <<cached, ev, missed, stuck>>

\* A burst is a time in which evictions overlap: what is remembered of it goes
\* when e, the last of them, ends.
InBurst(e, S) == IF Evicting = {e} THEN {} ELSE S

\* The directory cannot be read: the eviction ends at once, and the file that
\* brought it about stays unseen.
NoListing(e) ==
    /\ ev[e].pc = "evicting" /\ ev[e].todo = Vid /\ ev[e].left = {}
    /\ missed' = InBurst(e, missed \cup {ev[e].vid})
    /\ stuck' = InBurst(e, stuck)
    /\ ev' = [ev EXCEPT ![e] = idle]
    /\ UNCHANGED <<cached, atime, clock>>

\* One name of the directory: a file that is there is listed with its size and
\* its access time, or the epoch if that cannot be had; a name without a file is
\* skipped.
ListFile(e, v) ==
    /\ v \in ev[e].todo
    /\ \E t \in {atime[v], 0} :
          ev' = [ev EXCEPT ![e].todo = @ \ {v},
                           ![e].left = IF v \in cached
                                       THEN @ \cup {[vid |-> v, atime |-> t]}
                                       ELSE @,
                           ![e].total = IF v \in cached THEN @ + Size[v] ELSE @]
    /\ UNCHANGED <<cached, atime, clock, missed, stuck>>

\* The entry or the metadata of a file that is there cannot be read: skipped.
MissFile(e, v) ==
    /\ v \in ev[e].todo \cap cached
    /\ missed' = missed \cup {v}
    /\ ev' = [ev EXCEPT ![e].todo = @ \ {v}]
    /\ UNCHANGED <<cached, atime, clock, stuck>>

\* Mutant of Oldest: the listing is worked off from the wrong end.
Newest(S) == {x \in S : \A y \in S : y.atime <= x.atime}

\* The front of the listing, sorted by the access time it recorded.
Oldest(S) == {x \in S : \A y \in S : x.atime <= y.atime}

\* Mutant of DeleteOldest: deletes until the total is below the cap.
DeleteAtCap(e) ==
    /\ ev[e].pc = "evicting" /\ ev[e].todo = {}
    /\ ev[e].total >= CacheMaxBytes
    /\ \E x \in Oldest(ev[e].left) :
          /\ cached' = cached \ {x.vid}
          /\ atime' = [atime EXCEPT ![x.vid] = 0]
          /\ ev' = [ev EXCEPT ![e].left = @ \ {x},
                              ![e].total = IF x.vid \in cached
                                           THEN @ - Size[x.vid] ELSE @]
    /\ UNCHANGED <<clock, missed, stuck>>

\* While the total is over the cap: remove the oldest file still listed.  Only
\* a removal that succeeds lowers the total, not that of a file already gone.
DeleteOldest(e) ==
    /\ ev[e].pc = "evicting" /\ ev[e].todo = {}
    /\ ev[e].total > CacheMaxBytes
    /\ \E x \in Oldest(ev[e].left) :
          /\ cached' = cached \ {x.vid}
          /\ atime' = [atime EXCEPT ![x.vid] = 0]
          /\ ev' = [ev EXCEPT ![e].left = @ \ {x},
                              ![e].total = IF x.vid \in cached
                                           THEN @ - Size[x.vid] ELSE @]
    /\ UNCHANGED <<clock, missed, stuck>>

\* Mutant of DeleteFails: the total is lowered whether or not the file went.
DeleteFailsCounted(e) ==
    /\ ev[e].pc = "evicting" /\ ev[e].todo = {}
    /\ ev[e].total > CacheMaxBytes
    /\ \E x \in Oldest(ev[e].left) :
          /\ x.vid \in cached
          /\ stuck' = stuck \cup {x.vid}
          /\ ev' = [ev EXCEPT ![e].left = @ \ {x}, ![e].kept = @ \cup {x.vid},
                              ![e].total = @ - Size[x.vid]]
    /\ UNCHANGED <<cached, atime, clock, missed>>

\* The oldest file cannot be removed: it stays, and counts, and the loop goes on
\* to the next.
DeleteFails(e) ==
    /\ ev[e].pc = "evicting" /\ ev[e].todo = {}
    /\ ev[e].total > CacheMaxBytes
    /\ \E x \in Oldest(ev[e].left) :
          /\ x.vid \in cached
          /\ stuck' = stuck \cup {x.vid}
          /\ ev' = [ev EXCEPT ![e].left = @ \ {x}, ![e].kept = @ \cup {x.vid}]
    /\ UNCHANGED <<cached, atime, clock, missed>>

\* The total is within the cap, or the listing is worked off.
Finish(e) ==
    /\ ev[e].pc = "evicting" /\ ev[e].todo = {}
    /\ ev[e].total <= CacheMaxBytes \/ ev[e].left = {}
    /\ missed' = InBurst(e, missed)
    /\ stuck' = InBurst(e, stuck)
    /\ ev' = [ev EXCEPT ![e] = idle]
    /\ UNCHANGED <<cached, atime, clock>>

\* The process dies: its evictions stop where they are, and a restart does not
\* evict.
Crash ==
    /\ ev' = [e \in Evictor |-> idle]
    /\ missed' = {} /\ stuck' = {}
    /\ UNCHANGED <<cached, atime, clock>>

Evict(e) ==
    \/ NoListing(e)
    \/ \E v \in Vid : ListFile(e, v) \/ MissFile(e, v)
    \/ DeleteOldest(e)
    \/ DeleteFails(e)
    \/ Finish(e)

Next ==
    \/ \E e \in Evictor :
          \/ \E v \in Vid : Download(e, v)
          \/ Fail(e)
          \/ Publish(e)
          \/ Evict(e)
    \/ \E v \in Vid : Touch(v)
    \/ Crash

Spec == Init /\ [][Next]_evars

-----------------------------------------------------------------------------
\* Every variable holds a value of its kind, and no access time is ahead of the
\* clock.
TypeOK ==
    /\ cached \subseteq Vid
    /\ atime \in [Vid -> 0 .. clock]
    /\ clock \in 0 .. MaxTime
    /\ missed \subseteq Vid /\ stuck \subseteq Vid
    /\ \A e \in Evictor :
          /\ ev[e].pc \in {"idle", "downloading", "evicting"}
          /\ ev[e].vid \in Vid \cup {NoVid}
          /\ ev[e].stamp \in 0 .. clock
          /\ ev[e].todo \subseteq Vid
          /\ ev[e].left \subseteq [vid : Vid, atime : 0 .. clock]
          /\ ev[e].total \in Nat
          /\ ev[e].kept \subseteq Vid

\* "Evict ... until under the size cap (bounded cache)" (evict_if_needed): when
\* an eviction has worked off its listing, what is cached is within the cap, but
\* for the files of evictions still under way and for those that evictions of
\* this burst could not see; or no removal of what is left has worked.  A burst
\* on stale listings overshoots by what it is just working off, a crash is put
\* right by the next eviction, and a file that cannot be removed costs the newer
\* ones their place.
BoundedCache ==
    [][\A e \in Evictor :
          Finish(e) =>
             LET rest == (cached \ {ev[f].vid : f \in Evicting \ {e}}) \ missed
             IN  Bytes(rest) <= CacheMaxBytes \/ rest \subseteq stuck]_evars

\* An eviction that no other overlapped removes a file only while the cache is
\* over its cap, whatever it could not list or remove.  Two that overlap may
\* remove more: a file that the other one removed first lowers no total, and the
\* loop goes on to the next.
AloneEvictsOnlyOverCap ==
    [][\A e \in Evictor, v \in Vid :
          DeleteOldest(e) /\ ev[e].alone /\ v \in cached \ cached' =>
              Bytes(cached) > CacheMaxBytes]_evars

\* Without another eviction, a file that goes was used no later than any that
\* stays and that could be seen and removed, if no call bumped its access time
\* after it was listed; calls on the other files meanwhile do no harm.
EvictsLeastRecent ==
    [][\A e \in Evictor, v \in Vid :
          /\ DeleteOldest(e) /\ ev[e].alone /\ v \in cached \ cached'
          /\ [vid |-> v, atime |-> atime[v]] \in ev[e].left
          => \A u \in cached \ (missed \cup stuck) : atime[v] <= atime[u]]_evars
=============================================================================
