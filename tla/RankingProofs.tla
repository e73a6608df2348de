--------------------------- MODULE RankingProofs ---------------------------
(***************************************************************************)
(* What Resolve's operators on lists of ids compute, for lists of every    *)
(* length: pick_trailer_candidates and the merge of resolve_youtube_ids.   *)
(* The invariants of ResolveProofs rest on PickedByRank, NoRepetition and  *)
(* JoinedByStanding.                                                       *)
(***************************************************************************)
EXTENDS Resolve, FiniteSetTheorems, SequenceTheorems, LeastNumber, TLAPS

\* A listing has every element once, in the order of the places.
LEMMA ListingOrdered ==
    ASSUME NEW S, IsFiniteSet(S), NEW place \in [S -> Nat],
           \A i, j \in S : place[i] = place[j] => i = j
    PROVE  LET N == Cardinality(S)
               L == Listing(S, place)
           IN  /\ N \in Nat
               /\ L \in [1 .. N -> S]
               /\ \A i \in S : \E n \in 1 .. N : L[n] = i
               /\ \A n, m \in 1 .. N : n < m => place[L[n]] < place[L[m]]
<1> DEFINE N == Cardinality(S)
           L == Listing(S, place)
           Upto(i) == {j \in S : place[j] <= place[i]}
           rank == [i \in S |-> Cardinality(Upto(i))]
           Nth(n) == CHOOSE i \in S : Cardinality(Upto(i)) = n
<1>1. N \in Nat
  BY FS_CardinalityType
<1>2. ASSUME NEW i \in S
      PROVE  /\ IsFiniteSet(Upto(i)) /\ Upto(i) \subseteq S /\ i \in Upto(i)
             /\ rank[i] = Cardinality(Upto(i))
             /\ rank[i] \in 1 .. N
  <2>1. Upto(i) \in SUBSET S /\ i \in Upto(i)
    OBVIOUS
  <2>2. IsFiniteSet(Upto(i)) /\ Cardinality(Upto(i)) <= N
    BY <2>1, FS_Subset
  <2>3. Cardinality(Upto(i)) \in Nat /\ Cardinality(Upto(i)) # 0
    BY <2>1, <2>2, FS_CardinalityType, FS_EmptySet
  <2>4. rank[i] = Cardinality(Upto(i))
    OBVIOUS
  <2> HIDE DEF Upto, rank, N
  <2> QED
    BY <1>1, <2>1, <2>2, <2>3, <2>4
<1>3. ASSUME NEW i \in S, NEW j \in S, place[i] < place[j]
      PROVE  rank[i] < rank[j]
  <2>1. Upto(i) \in SUBSET Upto(j) /\ j \notin Upto(i)
    BY <1>3
  <2>2. IsFiniteSet(Upto(j)) /\ j \in Upto(j)
    BY <1>2
  <2>3. /\ Cardinality(Upto(i)) <= Cardinality(Upto(j))
        /\ Cardinality(Upto(i)) # Cardinality(Upto(j))
    BY <2>1, <2>2, FS_Subset
  <2>4. /\ rank[i] = Cardinality(Upto(i)) /\ rank[i] \in 1 .. N
        /\ rank[j] = Cardinality(Upto(j)) /\ rank[j] \in 1 .. N
    BY <1>2
  <2> HIDE DEF Upto, rank, N
  <2> QED
    BY <2>3, <2>4
<1>4. ASSUME NEW i \in S, NEW j \in S, rank[i] = rank[j]
      PROVE  i = j
  <2>1. place[i] \in Nat /\ place[j] \in Nat
    OBVIOUS
  <2>2. rank[i] \in 1 .. N /\ rank[j] \in 1 .. N
    BY <1>2
  <2>3. ~ (place[i] < place[j]) /\ ~ (place[j] < place[i])
    <3> HIDE DEF rank, N
    <3> QED
      BY <1>3, <1>4, <2>2
  <2> QED
    BY <2>1, <2>3
<1>5. rank \in Injection(S, 1 .. N)
  <2>1. rank \in [S -> 1 .. N]
    <3>1. rank = [i \in S |-> rank[i]]
      OBVIOUS
    <3> HIDE DEF rank, N
    <3> QED
      BY <1>2, <3>1
  <2> HIDE DEF rank, N
  <2> QED
    BY <1>4, <2>1 DEF Injection, IsInjective
<1>6. \A n \in 1 .. N : \E i \in S : rank[i] = n
  <2>1. IsFiniteSet(1 .. N) /\ Cardinality(1 .. N) = N
    <3> HIDE DEF N
    <3>1. CASE N = 0
      BY <3>1, FS_Interval
    <3>2. CASE N > 0
      BY <1>1, <3>2, FS_Interval
    <3> QED
      BY <1>1, <3>1, <3>2
  <2>2. rank \in Surjection(S, 1 .. N)
    <3>1. Cardinality(S) = Cardinality(1 .. N)
      BY <2>1
    <3> HIDE DEF rank, N
    <3> QED
      BY <1>5, <2>1, <3>1, FS_Injection
  <2> HIDE DEF rank, N
  <2> QED
    BY <2>2 DEF Surjection
<1>a. L = [n \in 1 .. N |-> Nth(n)]
  BY DEF Listing
<1>7. ASSUME NEW n \in 1 .. N
      PROVE  Nth(n) \in S /\ rank[Nth(n)] = n /\ L[n] = Nth(n)
  <2>1. \E i \in S : Cardinality(Upto(i)) = n
    BY <1>2, <1>6
  <2>2. Nth(n) \in S /\ Cardinality(Upto(Nth(n))) = n
    <3> HIDE DEF Upto
    <3> QED
      BY <2>1
  <2>3. L[n] = Nth(n)
    <3> HIDE DEF L, Nth, N
    <3> QED
      BY <1>a
  <2> HIDE DEF Nth, L
  <2> QED
    BY <1>2, <2>2, <2>3
<1>8. L \in [1 .. N -> S]
  <2> HIDE DEF L, N, Nth
  <2> QED
    BY <1>7, <1>a
<1>9. ASSUME NEW i \in S
      PROVE  \E n \in 1 .. N : L[n] = i
  <2>1. rank[i] \in 1 .. N
    BY <1>2
  <2> HIDE DEF rank, L, N, Nth
  <2>2. Nth(rank[i]) \in S /\ rank[Nth(rank[i])] = rank[i] /\ L[rank[i]] = Nth(rank[i])
    BY <1>7, <2>1
  <2>3. Nth(rank[i]) = i
    BY <1>4, <2>2
  <2> QED
    BY <2>1, <2>2, <2>3
<1>10. ASSUME NEW n \in 1 .. N, NEW m \in 1 .. N, n < m
       PROVE  place[L[n]] < place[L[m]]
  <2>1. /\ L[n] \in S /\ rank[L[n]] = n
        /\ L[m] \in S /\ rank[L[m]] = m
    BY <1>7
  <2>2. place[L[n]] \in Nat /\ place[L[m]] \in Nat
    BY <2>1
  <2>3. n \in Nat /\ m \in Nat
    BY <1>1
  <2>4. ~ (place[L[m]] < place[L[n]]) /\ place[L[m]] # place[L[n]]
    <3> HIDE DEF rank, L, N
    <3> QED
      BY <1>3, <1>10, <2>1, <2>3
  <2> HIDE DEF rank, L, N
  <2> QED
    BY <2>2, <2>4
<1> HIDE DEF L, N
<1> QED
  BY <1>1, <1>8, <1>9, <1>10 DEF L, N

FirstPlaces(s) ==
    LET first == {i \in DOMAIN s : \A j \in DOMAIN s : s[j] = s[i] => i <= j}
    IN  Listing(first, [i \in first |-> i])

\* A list without its repetitions: every element once, in the order of the places
\* where the elements first stand.
LEMMA OnceByFirstPlace ==
    ASSUME NEW T, NEW s \in Seq(T)
    PROVE  LET at == FirstPlaces(s)
               o == Once(s)
           IN  /\ Len(o) \in Nat
               /\ o \in Seq(T)
               /\ at \in [1 .. Len(o) -> 1 .. Len(s)]
               /\ \A n \in 1 .. Len(o) :
                     /\ o[n] = s[at[n]]
                     /\ \A j \in 1 .. Len(s) : s[j] = o[n] => at[n] <= j
               /\ \A n, m \in 1 .. Len(o) : n < m => at[n] < at[m] /\ o[n] # o[m]
               /\ \A j \in 1 .. Len(s) : \E n \in 1 .. Len(o) : o[n] = s[j]
<1> DEFINE first == {i \in DOMAIN s : \A j \in DOMAIN s : s[j] = s[i] => i <= j}
           id == [i \in first |-> i]
           at == FirstPlaces(s)
           N == Cardinality(first)
           o == Once(s)
<1>0. DOMAIN s = 1 .. Len(s) /\ Len(s) \in Nat /\ \A i \in 1 .. Len(s) : s[i] \in T
  OBVIOUS
<1>1. IsFiniteSet(first) /\ first \in SUBSET (1 .. Len(s)) /\ first \in SUBSET Nat
  <2>1. IsFiniteSet(1 .. Len(s))
    BY <1>0, FS_Interval
  <2>2. first \in SUBSET (1 .. Len(s))
    BY <1>0
  <2> HIDE DEF first
  <2>3. IsFiniteSet(first)
    BY <2>1, <2>2, FS_Subset
  <2> QED
    BY <1>0, <2>2, <2>3
<1>2. id \in [first -> Nat] /\ \A i \in first : id[i] = i
  <2> HIDE DEF first
  <2> QED
    BY <1>1
<1>3. at = Listing(first, id)
  BY DEF FirstPlaces
<1>4. /\ N \in Nat
      /\ at \in [1 .. N -> first]
      /\ \A i \in first : \E n \in 1 .. N : at[n] = i
      /\ \A n, m \in 1 .. N : n < m => id[at[n]] < id[at[m]]
  <2>1. \A i, j \in first : id[i] = id[j] => i = j
    <3> HIDE DEF first, id
    <3> QED
      BY <1>2
  <2> HIDE DEF first, id, at
  <2> QED
    BY <1>1, <1>2, <1>3, <2>1, ListingOrdered
<1>5. o = [n \in 1 .. N |-> s[at[n]]]
  <2>1. o = [n \in DOMAIN at |-> s[at[n]]]
    BY DEF Once, FirstPlaces
  <2>2. DOMAIN at = 1 .. N
    BY <1>4
  <2> HIDE DEF o, at, N
  <2> QED
    BY <2>1, <2>2
<1>6. /\ \A n \in 1 .. N : at[n] \in first /\ at[n] \in 1 .. Len(s)
      /\ at \in [1 .. N -> 1 .. Len(s)]
  <2> HIDE DEF first, at, N
  <2> QED
    BY <1>1, <1>4
<1>7. o \in Seq(T) /\ Len(o) = N /\ \A n \in 1 .. N : o[n] = s[at[n]]
  <2> HIDE DEF o, at, N, first
  <2> QED
    BY <1>0, <1>4, <1>5, <1>6
<1>8. ASSUME NEW n \in 1 .. N, NEW j \in 1 .. Len(s), s[j] = o[n]
      PROVE  at[n] <= j
  <2>1. at[n] \in first /\ s[j] = s[at[n]]
    <3> HIDE DEF o, at, N, first
    <3> QED
      BY <1>6, <1>7, <1>8
  <2>2. \A i \in first : s[j] = s[i] => i <= j
    BY <1>0
  <2> HIDE DEF o, at, N, first
  <2> QED
    BY <2>1, <2>2
<1>9. ASSUME NEW n \in 1 .. N, NEW m \in 1 .. N, n < m
      PROVE  at[n] < at[m] /\ o[n] # o[m]
  <2>1. at[n] < at[m]
    <3> HIDE DEF at, N, first, id
    <3> QED
      BY <1>2, <1>4, <1>6, <1>9
  <2>2. at[n] \in 1 .. Len(s) /\ at[m] \in 1 .. Len(s) /\ o[n] = s[at[n]]
    <3> HIDE DEF o, at, N, first
    <3> QED
      BY <1>6, <1>7
  <2>3. o[n] # o[m]
    <3> SUFFICES ASSUME o[n] = o[m] PROVE FALSE
      OBVIOUS
    <3>1. at[m] <= at[n]
      <4> HIDE DEF o, at, N, first
      <4> QED
        BY <1>8, <2>2
    <3> HIDE DEF o, at, N, first
    <3> QED
      BY <1>0, <2>1, <2>2, <3>1
  <2> QED
    BY <2>1, <2>3
<1>10. ASSUME NEW j \in 1 .. Len(s)
       PROVE  \E n \in 1 .. N : o[n] = s[j]
  <2> DEFINE same == {i \in 1 .. Len(s) : s[i] = s[j]}
  <2>1. same \in SUBSET Nat /\ same # {}
    BY <1>0
  <2>2. PICK i \in same : \A k \in same : i <= k
    <3> HIDE DEF same
    <3> QED
      BY <2>1, LeastNat
  <2>3. i \in first /\ s[i] = s[j]
    BY <1>0, <2>2
  <2> HIDE DEF o, at, N, first, same
  <2> QED
    BY <1>4, <1>7, <2>3
<1> HIDE DEF o, at, N, first
<1> QED
  BY <1>4, <1>6, <1>7, <1>8, <1>9, <1>10 DEF o, at

\* A rank and a position in one number.
LEMMA PlacesCompare ==
    ASSUME NEW N \in Nat, NEW i \in 1 .. N, NEW j \in 1 .. N,
           NEW r \in 0 .. 3, NEW q \in 0 .. 3
    PROVE  /\ r * N + i \in Nat
           /\ r * N + i <= q * N + j <=> r < q \/ (r = q /\ i <= j)
           /\ r * N + i = q * N + j => i = j
<1>1. r \in {0, 1, 2, 3} /\ q \in {0, 1, 2, 3}
  OBVIOUS
<1>2. CASE r = 0
  BY <1>1, <1>2
<1>3. CASE r = 1
  BY <1>1, <1>3
<1>4. CASE r = 2
  BY <1>1, <1>4
<1>5. CASE r = 3
  BY <1>1, <1>5
<1> QED
  BY <1>1, <1>2, <1>3, <1>4, <1>5

LEMMA Ranks == \A v : RankOf(v) \in 0 .. 3
  BY DEF RankOf

UsablePlaces(videos) == {i \in DOMAIN videos : Usable(videos[i])}
Place(videos) ==
    [i \in UsablePlaces(videos) |-> RankOf(videos[i]) * Len(videos) + i]
Sorted(videos) == Listing(UsablePlaces(videos), Place(videos))
SortedKeys(videos) ==
    [n \in DOMAIN Sorted(videos) |-> videos[Sorted(videos)[n]].key]

\* Where, in what TMDB lists, the n-th candidate stands.
BestPlace(videos, n) == Sorted(videos)[FirstPlaces(SortedKeys(videos))[n]]

\* One entry before another.
Ahead(videos, i, j) ==
    \/ RankOf(videos[i]) < RankOf(videos[j])
    \/ RankOf(videos[i]) = RankOf(videos[j]) /\ i <= j

LEMMA SortedByRank ==
    ASSUME NEW T, NEW videos \in Seq(T)
    PROVE  LET N == Cardinality(UsablePlaces(videos))
               yt == Sorted(videos)
           IN  /\ N \in Nat
               /\ yt \in [1 .. N -> UsablePlaces(videos)]
               /\ \A i \in UsablePlaces(videos) : \E n \in 1 .. N : yt[n] = i
               /\ \A n, m \in 1 .. N : n <= m => Ahead(videos, yt[n], yt[m])
<1> DEFINE U == UsablePlaces(videos)
           N == Cardinality(U)
           place == Place(videos)
           yt == Sorted(videos)
<1>1. U \in SUBSET (1 .. Len(videos)) /\ Len(videos) \in Nat
  BY DEF UsablePlaces
<1>2. IsFiniteSet(U)
  <2>1. IsFiniteSet(1 .. Len(videos))
    BY <1>1, FS_Interval
  <2> HIDE DEF U
  <2> QED
    BY <1>1, <2>1, FS_Subset
<1>3. \A i \in U : place[i] = RankOf(videos[i]) * Len(videos) + i
  BY DEF Place
<1>4. ASSUME NEW i \in U, NEW j \in U
      PROVE  /\ place[i] \in Nat
             /\ place[i] <= place[j] <=> Ahead(videos, i, j)
             /\ place[i] = place[j] => i = j
  <2>1. i \in 1 .. Len(videos) /\ j \in 1 .. Len(videos)
    BY <1>1
  <2>2. RankOf(videos[i]) \in 0 .. 3 /\ RankOf(videos[j]) \in 0 .. 3
    BY Ranks
  <2> HIDE DEF U, place
  <2> QED
    BY <1>1, <1>3, <2>1, <2>2, PlacesCompare DEF Ahead
<1>5. place \in [U -> Nat]
  <2>1. place = [i \in U |-> RankOf(videos[i]) * Len(videos) + i]
    BY DEF Place
  <2>2. \A i \in U : RankOf(videos[i]) * Len(videos) + i \in Nat
    <3> HIDE DEF U, place
    <3> QED
      BY <1>3, <1>4
  <2> HIDE DEF U, place
  <2> QED
    BY <2>1, <2>2
<1>6. yt = Listing(U, place)
  BY DEF Sorted
<1> HIDE DEF U, place, yt
<1>7. /\ N \in Nat
      /\ yt \in [1 .. N -> U]
      /\ \A i \in U : \E n \in 1 .. N : yt[n] = i
      /\ \A n, m \in 1 .. N : n < m => place[yt[n]] < place[yt[m]]
  BY <1>2, <1>4, <1>5, <1>6, ListingOrdered
<1> HIDE DEF N
<1>8. ASSUME NEW n \in 1 .. N, NEW m \in 1 .. N, n <= m
      PROVE  Ahead(videos, yt[n], yt[m])
  <2>1. yt[n] \in U /\ yt[m] \in U
    BY <1>7
  <2>2. place[yt[n]] \in Nat /\ place[yt[m]] \in Nat
    BY <1>4, <2>1
  <2>3. n \in Nat /\ m \in Nat
    BY <1>7
  <2>4. place[yt[n]] <= place[yt[m]]
    <3>1. CASE n = m
      BY <2>2, <3>1
    <3>2. CASE n < m
      BY <1>7, <2>2, <3>2
    <3> QED
      BY <1>8, <2>3, <3>1, <3>2
  <2> QED
    BY <1>4, <2>1, <2>4
<1> QED
  BY <1>7, <1>8 DEF U, N, yt

\* pick_trailer_candidates: every usable key once, by its best entry.
THEOREM PickedByRank ==
    ASSUME NEW T, NEW videos \in Seq(T)
    PROVE  LET p == PickTrailerCandidates(videos)
           IN  /\ Len(p) \in Nat /\ p \in Seq(Range(p))
               /\ \A n \in 1 .. Len(p) :
                     LET i == BestPlace(videos, n)
                     IN  /\ i \in UsablePlaces(videos)
                         /\ videos[i].key = p[n]
                         /\ \A j \in UsablePlaces(videos) :
                               videos[j].key = p[n] => Ahead(videos, i, j)
               /\ \A n, m \in 1 .. Len(p) : n < m =>
                     Ahead(videos, BestPlace(videos, n), BestPlace(videos, m))
               /\ \A j \in UsablePlaces(videos) :
                     \E n \in 1 .. Len(p) : p[n] = videos[j].key
<1> DEFINE U == UsablePlaces(videos)
           N == Cardinality(U)
           yt == Sorted(videos)
           ks == SortedKeys(videos)
           at == FirstPlaces(ks)
           p == PickTrailerCandidates(videos)
           K == {videos[i].key : i \in U}
<1>1. /\ N \in Nat
      /\ yt \in [1 .. N -> U]
      /\ \A i \in U : \E n \in 1 .. N : yt[n] = i
      /\ \A n, m \in 1 .. N : n <= m => Ahead(videos, yt[n], yt[m])
  BY SortedByRank
<1>2. p = Once(ks)
  BY DEF PickTrailerCandidates, SortedKeys, Sorted, Place, UsablePlaces
<1>3. ks = [n \in 1 .. N |-> videos[yt[n]].key]
  <2>1. ks = [n \in DOMAIN yt |-> videos[yt[n]].key]
    BY DEF SortedKeys
  <2>2. DOMAIN yt = 1 .. N
    BY <1>1
  <2> HIDE DEF ks, yt, N
  <2> QED
    BY <2>1, <2>2
<1>a. \A n \in 1 .. N : yt[n] \in U /\ videos[yt[n]].key \in K
  <2>1. \A i \in U : videos[i].key \in K
    OBVIOUS
  <2> HIDE DEF U, K, N, yt
  <2> QED
    BY <1>1, <2>1
<1>4. ks \in Seq(K) /\ Len(ks) = N /\ \A n \in 1 .. N : ks[n] = videos[yt[n]].key
  <2> HIDE DEF U, K, N, yt, ks
  <2> QED
    BY <1>1, <1>3, <1>a
<1>5. /\ Len(p) \in Nat
      /\ p \in Seq(K)
      /\ at \in [1 .. Len(p) -> 1 .. N]
      /\ \A n \in 1 .. Len(p) :
            p[n] = ks[at[n]] /\ \A j \in 1 .. N : ks[j] = p[n] => at[n] <= j
      /\ \A n, m \in 1 .. Len(p) : n < m => at[n] < at[m]
      /\ \A j \in 1 .. N : \E n \in 1 .. Len(p) : p[n] = ks[j]
  <2> HIDE DEF U, K, N, yt, ks, p, at
  <2>1. LET o == Once(ks)
            a == FirstPlaces(ks)
        IN  /\ Len(o) \in Nat
            /\ o \in Seq(K)
            /\ a \in [1 .. Len(o) -> 1 .. Len(ks)]
            /\ \A n \in 1 .. Len(o) :
                  /\ o[n] = ks[a[n]]
                  /\ \A j \in 1 .. Len(ks) : ks[j] = o[n] => a[n] <= j
            /\ \A n, m \in 1 .. Len(o) : n < m => a[n] < a[m] /\ o[n] # o[m]
            /\ \A j \in 1 .. Len(ks) : \E n \in 1 .. Len(o) : o[n] = ks[j]
    BY <1>4, OnceByFirstPlace
  <2> QED
    BY <1>2, <1>4, <2>1 DEF at
<1>6. \A n : BestPlace(videos, n) = yt[at[n]]
  BY DEF BestPlace
<1> HIDE DEF U, K, N, yt, ks, p, at
<1>7. ASSUME NEW n \in 1 .. Len(p)
      PROVE  LET i == yt[at[n]]
             IN  /\ i \in U /\ videos[i].key = p[n]
                 /\ \A j \in U : videos[j].key = p[n] => Ahead(videos, i, j)
  <2>1. at[n] \in 1 .. N /\ yt[at[n]] \in U /\ videos[yt[at[n]]].key = p[n]
    BY <1>4, <1>5, <1>a
  <2>2. ASSUME NEW j \in U, videos[j].key = p[n]
        PROVE  Ahead(videos, yt[at[n]], j)
    <3>1. PICK m \in 1 .. N : yt[m] = j
      BY <1>1
    <3>2. at[n] <= m
      BY <1>4, <1>5, <2>2, <3>1
    <3> QED
      BY <1>1, <2>1, <3>1, <3>2
  <2> QED
    BY <2>1, <2>2
<1>8. ASSUME NEW n \in 1 .. Len(p), NEW m \in 1 .. Len(p), n < m
      PROVE  Ahead(videos, yt[at[n]], yt[at[m]])
  <2>1. at[n] \in 1 .. N /\ at[m] \in 1 .. N /\ at[n] < at[m]
    BY <1>5, <1>8
  <2>2. at[n] <= at[m]
    BY <1>1, <2>1
  <2> QED
    BY <1>1, <2>1, <2>2
<1>9. ASSUME NEW j \in U
      PROVE  \E n \in 1 .. Len(p) : p[n] = videos[j].key
  <2>1. PICK m \in 1 .. N : yt[m] = j
    BY <1>1
  <2>2. ks[m] = videos[j].key
    BY <1>4, <2>1
  <2> QED
    BY <1>5, <2>2
<1>10. p \in Seq(Range(p))
  <2>1. DOMAIN p = 1 .. Len(p) /\ p = [n \in 1 .. Len(p) |-> p[n]]
    BY <1>5
  <2>2. \A n \in 1 .. Len(p) : p[n] \in Range(p)
    BY <2>1 DEF Range
  <2> QED
    BY <1>5, <2>1, <2>2
<1>11. ASSUME NEW n \in 1 .. Len(p)
       PROVE  LET i == BestPlace(videos, n)
              IN  /\ i \in U /\ videos[i].key = p[n]
                  /\ \A j \in U : videos[j].key = p[n] => Ahead(videos, i, j)
  BY <1>6, <1>7
<1>12. ASSUME NEW n \in 1 .. Len(p), NEW m \in 1 .. Len(p), n < m
       PROVE  Ahead(videos, BestPlace(videos, n), BestPlace(videos, m))
  <2>1. BestPlace(videos, n) = yt[at[n]] /\ BestPlace(videos, m) = yt[at[m]]
    BY <1>6
  <2> QED
    BY <1>8, <1>12, <2>1
<1>13. Len(p) \in Nat
  BY <1>5
<1> QED
  BY <1>9, <1>10, <1>11, <1>12, <1>13 DEF U, p

NotAfter(p, o) == p.rank < o.rank \/ (p.rank = o.rank /\ p.at <= o.at)

\* The standing of an id is the place of its best entry.
LEMMA StandingOfBest ==
    ASSUME NEW k \in Key, NEW id, NEW i \in UsablePlaces(Videos[k]),
           Videos[k][i].key = id,
           \A j \in UsablePlaces(Videos[k]) :
              Videos[k][j].key = id => Ahead(Videos[k], i, j)
    PROVE  Standing(k, id) = [rank |-> RankOf(Videos[k][i]), at |-> i]
<1> DEFINE vs == Videos[k]
           Pos(n) == [rank |-> RankOf(vs[n]), at |-> n]
           pos == {Pos(n) : n \in {m \in DOMAIN vs : Usable(vs[m]) /\ vs[m].key = id}}
           best == Pos(i)
           Least(p) == \A o \in pos : p.rank < o.rank \/ (p.rank = o.rank /\ p.at <= o.at)
<1>0. DOMAIN vs = 1 .. Len(vs) /\ Len(vs) \in Nat
  <2>1. vs \in Seq(Range(vs))
    BY ResolveAssumption
  <2> HIDE DEF vs
  <2> QED
    BY <2>1
<1>1. best \in pos
  BY DEF UsablePlaces
<1>2. Least(best)
  BY DEF UsablePlaces, Ahead
<1>3. \A p \in pos : p.rank \in 0 .. 3 /\ p.at \in Nat /\ p = [rank |-> p.rank, at |-> p.at]
  BY <1>0, Ranks
<1>4. Standing(k, id) = IF pos = {} THEN [rank |-> 4, at |-> 0]
                        ELSE CHOOSE p \in pos : Least(p)
  BY DEF Standing
<1>5. PICK c \in pos : Least(c) /\ Standing(k, id) = c
  <2> HIDE DEF pos, best, Least
  <2> QED
    BY <1>1, <1>2, <1>4
<1>6. /\ c.rank < best.rank \/ (c.rank = best.rank /\ c.at <= best.at)
      /\ best.rank < c.rank \/ (best.rank = c.rank /\ best.at <= c.at)
  BY <1>1, <1>2, <1>5
<1>7. /\ best.rank \in 0 .. 3 /\ best.at \in Nat /\ c.rank \in 0 .. 3 /\ c.at \in Nat
      /\ best = [rank |-> best.rank, at |-> best.at] /\ c = [rank |-> c.rank, at |-> c.at]
  <2> HIDE DEF pos, best
  <2> QED
    BY <1>1, <1>3
<1>8. c = best
  <2> HIDE DEF best, pos, Least
  <2>1. c.rank = best.rank /\ c.at = best.at
    BY <1>6, <1>7
  <2> QED
    BY <1>7, <2>1
<1> QED
  BY <1>5, <1>8

LEMMA StandingUnlisted ==
    ASSUME NEW k \in Key, NEW id,
           \A j \in UsablePlaces(Videos[k]) : Videos[k][j].key # id
    PROVE  Standing(k, id).rank = 4
<1>1. Standing(k, id) = [rank |-> 4, at |-> 0]
  BY DEF Standing, UsablePlaces
<1> QED
  BY <1>1

\* The candidates of TMDB come by their standings.
LEMMA TmdbByStanding ==
    ASSUME NEW k \in Key
    PROVE  LET c == Tmdb[k]
           IN  /\ c \in Seq(Range(c)) /\ Len(c) \in Nat
               /\ \A n \in 1 .. Len(c) : Standing(k, c[n]).rank \in 0 .. 3
               /\ \A n, m \in 1 .. Len(c) : n < m =>
                     NotAfter(Standing(k, c[n]), Standing(k, c[m]))
               /\ \A id : id \notin Range(c) => Standing(k, id).rank = 4
<1> DEFINE vs == Videos[k]
           c == Tmdb[k]
<1>0. vs \in Seq(Range(vs))
  BY ResolveAssumption
<1>1. c = PickTrailerCandidates(vs)
  BY DEF Tmdb
<1>2. /\ Len(c) \in Nat /\ c \in Seq(Range(c))
      /\ \A n \in 1 .. Len(c) :
            LET i == BestPlace(vs, n)
            IN  /\ i \in UsablePlaces(vs)
                /\ vs[i].key = c[n]
                /\ \A j \in UsablePlaces(vs) : vs[j].key = c[n] => Ahead(vs, i, j)
      /\ \A n, m \in 1 .. Len(c) : n < m =>
            Ahead(vs, BestPlace(vs, n), BestPlace(vs, m))
      /\ \A j \in UsablePlaces(vs) : \E n \in 1 .. Len(c) : c[n] = vs[j].key
  <2> HIDE DEF c, vs
  <2> QED
    BY <1>0, <1>1, PickedByRank
<1>3. ASSUME NEW n \in 1 .. Len(c)
      PROVE  Standing(k, c[n]) = [rank |-> RankOf(vs[BestPlace(vs, n)]),
                                  at |-> BestPlace(vs, n)]
  <2> HIDE DEF c
  <2> QED
    BY <1>2, StandingOfBest
<1>4. ASSUME NEW id, id \notin Range(c)
      PROVE  Standing(k, id).rank = 4
  <2> HIDE DEF c
  <2>1. \A n \in 1 .. Len(c) : c[n] # id
    BY <1>2, <1>4 DEF Range
  <2> QED
    BY <1>2, <2>1, StandingUnlisted
<1> HIDE DEF c, vs
<1>5. ASSUME NEW n \in 1 .. Len(c)
      PROVE  /\ Standing(k, c[n]).rank = RankOf(vs[BestPlace(vs, n)])
             /\ Standing(k, c[n]).at = BestPlace(vs, n)
             /\ Standing(k, c[n]).rank \in 0 .. 3
  <2>1. /\ Standing(k, c[n]).rank = RankOf(vs[BestPlace(vs, n)])
        /\ Standing(k, c[n]).at = BestPlace(vs, n)
    <3> DEFINE st == Standing(k, c[n])
               rk == RankOf(vs[BestPlace(vs, n)])
               at == BestPlace(vs, n)
    <3>1. st = [rank |-> rk, at |-> at]
      BY <1>3
    <3> HIDE DEF st, rk, at
    <3>2. st.rank = rk /\ st.at = at
      BY <3>1
    <3> QED
      BY <3>2 DEF st, rk, at
  <2> QED
    BY <2>1, Ranks
<1>6. ASSUME NEW n \in 1 .. Len(c), NEW m \in 1 .. Len(c), n < m
      PROVE  NotAfter(Standing(k, c[n]), Standing(k, c[m]))
  <2>1. Ahead(vs, BestPlace(vs, n), BestPlace(vs, m))
    BY <1>2, <1>6
  <2> QED
    BY <1>5, <2>1 DEF NotAfter, Ahead
<1> QED
  BY <1>2, <1>4, <1>5, <1>6 DEF c

\* What FirstOccurrences keeps of a list.
LEMMA FirstOfOnce ==
    ASSUME NEW T, NEW s \in Seq(T)
    PROVE  LET at == FirstPlaces(s)
               ids == FirstOccurrences(s)
           IN  /\ ids \in Seq(T)
               /\ Len(ids) \in Nat /\ Len(ids) <= MaxProbe
               /\ \A n \in 1 .. Len(ids) :
                     /\ at[n] \in 1 .. Len(s)
                     /\ ids[n] = s[at[n]]
                     /\ \A j \in 1 .. Len(s) : s[j] = ids[n] => at[n] <= j
               /\ \A n, m \in 1 .. Len(ids) : n < m => at[n] < at[m] /\ ids[n] # ids[m]
<1> DEFINE at == FirstPlaces(s)
           o == Once(s)
           last == IF Len(o) < MaxProbe THEN Len(o) ELSE MaxProbe
           ids == FirstOccurrences(s)
<1>1. /\ Len(o) \in Nat
      /\ o \in Seq(T)
      /\ at \in [1 .. Len(o) -> 1 .. Len(s)]
      /\ \A n \in 1 .. Len(o) :
            /\ o[n] = s[at[n]]
            /\ \A j \in 1 .. Len(s) : s[j] = o[n] => at[n] <= j
      /\ \A n, m \in 1 .. Len(o) : n < m => at[n] < at[m] /\ o[n] # o[m]
  BY OnceByFirstPlace
<1>2. MaxProbe \in Nat /\ MaxProbe # 0
  BY ResolveAssumption
<1>3. ids = SubSeq(o, 1, last)
  BY DEF FirstOccurrences
<1> HIDE DEF at, o, ids
<1>4. last \in Nat /\ last <= MaxProbe /\ last <= Len(o)
  BY <1>1, <1>2
<1>5. \A i \in 1 .. last : i \in 1 .. Len(o) /\ o[i] \in T
  BY <1>1, <1>4
<1> HIDE DEF last
<1>6. ids \in Seq(T) /\ Len(ids) = last /\ \A n \in 1 .. last : ids[n] = o[n]
  <2>1. /\ SubSeq(o, 1, last) \in Seq(T)
        /\ Len(SubSeq(o, 1, last)) = IF 1 <= last THEN last - 1 + 1 ELSE 0
        /\ \A i \in 1 .. last - 1 + 1 : SubSeq(o, 1, last)[i] = o[1 + i - 1]
    BY <1>4, <1>5, SubSeqProperties
  <2>2. Len(ids) = last
    BY <1>3, <1>4, <2>1
  <2>3. \A i \in 1 .. last : i \in 1 .. last - 1 + 1 /\ 1 + i - 1 = i
    BY <1>4
  <2> QED
    BY <1>3, <2>1, <2>2, <2>3
<1>7. \A n \in 1 .. last : at[n] \in 1 .. Len(s)
  BY <1>1, <1>5
<1>8. ASSUME NEW n \in 1 .. last
      PROVE  ids[n] = s[at[n]] /\ \A j \in 1 .. Len(s) : s[j] = ids[n] => at[n] <= j
  BY <1>1, <1>5, <1>6
<1>9. ASSUME NEW n \in 1 .. last, NEW m \in 1 .. last, n < m
      PROVE  at[n] < at[m] /\ ids[n] # ids[m]
  BY <1>1, <1>5, <1>6, <1>9
<1> QED
  BY <1>4, <1>6, <1>7, <1>8, <1>9 DEF at, ids

LEMMA NoRepetition ==
    ASSUME NEW T, NEW s \in Seq(T)
    PROVE  IsInjective(FirstOccurrences(s)) /\ Len(FirstOccurrences(s)) <= MaxProbe
<1> DEFINE ids == FirstOccurrences(s)
<1>1. /\ ids \in Seq(T) /\ Len(ids) \in Nat /\ Len(ids) <= MaxProbe
      /\ \A n, m \in 1 .. Len(ids) : n < m => ids[n] # ids[m]
  BY FirstOfOnce
<1> HIDE DEF ids
<1>2. DOMAIN ids = 1 .. Len(ids)
  BY <1>1
<1>3. ASSUME NEW n \in 1 .. Len(ids), NEW m \in 1 .. Len(ids), ids[n] = ids[m]
      PROVE  n = m
  <2>1. ~ (n < m) /\ ~ (m < n)
    BY <1>1, <1>3
  <2> QED
    BY <1>1, <2>1
<1> QED
  BY <1>1, <1>2, <1>3 DEF IsInjective, ids

\* The candidates of both sources, whichever failed.
Joined(k, ids) ==
    \E c \in {<<>>, Tmdb[k]}, e \in {<<>>, Kino[k]} : ids = FirstOccurrences(c \o e)

LEMMA JoinedByStanding ==
    ASSUME NEW k \in Key, NEW ids, Joined(k, ids)
    PROVE  /\ IsInjective(ids) /\ Len(ids) <= MaxProbe
           /\ \A i, j \in 1 .. Len(ids) : i < j =>
                 NotAfter(Standing(k, ids[i]), Standing(k, ids[j]))
<1>1. PICK c \in {<<>>, Tmdb[k]}, e \in {<<>>, Kino[k]} : ids = FirstOccurrences(c \o e)
  BY DEF Joined
<1> DEFINE T == Range(Tmdb[k]) \cup Range(Kino[k])
           s == c \o e
           at == FirstPlaces(s)
<1>2. c \in Seq(T) /\ e \in Seq(T) /\ Len(c) \in Nat /\ Len(e) \in {0, 1}
  <2>1. Kino[k] \in Seq(Range(Kino[k])) /\ Len(Kino[k]) <= 1
    BY ResolveAssumption
  <2>2. Kino[k] \in Seq(T) /\ Len(Kino[k]) \in {0, 1}
    <3> DEFINE ki == Kino[k]
    <3>1. ki \in Seq(Range(ki)) /\ Len(ki) <= 1 /\ Range(ki) \subseteq T
      BY <2>1
    <3> HIDE DEF ki, T
    <3>2. ki \in Seq(T)
      BY <3>1
    <3>3. Len(ki) \in Nat
      BY <3>2
    <3>4. Len(ki) <= 1
      BY <3>1
    <3>5. \A n \in Nat : n <= 1 => n \in {0, 1}
      OBVIOUS
    <3>6. Len(ki) \in {0, 1}
      BY <3>3, <3>4, <3>5, Zenon
    <3> QED
      BY <3>2, <3>6 DEF ki
  <2>3. Tmdb[k] \in Seq(T)
    <3> DEFINE t == Tmdb[k]
    <3>1. t \in Seq(Range(t)) /\ Range(t) \subseteq T
      BY TmdbByStanding
    <3> HIDE DEF t, T
    <3>2. t \in Seq(T)
      BY <3>1
    <3> QED
      BY <3>2 DEF t
  <2> HIDE DEF T
  <2>4. <<>> \in Seq(T) /\ Len(<<>>) = 0
    OBVIOUS
  <2>5. c \in Seq(T) /\ e \in Seq(T) /\ Len(e) \in {0, 1}
    BY <2>2, <2>3, <2>4
  <2> QED
    BY <2>5
<1> HIDE DEF T
<1>3. /\ s \in Seq(T) /\ Len(s) = Len(c) + Len(e)
      /\ \A i \in 1 .. Len(s) : s[i] = IF i <= Len(c) THEN c[i] ELSE e[i - Len(c)]
  BY <1>2, ConcatProperties
<1> HIDE DEF s
<1>4. ids = FirstOccurrences(s)
  BY <1>1 DEF s
<1>5. IsInjective(ids) /\ Len(ids) <= MaxProbe
  BY <1>3, <1>4, NoRepetition
<1>6. /\ Len(ids) \in Nat
      /\ \A n \in 1 .. Len(ids) :
            /\ at[n] \in 1 .. Len(s)
            /\ ids[n] = s[at[n]]
            /\ \A j \in 1 .. Len(s) : s[j] = ids[n] => at[n] <= j
      /\ \A n, m \in 1 .. Len(ids) : n < m => at[n] < at[m]
  <2> DEFINE fs == FirstOccurrences(s)
  <2>1. /\ Len(fs) \in Nat
        /\ \A n \in 1 .. Len(fs) :
              /\ at[n] \in 1 .. Len(s)
              /\ fs[n] = s[at[n]]
              /\ \A j \in 1 .. Len(s) : s[j] = fs[n] => at[n] <= j
        /\ \A n, m \in 1 .. Len(fs) : n < m => at[n] < at[m]
    BY <1>3, FirstOfOnce
  <2> HIDE DEF fs, at
  <2>2. ids = fs
    BY <1>4 DEF fs
  <2> QED
    BY <2>1, <2>2
<1> HIDE DEF at
<1>7. ASSUME NEW i \in 1 .. Len(ids), NEW j \in 1 .. Len(ids), i < j
      PROVE  NotAfter(Standing(k, ids[i]), Standing(k, ids[j]))
  <2>1. /\ at[i] \in 1 .. Len(s) /\ at[j] \in 1 .. Len(s) /\ at[i] < at[j]
        /\ ids[i] = s[at[i]] /\ ids[j] = s[at[j]]
    BY <1>6, <1>7
  <2>2. Len(s) \in Nat /\ at[i] \in Nat /\ at[j] \in Nat /\ Len(s) >= 2
    BY <1>2, <1>3, <2>1
  <2>3. at[i] \in 1 .. Len(c) /\ ids[i] = c[at[i]]
    BY <1>2, <1>3, <2>1, <2>2
  <2>4. c = Tmdb[k]
    <3>1. c # <<>>
      BY <2>3
    <3> QED
      BY <3>1
  <2>5. /\ Standing(k, ids[i]).rank \in 0 .. 3
        /\ \A n, m \in 1 .. Len(c) : n < m =>
              NotAfter(Standing(k, c[n]), Standing(k, c[m]))
        /\ \A id : id \notin Range(c) => Standing(k, id).rank = 4
    BY <2>3, <2>4, TmdbByStanding
  <2>6. CASE at[j] <= Len(c)
    <3>1. at[j] \in 1 .. Len(c) /\ ids[j] = c[at[j]]
      BY <1>2, <1>3, <2>1, <2>6
    <3> QED
      BY <2>1, <2>3, <2>5, <3>1
  <2>7. CASE at[j] > Len(c)
    <3>1. ASSUME NEW n \in 1 .. Len(c)
          PROVE  c[n] # ids[j]
      <4>1. n \in 1 .. Len(s) /\ s[n] = c[n] /\ n < at[j]
        BY <1>2, <1>3, <2>1, <2>2, <2>7
      <4> QED
        BY <1>6, <2>2, <4>1
    <3>2. ids[j] \notin Range(c)
      BY <1>2, <3>1 DEF Range
    <3>3. Standing(k, ids[j]).rank = 4
      BY <2>5, <3>2
    <3> QED
      BY <2>5, <3>3 DEF NotAfter
  <2> QED
    BY <1>2, <2>2, <2>6, <2>7
<1> QED
  BY <1>5, <1>7
=============================================================================
