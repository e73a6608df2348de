--------------------------- MODULE EvictionProofs ---------------------------
(***************************************************************************)
(* Proofs about Eviction, for every set of ids and of downloads, every     *)
(* size of files and every cap: its type invariant, the bound of the       *)
(* cache, and what an eviction that no other overlaps may remove.          *)
(*                                                                         *)
(* The first part is about Bytes, the sum of the sizes of a set of files.  *)
(* Induction over finite sets is done with a minimal counterexample.       *)
(***************************************************************************)
EXTENDS Eviction, FiniteSetTheorems, LeastNumber, TLAPS

-----------------------------------------------------------------------------
(* Sums of sizes.                                                           *)

LEMMA MinimalSet ==
    ASSUME NEW T \in SUBSET SUBSET Vid, T # {}
    PROVE  \E m \in T : \A s \in T : s \subseteq m => s = m
<1> DEFINE R == StrictSubsetOrdering(Vid)
<1>1. FiniteSubsetsOf(Vid) = SUBSET Vid
  BY FS_FiniteSubsetsOfFinite, EvictionAssumption
<1>2. \E m \in T : \A s \in T : ~ (<<s, m>> \in R)
  <2>1. IsWellFoundedOn(R, SUBSET Vid)
    BY <1>1, FS_StrictSubsetOrderingWellFounded
  <2> HIDE DEF R
  <2> QED
    BY <2>1, WFMin
<1> QED
  BY <1>2 DEF StrictSubsetOrdering

\* One step of the recursion behind MapThenSumSet.
SumStep(g, s) ==
    IF s = {} THEN 0 ELSE LET x == CHOOSE x \in s : TRUE IN Size[x] + g[s \ {x}]

IsSum(g, S) == g = [s \in SUBSET S |-> SumStep(g, s)]

LEMMA BytesIsSum ==
    ASSUME NEW V
    PROVE  Bytes(V) = (CHOOSE g : IsSum(g, V))[V]
  BY DEF Bytes, MapThenSumSet, MapThenFoldSet, SumStep, IsSum

\* The recursion has a solution: it is built up by the cardinality of the sets.
LEMMA SumExists ==
    ASSUME NEW S \in SUBSET Vid
    PROVE  \E g \in [SUBSET S -> Nat] : IsSum(g, S)
<1> DEFINE Upto(n, g) == \A s \in SUBSET S : Cardinality(s) <= n => g[s] = SumStep(g, s)
           Bad == {n \in Nat : ~ \E g \in [SUBSET S -> Nat] : Upto(n, g)}
<1>0. Size \in [Vid -> Nat]
  BY EvictionAssumption
<1>1. \A s \in SUBSET S : IsFiniteSet(s) /\ Cardinality(s) \in Nat
  BY FS_Subset, FS_CardinalityType, EvictionAssumption
<1>2. 0 \notin Bad
  <2> DEFINE g == [s \in SUBSET S |-> 0]
  <2>1. \A s \in SUBSET S : Cardinality(s) <= 0 => s = {}
    BY <1>1, FS_EmptySet
  <2>2. Upto(0, g)
    BY <2>1 DEF SumStep
  <2> QED
    BY <2>2
<1>3. ASSUME NEW n \in Nat, n \notin Bad
      PROVE  n + 1 \notin Bad
  <2>1. PICK g \in [SUBSET S -> Nat] : Upto(n, g)
    BY <1>3
  <2> DEFINE h == [s \in SUBSET S |->
                      IF Cardinality(s) = n + 1 THEN SumStep(g, s) ELSE g[s]]
  <2>2. ASSUME NEW s \in SUBSET S, s # {}
        PROVE  LET x == CHOOSE x \in s : TRUE
               IN  /\ x \in s /\ Size[x] \in Nat
                   /\ s \ {x} \in SUBSET S
                   /\ Cardinality(s \ {x}) = Cardinality(s) - 1
    <3> DEFINE x == CHOOSE x \in s : TRUE
    <3>1. x \in s
      BY <2>2
    <3>2. Cardinality(s \ {x}) = Cardinality(s) - 1
      BY <3>1, <1>1, FS_RemoveElement
    <3> QED
      BY <3>1, <3>2, <1>0
  <2>3. \A s \in SUBSET S : SumStep(g, s) \in Nat
    BY <2>2 DEF SumStep
  <2>4. h \in [SUBSET S -> Nat]
    BY <2>3
  <2>5. ASSUME NEW s \in SUBSET S, Cardinality(s) <= n + 1
        PROVE  SumStep(h, s) = SumStep(g, s)
    <3>1. CASE s = {}
      BY <3>1 DEF SumStep
    <3>2. CASE s # {}
      <4> DEFINE x == CHOOSE x \in s : TRUE
      <4>1. s \ {x} \in SUBSET S /\ Cardinality(s \ {x}) # n + 1
        BY <3>2, <2>2, <2>5, <1>1
      <4>2. h[s \ {x}] = g[s \ {x}]
        BY <4>1
      <4> QED
        BY <4>2, <3>2 DEF SumStep
    <3> QED
      BY <3>1, <3>2
  <2>6. Upto(n + 1, h)
    <3> SUFFICES ASSUME NEW s \in SUBSET S, Cardinality(s) <= n + 1
                 PROVE  h[s] = SumStep(h, s)
      OBVIOUS
    <3>1. h[s] = SumStep(g, s)
      <4>1. CASE Cardinality(s) = n + 1
        BY <4>1
      <4>2. CASE Cardinality(s) # n + 1
        BY <4>2, <2>1, <1>1
      <4> QED
        BY <4>1, <4>2
    <3> QED
      BY <3>1, <2>5
  <2> QED
    BY <2>4, <2>6
<1>4. Bad = {}
  <2> SUFFICES ASSUME Bad # {} PROVE FALSE
    OBVIOUS
  <2>1. PICK n \in Bad : \A m \in Bad : n <= m
    <3>1. Bad \in SUBSET Nat
      OBVIOUS
    <3> HIDE DEF Bad
    <3> QED
      BY <3>1, LeastNat
  <2>2. n \in Nat /\ n # 0
    BY <1>2
  <2>3. n - 1 \in Nat /\ n - 1 \notin Bad
    <3>1. n - 1 \in Nat /\ ~ (n <= n - 1)
      BY <2>2
    <3> HIDE DEF Bad
    <3> QED
      BY <2>1, <3>1
  <2>4. (n - 1) + 1 \notin Bad
    BY <2>3, <1>3
  <2>5. (n - 1) + 1 = n
    BY <2>2
  <2> HIDE DEF Bad
  <2> QED
    BY <2>1, <2>4, <2>5
<1>5. PICK g \in [SUBSET S -> Nat] : Upto(Cardinality(S), g)
  BY <1>4, <1>1
<1>6. \A s \in SUBSET S : g[s] = SumStep(g, s)
  BY <1>5, FS_Subset, EvictionAssumption, <1>1
<1> QED
  BY <1>5, <1>6 DEF IsSum

\* Two solutions agree where both are defined.
LEMMA SumUnique ==
    ASSUME NEW S \in SUBSET Vid, NEW T \in SUBSET Vid,
           NEW g, IsSum(g, S), NEW h, IsSum(h, T),
           NEW V \in SUBSET S, V \in SUBSET T
    PROVE  g[V] = h[V]
<1> DEFINE Bad == {s \in SUBSET V : g[s] # h[s]}
<1> SUFFICES ASSUME Bad # {} PROVE FALSE
  OBVIOUS
<1>1. PICK m \in Bad : \A s \in Bad : s \subseteq m => s = m
  <2>1. Bad \in SUBSET SUBSET Vid
    OBVIOUS
  <2> HIDE DEF Bad
  <2> QED
    BY <2>1, MinimalSet
<1>2. g[m] = SumStep(g, m) /\ h[m] = SumStep(h, m)
  BY DEF IsSum
<1>3. m # {}
  BY <1>2 DEF SumStep
<1> DEFINE x == CHOOSE x \in m : TRUE
<1>4. x \in m
  BY <1>3
<1>5. g[m \ {x}] = h[m \ {x}]
  BY <1>1, <1>4
<1> QED
  BY <1>2, <1>3, <1>5 DEF SumStep

\* The sum of the sizes of a set of files, by its recursion.
LEMMA BytesStep ==
    ASSUME NEW V \in SUBSET Vid
    PROVE  /\ Bytes(V) \in Nat
           /\ V = {} => Bytes(V) = 0
           /\ V # {} => LET x == CHOOSE x \in V : TRUE
                        IN  x \in V /\ Bytes(V) = Size[x] + Bytes(V \ {x})
<1>1. ASSUME NEW W \in SUBSET Vid
      PROVE  \E g \in [SUBSET W -> Nat] : IsSum(g, W) /\ Bytes(W) = g[W]
  <2>1. PICK f \in [SUBSET W -> Nat] : IsSum(f, W)
    BY SumExists
  <2> DEFINE g == CHOOSE g : IsSum(g, W)
  <2>2. IsSum(g, W)
    BY <2>1
  <2>3. Bytes(W) = g[W]
    BY BytesIsSum
  <2> HIDE DEF g
  <2>4. g[W] = f[W]
    BY <2>1, <2>2, SumUnique
  <2> QED
    BY <2>1, <2>3, <2>4
<1>2. PICK g \in [SUBSET V -> Nat] : IsSum(g, V) /\ Bytes(V) = g[V]
  BY <1>1
<1>3. g[V] = SumStep(g, V)
  BY <1>2 DEF IsSum
<1>4. ASSUME V # {}
      PROVE  LET x == CHOOSE x \in V : TRUE
             IN  x \in V /\ Bytes(V) = Size[x] + Bytes(V \ {x})
  <2> DEFINE x == CHOOSE x \in V : TRUE
  <2>1. x \in V
    BY <1>4
  <2>2. PICK h \in [SUBSET (V \ {x}) -> Nat] :
                IsSum(h, V \ {x}) /\ Bytes(V \ {x}) = h[V \ {x}]
    BY <1>1
  <2>3. g[V \ {x}] = h[V \ {x}]
    <3> HIDE DEF x
    <3> QED
      BY <1>2, <2>2, SumUnique
  <2> QED
    BY <1>2, <1>3, <1>4, <2>1, <2>2, <2>3 DEF SumStep
<1> QED
  BY <1>2, <1>3, <1>4 DEF SumStep

LEMMA BytesEmpty == Bytes({}) = 0
  BY BytesStep

\* Any file of the set may be taken out first.
LEMMA BytesRemove ==
    ASSUME NEW V \in SUBSET Vid, NEW v \in V
    PROVE  Bytes(V) = Size[v] + Bytes(V \ {v})
<1> DEFINE Bad == {W \in SUBSET Vid : \E w \in W : Bytes(W) # Size[w] + Bytes(W \ {w})}
<1>0. Size \in [Vid -> Nat]
  BY EvictionAssumption
<1> SUFFICES ASSUME Bad # {} PROVE FALSE
  OBVIOUS
<1>1. PICK W \in Bad : \A U \in Bad : U \subseteq W => U = W
  <2>1. Bad \in SUBSET SUBSET Vid
    OBVIOUS
  <2> HIDE DEF Bad
  <2> QED
    BY <2>1, MinimalSet
<1>2. PICK w \in W : Bytes(W) # Size[w] + Bytes(W \ {w})
  OBVIOUS
<1> DEFINE x == CHOOSE x \in W : TRUE
<1>3. x \in W /\ Bytes(W) = Size[x] + Bytes(W \ {x})
  BY <1>2, BytesStep
<1> HIDE DEF x
<1>4. x # w
  BY <1>2, <1>3
<1>5. Bytes(W \ {x}) = Size[w] + Bytes((W \ {x}) \ {w})
  <2>1. W \ {x} \notin Bad
    BY <1>1, <1>3
  <2> QED
    BY <2>1, <1>4
<1>6. Bytes(W \ {w}) = Size[x] + Bytes((W \ {w}) \ {x})
  <2>1. W \ {w} \notin Bad
    BY <1>1, <1>2
  <2> QED
    BY <2>1, <1>3, <1>4
<1>7. (W \ {x}) \ {w} = (W \ {w}) \ {x}
  OBVIOUS
<1>8. Bytes((W \ {w}) \ {x}) \in Nat
  BY BytesStep
<1>9. Size[w] \in Nat /\ Size[x] \in Nat
  BY <1>0, <1>3
<1>10. Bytes(W) = Size[x] + (Size[w] + Bytes((W \ {w}) \ {x}))
  BY <1>3, <1>5, <1>7
<1>11. Size[w] + Bytes(W \ {w}) = Size[w] + (Size[x] + Bytes((W \ {w}) \ {x}))
  BY <1>6
<1> HIDE DEF Bad
<1> QED
  BY <1>2, <1>8, <1>9, <1>10, <1>11

LEMMA BytesAdd ==
    ASSUME NEW V \in SUBSET Vid, NEW v \in Vid, v \notin V
    PROVE  Bytes(V \cup {v}) = Bytes(V) + Size[v]
<1>1. (V \cup {v}) \ {v} = V
  OBVIOUS
<1>2. Bytes(V \cup {v}) = Size[v] + Bytes((V \cup {v}) \ {v})
  BY BytesRemove
<1>3. Bytes(V) \in Nat /\ Size[v] \in Nat
  BY BytesStep, EvictionAssumption
<1>4. Bytes(V \cup {v}) = Size[v] + Bytes(V)
  BY <1>1, <1>2
<1> QED
  BY <1>3, <1>4

LEMMA BytesMonotone ==
    ASSUME NEW V \in SUBSET Vid, NEW W \in SUBSET V
    PROVE  Bytes(W) <= Bytes(V)
<1> DEFINE Bad == {U \in SUBSET V : W \subseteq U /\ ~ Bytes(W) <= Bytes(U)}
<1> SUFFICES ASSUME Bad # {} PROVE FALSE
  OBVIOUS
<1>1. PICK U \in Bad : \A T \in Bad : T \subseteq U => T = U
  <2>1. Bad \in SUBSET SUBSET Vid
    OBVIOUS
  <2> HIDE DEF Bad
  <2> QED
    BY <2>1, MinimalSet
<1>2. PICK u \in U : u \notin W
  <2>1. Bytes(W) \in Nat
    BY BytesStep
  <2> QED
    BY <2>1
<1>3. Bytes(W) <= Bytes(U \ {u})
  BY <1>1, <1>2
<1>4. Bytes(U) = Size[u] + Bytes(U \ {u})
  BY BytesRemove
<1>5. Size[u] \in Nat /\ Bytes(W) \in Nat /\ Bytes(U \ {u}) \in Nat
  BY BytesStep, EvictionAssumption
<1> QED
  BY <1>3, <1>4, <1>5

-----------------------------------------------------------------------------
(* The inductive invariant.                                                 *)

Pcs == {"idle", "downloading", "evicting"}

\* The record of a download when access times are at most c.
Record(c) == [pc : Pcs, vid : Vid \cup {NoVid}, stamp : 0 .. c, todo : SUBSET Vid,
              left : SUBSET [vid : Vid, atime : 0 .. c], total : Int,
              kept : SUBSET Vid, alone : BOOLEAN]

Typing ==
    /\ cached \subseteq Vid
    /\ atime \in [Vid -> 0 .. clock]
    /\ clock \in 0 .. MaxTime
    /\ missed \subseteq Vid /\ stuck \subseteq Vid
    /\ ev \in [Evictor -> Record(clock)]
    /\ \A e \in Evictor : ev[e].pc # "idle" => ev[e].vid \in Vid

Names(e) == {x.vid : x \in ev[e].left}

\* A download that is not evicting has no listing.
Quiet ==
    \A e \in Evictor : ev[e].pc # "evicting" =>
        /\ ev[e].todo = {} /\ ev[e].left = {} /\ ev[e].kept = {}
        /\ ev[e].total = 0

\* An eviction lists no file twice, and what it still lists or removed in vain it
\* still counts.
CountedBy(e) ==
    /\ \A x, y \in ev[e].left : x.vid = y.vid => x = y
    /\ Names(e) \cap ev[e].todo = {} /\ ev[e].kept \cap ev[e].todo = {}
    /\ Names(e) \cap ev[e].kept = {}
    /\ Bytes(Names(e) \cup ev[e].kept) <= ev[e].total

Counted == \A e \in Evictor : CountedBy(e)

\* What is cached that an eviction has neither yet to visit nor lists, nor removed
\* in vain.
Unknown(e) == ((cached \ ev[e].todo) \ Names(e)) \ (ev[e].kept \cap stuck)

\* An eviction that was alone so far is so still: it knows of all it could see,
\* counts no file that is gone, and has listed no access time yet to come.
Exact(e) ==
    /\ Unknown(e) \subseteq missed
    /\ ev[e].total <= Bytes(cached \ ev[e].todo)
    /\ \A x \in ev[e].left : x.atime <= atime[x.vid]
    /\ \A f \in Evicting : f = e

Lonely == \A e \in Evicting : ev[e].alone => Exact(e)

IInv == Typing /\ Quiet /\ Counted /\ Lonely

LEMMA RecordGrows ==
    ASSUME NEW c \in Nat, NEW d \in Nat, c <= d, NEW r \in Record(c)
    PROVE  r \in Record(d)
<1>1. 0 .. c \subseteq 0 .. d
  OBVIOUS
<1>2. [vid : Vid, atime : 0 .. c] \subseteq [vid : Vid, atime : 0 .. d]
  BY <1>1
<1> QED
  BY <1>1, <1>2 DEF Record

LEMMA IdleRecord == idle.pc = "idle" /\ \A c \in Nat : idle \in Record(c)
  BY DEF idle, Record, Pcs

\* A listing changes fields of one record, and nothing else.
Relisted(g, e, L, n) == [g EXCEPT ![e].left = L, ![e].total = n]

LEMMA ListingFrame ==
    ASSUME NEW c \in Nat, NEW g \in [Evictor -> Record(c)], NEW e \in Evictor,
           NEW L \in SUBSET [vid : Vid, atime : 0 .. c], NEW n \in Int,
           NEW h, h = Relisted(g, e, L, n)
    PROVE  /\ h \in [Evictor -> Record(c)]
           /\ \A f \in Evictor : f # e => h[f] = g[f]
           /\ h[e].pc = g[e].pc /\ h[e].vid = g[e].vid
           /\ h[e].alone = g[e].alone /\ h[e].todo = g[e].todo
           /\ h[e].kept = g[e].kept
           /\ h[e].left = L /\ h[e].total = n
<1> DEFINE a == [g EXCEPT ![e].left = L]
           b == [a EXCEPT ![e].total = n]
<1>1. a \in [Evictor -> Record(c)]
  BY DEF Record
<1>2. b \in [Evictor -> Record(c)]
  <2> HIDE DEF a
  <2> QED
    BY <1>1 DEF Record
<1>3. h = b
  BY Zenon DEF Relisted
<1>4. h \in [Evictor -> Record(c)]
  BY <1>2, <1>3
<1>5. /\ \A f \in Evictor : f # e => h[f] = g[f]
      /\ h[e].pc = g[e].pc /\ h[e].vid = g[e].vid
      /\ h[e].alone = g[e].alone /\ h[e].todo = g[e].todo
           /\ h[e].kept = g[e].kept
      /\ h[e].left = L /\ h[e].total = n
  BY DEF Record, Relisted
<1> QED
  BY <1>4, <1>5

LEMMA TypingInit == Init => Typing
<1> SUFFICES ASSUME Init PROVE Typing
  OBVIOUS
<1>1. clock \in Nat /\ clock \in 0 .. MaxTime /\ 0 \in 0 .. clock
  BY EvictionAssumption DEF Init
<1> QED
  BY <1>1, IdleRecord DEF Init, Typing

\* What a step on one name of the directory does.
LEMMA ListStep ==
    ASSUME Typing, NEW e \in Evictor, NEW v \in Vid, ListFile(e, v)
    PROVE  /\ UNCHANGED <<cached, atime, clock, missed, stuck>>
           /\ ev' \in [Evictor -> Record(clock)]
           /\ \A f \in Evictor : f # e => ev'[f] = ev[f]
           /\ ev'[e].pc = ev[e].pc /\ ev'[e].vid = ev[e].vid
           /\ ev'[e].alone = ev[e].alone /\ ev'[e].kept = ev[e].kept
           /\ v \in ev[e].todo /\ ev'[e].todo = ev[e].todo \ {v}
           /\ v \in cached =>
                 /\ \E t \in {atime[v], 0} :
                       ev'[e].left = ev[e].left \cup {[vid |-> v, atime |-> t]}
                 /\ ev'[e].total = ev[e].total + Size[v]
           /\ v \notin cached =>
                 ev'[e].left = ev[e].left /\ ev'[e].total = ev[e].total
<1>1. PICK t \in {atime[v], 0} :
         ev' = [ev EXCEPT ![e].todo = @ \ {v},
                          ![e].left = IF v \in cached
                                      THEN @ \cup {[vid |-> v, atime |-> t]}
                                      ELSE @,
                          ![e].total = IF v \in cached THEN @ + Size[v] ELSE @]
  BY DEF ListFile
<1> DEFINE left == IF v \in cached
                   THEN ev[e].left \cup {[vid |-> v, atime |-> t]}
                   ELSE ev[e].left
           total == IF v \in cached THEN ev[e].total + Size[v] ELSE ev[e].total
           mid == [ev EXCEPT ![e].todo = ev[e].todo \ {v}]
<1>2. ev \in [Evictor -> Record(clock)] /\ ev[e] \in Record(clock) /\ clock \in Nat
  BY EvictionAssumption DEF Typing
<1>3. t \in 0 .. clock /\ Size[v] \in Int
  BY <1>2, EvictionAssumption DEF Typing
<1>4. left \in SUBSET [vid : Vid, atime : 0 .. clock] /\ total \in Int
  BY <1>2, <1>3 DEF Record
<1>5. /\ mid \in [Evictor -> Record(clock)]
      /\ \A f \in Evictor : f # e => mid[f] = ev[f]
      /\ mid[e].pc = ev[e].pc /\ mid[e].vid = ev[e].vid
      /\ mid[e].alone = ev[e].alone /\ mid[e].kept = ev[e].kept
      /\ mid[e].todo = ev[e].todo \ {v}
  BY <1>2 DEF Record
<1>6. ev' = Relisted(mid, e, left, total)
  BY <1>1, Zenon DEF Relisted
<1>7. /\ ev' \in [Evictor -> Record(clock)]
      /\ \A f \in Evictor : f # e => ev'[f] = mid[f]
      /\ ev'[e].pc = mid[e].pc /\ ev'[e].vid = mid[e].vid
      /\ ev'[e].alone = mid[e].alone /\ ev'[e].kept = mid[e].kept
      /\ ev'[e].todo = mid[e].todo
      /\ ev'[e].left = left /\ ev'[e].total = total
  <2>1. mid \in [Evictor -> Record(clock)]
    BY <1>5
  <2> HIDE DEF mid, left, total
  <2> QED
    BY <1>2, <1>4, <1>6, <2>1, ListingFrame
<1>8. /\ v \in ev[e].todo
      /\ UNCHANGED <<cached, atime, clock, missed, stuck>>
  BY DEF ListFile
<1> HIDE DEF mid
<1> QED
  BY <1>5, <1>7, <1>8

\* What a name that is skipped does.
LEMMA MissStep ==
    ASSUME Typing, NEW e \in Evictor, NEW v \in Vid, MissFile(e, v)
    PROVE  /\ UNCHANGED <<cached, atime, clock, stuck>>
           /\ missed' = missed \cup {v}
           /\ ev' \in [Evictor -> Record(clock)]
           /\ \A f \in Evictor : f # e => ev'[f] = ev[f]
           /\ ev'[e].pc = ev[e].pc /\ ev'[e].vid = ev[e].vid
           /\ ev'[e].alone = ev[e].alone /\ ev'[e].kept = ev[e].kept
           /\ v \in ev[e].todo /\ ev'[e].todo = ev[e].todo \ {v}
           /\ v \in cached
           /\ ev'[e].left = ev[e].left /\ ev'[e].total = ev[e].total
<1>1. ev \in [Evictor -> Record(clock)] /\ ev[e] \in Record(clock)
  BY DEF Typing
<1>2. ev' = [ev EXCEPT ![e].todo = ev[e].todo \ {v}]
  BY DEF MissFile
<1>3. ev' \in [Evictor -> Record(clock)]
  BY <1>1, <1>2 DEF Record
<1>4. /\ \A f \in Evictor : f # e => ev'[f] = ev[f]
      /\ ev'[e].pc = ev[e].pc /\ ev'[e].vid = ev[e].vid
      /\ ev'[e].alone = ev[e].alone /\ ev'[e].kept = ev[e].kept
      /\ ev'[e].todo = ev[e].todo \ {v}
      /\ ev'[e].left = ev[e].left /\ ev'[e].total = ev[e].total
  BY <1>1, <1>2 DEF Record
<1> QED
  BY <1>3, <1>4 DEF MissFile

\* What the removal of a listed file does.
LEMMA DeleteStep ==
    ASSUME Typing, NEW e \in Evictor, DeleteOldest(e)
    PROVE  /\ UNCHANGED <<clock, missed, stuck>>
           /\ ev[e].pc = "evicting" /\ ev[e].todo = {}
           /\ ev[e].total > CacheMaxBytes
           /\ ev' \in [Evictor -> Record(clock)]
           /\ \A f \in Evictor : f # e => ev'[f] = ev[f]
           /\ ev'[e].pc = ev[e].pc /\ ev'[e].vid = ev[e].vid
           /\ ev'[e].alone = ev[e].alone /\ ev'[e].todo = {}
           /\ ev'[e].kept = ev[e].kept
           /\ \E x \in Oldest(ev[e].left) :
                 /\ x \in [vid : Vid, atime : 0 .. clock]
                 /\ cached' = cached \ {x.vid}
                 /\ atime' = [atime EXCEPT ![x.vid] = 0]
                 /\ ev'[e].left = ev[e].left \ {x}
                 /\ x.vid \in cached => ev'[e].total = ev[e].total - Size[x.vid]
                 /\ x.vid \notin cached => ev'[e].total = ev[e].total
<1>1. ev \in [Evictor -> Record(clock)] /\ ev[e] \in Record(clock)
  BY DEF Typing
<1>2. PICK x \in Oldest(ev[e].left) :
         /\ cached' = cached \ {x.vid}
         /\ atime' = [atime EXCEPT ![x.vid] = 0]
         /\ ev' = [ev EXCEPT ![e].left = @ \ {x},
                             ![e].total = IF x.vid \in cached
                                          THEN @ - Size[x.vid] ELSE @]
  BY DEF DeleteOldest
<1>3. x \in ev[e].left /\ x \in [vid : Vid, atime : 0 .. clock]
  BY <1>1 DEF Oldest, Record
<1> DEFINE total == IF x.vid \in cached THEN ev[e].total - Size[x.vid]
                    ELSE ev[e].total
           left == ev[e].left \ {x}
<1>4. total \in Int
  <2>1. Size[x.vid] \in Int
    BY <1>3, EvictionAssumption
  <2> QED
    BY <1>1, <2>1 DEF Record
<1>5. ev' = Relisted(ev, e, left, total)
  BY <1>2 DEF Relisted
<1>6. left \in SUBSET [vid : Vid, atime : 0 .. clock]
  BY <1>1 DEF Record
<1>7. clock \in Nat
  BY EvictionAssumption DEF Typing
<1>8. /\ ev' \in [Evictor -> Record(clock)]
      /\ \A f \in Evictor : f # e => ev'[f] = ev[f]
      /\ ev'[e].pc = ev[e].pc /\ ev'[e].vid = ev[e].vid
      /\ ev'[e].alone = ev[e].alone /\ ev'[e].kept = ev[e].kept
      /\ ev'[e].todo = ev[e].todo
      /\ ev'[e].left = left /\ ev'[e].total = total
  <2> HIDE DEF total, left
  <2> QED
    BY <1>1, <1>4, <1>5, <1>6, <1>7, ListingFrame
<1>9. ev[e].pc = "evicting" /\ ev[e].todo = {} /\ ev[e].total > CacheMaxBytes
         /\ UNCHANGED <<clock, missed, stuck>>
  BY DEF DeleteOldest
<1> QED
  BY <1>2, <1>3, <1>8, <1>9

\* What a removal that fails does.
LEMMA KeepStep ==
    ASSUME Typing, NEW e \in Evictor, DeleteFails(e)
    PROVE  /\ UNCHANGED <<cached, atime, clock, missed>>
           /\ ev[e].pc = "evicting" /\ ev[e].todo = {}
           /\ ev' \in [Evictor -> Record(clock)]
           /\ \A f \in Evictor : f # e => ev'[f] = ev[f]
           /\ ev'[e].pc = ev[e].pc /\ ev'[e].vid = ev[e].vid
           /\ ev'[e].alone = ev[e].alone /\ ev'[e].todo = {}
           /\ ev'[e].total = ev[e].total
           /\ \E x \in ev[e].left :
                 /\ x \in [vid : Vid, atime : 0 .. clock] /\ x.vid \in cached
                 /\ stuck' = stuck \cup {x.vid}
                 /\ ev'[e].left = ev[e].left \ {x}
                 /\ ev'[e].kept = ev[e].kept \cup {x.vid}
<1>1. ev \in [Evictor -> Record(clock)] /\ ev[e] \in Record(clock)
  BY DEF Typing
<1>2. PICK x \in Oldest(ev[e].left) :
         /\ x.vid \in cached
         /\ stuck' = stuck \cup {x.vid}
         /\ ev' = [ev EXCEPT ![e].left = @ \ {x}, ![e].kept = @ \cup {x.vid}]
  BY DEF DeleteFails
<1>3. x \in ev[e].left /\ x \in [vid : Vid, atime : 0 .. clock]
  BY <1>1 DEF Oldest, Record
<1> DEFINE mid == [ev EXCEPT ![e].left = ev[e].left \ {x}]
<1>4. /\ mid \in [Evictor -> Record(clock)]
      /\ \A f \in Evictor : f # e => mid[f] = ev[f]
      /\ mid[e].pc = ev[e].pc /\ mid[e].vid = ev[e].vid
      /\ mid[e].alone = ev[e].alone /\ mid[e].todo = ev[e].todo
      /\ mid[e].total = ev[e].total /\ mid[e].kept = ev[e].kept
      /\ mid[e].left = ev[e].left \ {x}
  BY <1>1 DEF Record
<1>5. ev' = [mid EXCEPT ![e].kept = ev[e].kept \cup {x.vid}]
  BY <1>2, Zenon
<1> HIDE DEF mid
<1>6. ev[e].kept \cup {x.vid} \in SUBSET Vid
  BY <1>1, <1>3 DEF Record
<1>7. /\ ev' \in [Evictor -> Record(clock)]
      /\ \A f \in Evictor : f # e => ev'[f] = mid[f]
      /\ ev'[e].pc = mid[e].pc /\ ev'[e].vid = mid[e].vid
      /\ ev'[e].alone = mid[e].alone /\ ev'[e].todo = mid[e].todo
      /\ ev'[e].total = mid[e].total /\ ev'[e].left = mid[e].left
      /\ ev'[e].kept = ev[e].kept \cup {x.vid}
  BY <1>4, <1>5, <1>6 DEF Record
<1>8. ev[e].pc = "evicting" /\ ev[e].todo = {}
         /\ UNCHANGED <<cached, atime, clock, missed>>
  BY DEF DeleteFails
<1> QED
  BY <1>2, <1>3, <1>4, <1>7, <1>8

\* What a permit changes.
LEMMA DownloadStep ==
    ASSUME Typing, NEW e \in Evictor, NEW v \in Vid, Download(e, v)
    PROVE  /\ clock + 1 \in 0 .. MaxTime
           /\ ev' \in [Evictor -> Record(clock + 1)]
           /\ \A f \in Evictor : f # e => ev'[f] = ev[f]
           /\ ev[e].pc = "idle" /\ ev'[e].pc = "downloading" /\ ev'[e].vid = v
           /\ ev'[e].todo = ev[e].todo /\ ev'[e].left = ev[e].left
           /\ ev'[e].total = ev[e].total /\ ev'[e].kept = ev[e].kept
<1> DEFINE a == [ev EXCEPT ![e].pc = "downloading"]
           b == [a EXCEPT ![e].vid = v]
           d == [b EXCEPT ![e].stamp = clock + 1]
<1>1. clock \in Nat /\ clock + 1 \in 0 .. MaxTime /\ clock + 1 \in Nat
         /\ clock <= clock + 1
  BY EvictionAssumption DEF Typing, Download
<1>2. \A f \in Evictor : ev[f] \in Record(clock + 1)
  BY <1>1, RecordGrows DEF Typing
<1>3. ev \in [Evictor -> Record(clock + 1)]
  BY <1>2 DEF Typing
<1>4. a \in [Evictor -> Record(clock + 1)]
  BY <1>3 DEF Record, Pcs
<1>5. b \in [Evictor -> Record(clock + 1)]
  <2> HIDE DEF a
  <2> QED
    BY <1>4 DEF Record
<1>6. d \in [Evictor -> Record(clock + 1)]
  <2>1. clock + 1 \in 0 .. clock + 1
    BY <1>1
  <2> HIDE DEF b
  <2> QED
    BY <1>5, <2>1 DEF Record
<1>7. ev' = [ev EXCEPT ![e].pc = "downloading", ![e].vid = v,
                       ![e].stamp = clock + 1]
  BY DEF Download
<1>8. ev' = d
  BY <1>7, Zenon
<1>9. /\ \A f \in Evictor : f # e => ev'[f] = ev[f]
      /\ ev'[e].pc = "downloading" /\ ev'[e].vid = v
      /\ ev'[e].todo = ev[e].todo /\ ev'[e].left = ev[e].left
      /\ ev'[e].total = ev[e].total /\ ev'[e].kept = ev[e].kept
  BY <1>3, <1>7 DEF Record
<1>10. ev[e].pc = "idle"
  BY DEF Download
<1> HIDE DEF d
<1> QED
  BY <1>1, <1>6, <1>8, <1>9, <1>10

\* What the rename and the opening of the directory change.
LEMMA PublishStep ==
    ASSUME Typing, NEW e \in Evictor, Publish(e)
    PROVE  /\ ev[e].vid \in Vid /\ cached' = cached \cup {ev[e].vid}
           /\ atime' \in [Vid -> 0 .. clock] /\ clock' = clock
           /\ missed' = missed \ {ev[e].vid} /\ stuck' = stuck \ {ev[e].vid}
           /\ ev' \in [Evictor -> Record(clock)]
           /\ ev[e].pc = "downloading" /\ ev'[e].pc = "evicting"
           /\ ev'[e].vid = ev[e].vid /\ ev'[e].todo = Vid
           /\ ev'[e].left = ev[e].left /\ ev'[e].total = ev[e].total
           /\ ev'[e].kept = ev[e].kept
           /\ ev'[e].alone = (Evicting = {})
           /\ \A f \in Evictor : f # e =>
                 /\ ev'[f].pc = ev[f].pc /\ ev'[f].vid = ev[f].vid
                 /\ ev'[f].todo = ev[f].todo /\ ev'[f].left = ev[f].left
                 /\ ev'[f].total = ev[f].total /\ ev'[f].alone = FALSE
                 /\ ev'[f].kept = ev[f].kept
<1>1. \A f \in Evictor : ev[f] \in Record(clock)
  BY DEF Typing
<1>2. ev[e].vid \in Vid /\ ev[e].stamp \in 0 .. clock
  BY <1>1 DEF Typing, Publish, Record
<1>3. [ev[e] EXCEPT !.pc = "evicting", !.stamp = 0, !.todo = Vid,
                 !.alone = Evicting = {}]
         \in Record(clock)
  <2>1. 0 \in 0 .. clock
    BY EvictionAssumption DEF Typing
  <2> QED
    BY <1>1, <2>1 DEF Record, Pcs
<1>4. \A f \in Evictor : [ev[f] EXCEPT !.alone = FALSE] \in Record(clock)
  BY <1>1 DEF Record
<1>5. ev' \in [Evictor -> Record(clock)]
  BY <1>3, <1>4 DEF Publish
<1>6. atime' \in [Vid -> 0 .. clock]
  BY <1>2 DEF Publish, Typing
<1>7. /\ ev'[e].pc = "evicting" /\ ev'[e].todo = Vid
      /\ ev'[e].vid = ev[e].vid
      /\ ev'[e].left = ev[e].left /\ ev'[e].total = ev[e].total
           /\ ev'[e].kept = ev[e].kept
      /\ ev'[e].alone = (Evicting = {})
  BY <1>1 DEF Publish, Record
<1>8. \A f \in Evictor : f # e =>
         /\ ev'[f].pc = ev[f].pc /\ ev'[f].vid = ev[f].vid
         /\ ev'[f].todo = ev[f].todo /\ ev'[f].left = ev[f].left
         /\ ev'[f].total = ev[f].total /\ ev'[f].alone = FALSE
                 /\ ev'[f].kept = ev[f].kept
  BY <1>1 DEF Publish, Record
<1> QED
  BY <1>2, <1>5, <1>6, <1>7, <1>8 DEF Publish

\* The end of an eviction, with or without a listing.
LEMMA EndStep ==
    ASSUME Typing, NEW e \in Evictor, Finish(e) \/ NoListing(e)
    PROVE  /\ UNCHANGED <<cached, atime, clock>>
           /\ missed' \subseteq missed \cup {ev[e].vid} /\ ev[e].vid \in Vid
           /\ stuck' \subseteq stuck
           /\ ev[e].pc = "evicting" /\ ev'[e] = idle
           /\ ev' \in [Evictor -> Record(clock) \cup {idle}]
           /\ \A f \in Evictor : f # e => ev'[f] = ev[f]
<1>1. ev' = [ev EXCEPT ![e] = idle] /\ ev[e].pc = "evicting"
         /\ UNCHANGED <<cached, atime, clock>>
  BY DEF Finish, NoListing
<1>2. missed' \subseteq missed \cup {ev[e].vid} /\ stuck' \subseteq stuck
  BY DEF Finish, NoListing, InBurst
<1> QED
  BY <1>1, <1>2 DEF Typing

LEMMA TypingNext == Typing /\ [Next]_evars => Typing'
<1> SUFFICES ASSUME Typing, [Next]_evars
             PROVE  Typing'
  OBVIOUS
<1>0. clock \in Nat /\ \A e \in Evictor : ev[e] \in Record(clock)
  BY EvictionAssumption DEF Typing
<1>1. ASSUME NEW e \in Evictor, NEW v \in Vid, Download(e, v)
      PROVE  Typing'
  <2>1. atime \in [Vid -> 0 .. clock + 1]
    BY <1>0 DEF Typing
  <2> QED
    BY <1>1, <2>1, DownloadStep DEF Download, Typing
<1>2. ASSUME NEW e \in Evictor, Fail(e)
      PROVE  Typing'
  BY <1>0, <1>2, IdleRecord DEF Fail, Typing
<1>3. ASSUME NEW e \in Evictor, Publish(e)
      PROVE  Typing'
  <2>1. /\ ev[e].vid \in Vid /\ cached' = cached \cup {ev[e].vid}
        /\ atime' \in [Vid -> 0 .. clock] /\ clock' = clock
        /\ missed' = missed \ {ev[e].vid} /\ stuck' = stuck \ {ev[e].vid}
        /\ ev' \in [Evictor -> Record(clock)]
        /\ ev'[e].vid = ev[e].vid
        /\ \A f \in Evictor : f # e =>
              ev'[f].pc = ev[f].pc /\ ev'[f].vid = ev[f].vid
    BY <1>3, PublishStep
  <2>2. \A f \in Evictor : ev'[f].pc # "idle" => ev'[f].vid \in Vid
    BY <2>1 DEF Typing
  <2>3. cached' \subseteq Vid /\ clock' \in 0 .. MaxTime
           /\ missed' \subseteq Vid /\ stuck' \subseteq Vid
    BY <2>1 DEF Typing
  <2>4. atime' \in [Vid -> 0 .. clock'] /\ ev' \in [Evictor -> Record(clock')]
    BY <2>1
  <2> QED
    BY <2>2, <2>3, <2>4 DEF Typing
<1>4. ASSUME NEW e \in Evictor, NEW v \in Vid, ListFile(e, v)
      PROVE  Typing'
  BY <1>4, ListStep DEF Typing
<1>5. ASSUME NEW e \in Evictor, NEW v \in Vid, MissFile(e, v)
      PROVE  Typing'
  BY <1>5, MissStep DEF Typing
<1>6. ASSUME NEW e \in Evictor, DeleteOldest(e)
      PROVE  Typing'
  <2>1. PICK x \in Oldest(ev[e].left) :
           /\ x.vid \in Vid /\ cached' = cached \ {x.vid}
           /\ atime' = [atime EXCEPT ![x.vid] = 0]
    BY <1>6, DeleteStep
  <2>2. 0 \in 0 .. clock /\ atime \in [Vid -> 0 .. clock] /\ cached \subseteq Vid
    BY <1>0 DEF Typing
  <2>3. cached' \subseteq Vid /\ atime' \in [Vid -> 0 .. clock]
    BY <2>1, <2>2
  <2> QED
    BY <1>6, <2>3, DeleteStep DEF Typing
<1>7. ASSUME NEW e \in Evictor, DeleteFails(e)
      PROVE  Typing'
  <2>1. stuck' \subseteq Vid
    BY <1>7, KeepStep DEF Typing
  <2> QED
    BY <1>7, <2>1, KeepStep DEF Typing
<1>8. ASSUME NEW e \in Evictor, Finish(e) \/ NoListing(e)
      PROVE  Typing'
  <2>1. missed' \subseteq Vid /\ stuck' \subseteq Vid
    BY <1>8, EndStep DEF Typing
  <2> QED
    BY <1>0, <1>8, <2>1, EndStep, IdleRecord DEF Typing
<1>9. ASSUME NEW v \in Vid, Touch(v)
      PROVE  Typing'
  <2>1. clock + 1 \in 0 .. MaxTime /\ clock <= clock + 1 /\ clock + 1 \in Nat
    BY <1>9, EvictionAssumption DEF Touch, Typing
  <2>2. ev \in [Evictor -> Record(clock + 1)]
    BY <1>0, <2>1, RecordGrows DEF Typing
  <2>3. atime' \in [Vid -> 0 .. clock + 1]
    BY <1>9, <2>1 DEF Touch, Typing
  <2> QED
    BY <1>9, <2>1, <2>2, <2>3 DEF Touch, Typing
<1>10. CASE Crash
  BY <1>0, <1>10, IdleRecord DEF Crash, Typing
<1>11. CASE UNCHANGED evars
  BY <1>11 DEF evars, Typing
<1> QED
  BY <1>1, <1>2, <1>3, <1>4, <1>5, <1>6, <1>7, <1>8, <1>9, <1>10, <1>11
     DEF Next, Evict

\* Steps that leave all listings alone.
LEMMA OtherSteps ==
    ASSUME Typing,
           \/ \E v \in Vid : Touch(v)
           \/ UNCHANGED evars
    PROVE  /\ UNCHANGED <<ev, cached, missed, stuck>>
           /\ \A v \in Vid : atime[v] <= atime'[v]
<1>0. clock \in Nat /\ \A v \in Vid : atime[v] \in 0 .. clock
  BY EvictionAssumption DEF Typing
<1>1. ASSUME NEW u \in Vid, Touch(u)
      PROVE  \A v \in Vid : atime[v] <= atime'[v]
  <2>1. atime' = [atime EXCEPT ![u] = clock + 1] /\ atime \in [Vid -> 0 .. clock]
    BY <1>1 DEF Touch, Typing
  <2> QED
    BY <1>0, <2>1
<1>2. ASSUME UNCHANGED evars
      PROVE  \A v \in Vid : atime[v] <= atime'[v]
  BY <1>0, <1>2 DEF evars
<1>3. UNCHANGED <<ev, cached, missed, stuck>>
  BY DEF Touch, evars
<1> QED
  BY <1>1, <1>2, <1>3

LEMMA FailStep ==
    ASSUME Typing, NEW e \in Evictor, Fail(e)
    PROVE  /\ UNCHANGED <<cached, atime, missed, stuck>> /\ ev[e].pc = "downloading"
           /\ ev'[e] = idle /\ \A f \in Evictor : f # e => ev'[f] = ev[f]
  BY DEF Fail, Typing

LEMMA CrashStep ==
    ASSUME Crash
    PROVE  cached' = cached /\ \A f \in Evictor : ev'[f] = idle
  BY DEF Crash

LEMMA IdleFields ==
    /\ idle.pc = "idle" /\ idle.todo = {} /\ idle.left = {} /\ idle.total = 0
    /\ idle.kept = {}
  BY DEF idle

LEMMA QuietNext == Typing /\ Quiet /\ [Next]_evars => Quiet'
<1> SUFFICES ASSUME Typing, Quiet, [Next]_evars
             PROVE  Quiet'
  OBVIOUS
<1>1. ASSUME NEW e \in Evictor, NEW v \in Vid, Download(e, v)
      PROVE  Quiet'
  BY <1>1, DownloadStep DEF Quiet
<1>2. ASSUME NEW e \in Evictor, Fail(e) \/ Finish(e) \/ NoListing(e)
      PROVE  Quiet'
  BY <1>2, FailStep, EndStep, IdleFields DEF Quiet
<1>3. ASSUME NEW e \in Evictor, Publish(e)
      PROVE  Quiet'
  <2>1. ev'[e].pc = "evicting"
    BY <1>3, PublishStep
  <2>2. \A f \in Evictor : f # e =>
           /\ ev'[f].pc = ev[f].pc /\ ev'[f].todo = ev[f].todo
           /\ ev'[f].left = ev[f].left /\ ev'[f].total = ev[f].total
           /\ ev'[f].kept = ev[f].kept
    BY <1>3, PublishStep
  <2> QED
    BY <2>1, <2>2 DEF Quiet
<1>4. ASSUME NEW e \in Evictor, NEW v \in Vid, ListFile(e, v)
      PROVE  Quiet'
  BY <1>4, ListStep DEF Quiet
<1>5. ASSUME NEW e \in Evictor, NEW v \in Vid, MissFile(e, v)
      PROVE  Quiet'
  BY <1>5, MissStep DEF Quiet
<1>6. ASSUME NEW e \in Evictor, DeleteOldest(e)
      PROVE  Quiet'
  BY <1>6, DeleteStep DEF Quiet
<1>7. ASSUME NEW e \in Evictor, DeleteFails(e)
      PROVE  Quiet'
  BY <1>7, KeepStep DEF Quiet
<1>8. CASE Crash
  BY <1>8, CrashStep, IdleFields DEF Quiet
<1>9. CASE (\E v \in Vid : Touch(v)) \/ UNCHANGED evars
  BY <1>9, OtherSteps DEF Quiet
<1> QED
  BY <1>1, <1>2, <1>3, <1>4, <1>5, <1>6, <1>7, <1>8, <1>9 DEF Next, Evict

\* A name that leaves the listing leaves the names.
LEMMA NameGone ==
    ASSUME NEW e \in Evictor, CountedBy(e), NEW x \in ev[e].left,
           ev'[e].left = ev[e].left \ {x}
    PROVE  Names(e)' = Names(e) \ {x.vid}
  BY DEF CountedBy, Names

LEMMA CountedNext == Typing /\ Quiet /\ Counted /\ [Next]_evars => Counted'
<1> SUFFICES ASSUME Typing, Quiet, Counted, [Next]_evars
             PROVE  Counted'
  OBVIOUS
<1>0. \A e \in Evictor : CountedBy(e)
  BY DEF Counted
<1>a. \A e \in Evictor :
         /\ ev'[e].left = ev[e].left /\ ev'[e].todo \subseteq ev[e].todo
         /\ ev'[e].total = ev[e].total /\ ev'[e].kept = ev[e].kept
         => CountedBy(e)'
  BY <1>0 DEF CountedBy, Names
<1>b. \A e \in Evictor :
         ev'[e].left = {} /\ ev'[e].kept = {} /\ ev'[e].total = 0 => CountedBy(e)'
  <2> SUFFICES ASSUME NEW e \in Evictor, ev'[e].left = {}, ev'[e].kept = {},
                      ev'[e].total = 0
               PROVE  CountedBy(e)'
    OBVIOUS
  <2>1. Names(e)' = {} /\ Names(e)' \cup ev'[e].kept = {}
    BY DEF Names
  <2> QED
    BY <2>1, BytesEmpty DEF CountedBy
<1> SUFFICES \A e \in Evictor : CountedBy(e)'
  BY DEF Counted
<1>1. ASSUME NEW e \in Evictor, NEW v \in Vid, Download(e, v)
      PROVE  \A f \in Evictor : CountedBy(f)'
  BY <1>1, <1>a, DownloadStep
<1>2. ASSUME NEW e \in Evictor, Fail(e) \/ Finish(e) \/ NoListing(e)
      PROVE  \A f \in Evictor : CountedBy(f)'
  BY <1>2, <1>a, <1>b, FailStep, EndStep, IdleFields
<1>3. ASSUME NEW e \in Evictor, Publish(e)
      PROVE  \A f \in Evictor : CountedBy(f)'
  <2>1. ev'[e].left = {} /\ ev'[e].kept = {} /\ ev'[e].total = 0
    BY <1>3, PublishStep DEF Quiet
  <2> QED
    BY <1>3, <2>1, <1>a, <1>b, PublishStep
<1>4. ASSUME NEW e \in Evictor, NEW v \in Vid, ListFile(e, v)
      PROVE  \A f \in Evictor : CountedBy(f)'
  <2> SUFFICES CountedBy(e)'
    BY <1>4, <1>a, ListStep
  <2>1. CASE v \notin cached
    BY <1>4, <1>a, <2>1, ListStep
  <2>2. CASE v \in cached
    <3> DEFINE K == ev[e].kept
    <3>0. ev[e] \in Record(clock) /\ Size[v] \in Nat
      BY EvictionAssumption DEF Typing
    <3>1. PICK t : ev'[e].left = ev[e].left \cup {[vid |-> v, atime |-> t]}
      BY <1>4, <2>2, ListStep
    <3> DEFINE x == [vid |-> v, atime |-> t]
    <3>2. ev'[e].left = ev[e].left \cup {x} /\ x.vid = v
      BY <3>1
    <3> HIDE DEF x
    <3>3. Names(e)' = Names(e) \cup {v}
      BY <3>2 DEF Names
    <3>4. v \in ev[e].todo /\ ev'[e].todo = ev[e].todo \ {v} /\ ev'[e].kept = K
             /\ ev'[e].total = ev[e].total + Size[v]
      BY <1>4, <2>2, ListStep
    <3>5. v \notin Names(e) /\ v \notin K
      BY <1>0, <3>4 DEF CountedBy
    <3>6. Names(e) \in SUBSET Vid /\ K \in SUBSET Vid /\ ev[e].total \in Int
      BY <3>0 DEF Names, Record
    <3>7. Names(e)' \cup K = (Names(e) \cup K) \cup {v}
      BY <3>3
    <3>8. Bytes(Names(e)' \cup K) = Bytes(Names(e) \cup K) + Size[v]
      BY <3>5, <3>6, <3>7, BytesAdd
    <3>9. Bytes(Names(e) \cup K) \in Nat /\ Bytes(Names(e) \cup K) <= ev[e].total
      BY <1>0, <3>6, BytesStep DEF CountedBy
    <3>10. Bytes(Names(e)' \cup K) <= ev'[e].total
      BY <3>0, <3>4, <3>6, <3>8, <3>9
    <3>11. Names(e)' \cap ev'[e].todo = {} /\ K \cap ev'[e].todo = {}
              /\ Names(e)' \cap K = {}
      <4>1. Names(e) \cap ev[e].todo = {} /\ K \cap ev[e].todo = {}
               /\ Names(e) \cap K = {}
        BY <1>0 DEF CountedBy
      <4> HIDE DEF K
      <4> QED
        BY <3>3, <3>4, <3>5, <4>1
    <3>12. \A y, z \in ev'[e].left : y.vid = z.vid => y = z
      <4>1. \A y \in ev[e].left : y.vid # v
        BY <3>5 DEF Names
      <4> QED
        BY <1>0, <3>2, <4>1 DEF CountedBy
    <3> QED
      BY <3>4, <3>10, <3>11, <3>12 DEF CountedBy
  <2> QED
    BY <2>1, <2>2
<1>5. ASSUME NEW e \in Evictor, NEW v \in Vid, MissFile(e, v)
      PROVE  \A f \in Evictor : CountedBy(f)'
  BY <1>5, <1>a, MissStep
<1>6. ASSUME NEW e \in Evictor, DeleteOldest(e)
      PROVE  \A f \in Evictor : CountedBy(f)'
  <2> SUFFICES CountedBy(e)'
    BY <1>6, <1>a, DeleteStep
  <2>1. PICK x \in ev[e].left :
           /\ x \in [vid : Vid, atime : 0 .. clock]
           /\ ev'[e].left = ev[e].left \ {x}
           /\ x.vid \in cached => ev'[e].total = ev[e].total - Size[x.vid]
           /\ x.vid \notin cached => ev'[e].total = ev[e].total
    BY <1>6, DeleteStep DEF Oldest
  <2> DEFINE K == ev[e].kept
             S == Names(e) \cup K
  <2>2. ev[e] \in Record(clock) /\ Size[x.vid] \in Nat
    BY <2>1, EvictionAssumption DEF Typing
  <2>3. S \in SUBSET Vid /\ x.vid \in S /\ ev[e].total \in Int
    BY <2>1, <2>2 DEF Names, Record
  <2>4. Names(e)' = Names(e) \ {x.vid}
    BY <1>0, <2>1, NameGone
  <2>5. x.vid \in Names(e) /\ x.vid \notin K /\ ev'[e].kept = K
           /\ ev[e].todo = {} /\ ev'[e].todo = {}
    BY <1>0, <1>6, <2>1, DeleteStep DEF CountedBy, Names
  <2>6. Names(e)' \cup K = S \ {x.vid}
    BY <2>4, <2>5
  <2>7. Bytes(S) = Size[x.vid] + Bytes(S \ {x.vid})
           /\ Bytes(S \ {x.vid}) \in Nat /\ Bytes(S) <= ev[e].total
    BY <1>0, <2>3, BytesRemove, BytesStep DEF CountedBy
  <2>8. Bytes(S \ {x.vid}) <= ev'[e].total
    <3> HIDE DEF S
    <3>1. CASE x.vid \in cached
      BY <2>1, <2>2, <2>3, <2>7, <3>1
    <3>2. CASE x.vid \notin cached
      BY <2>1, <2>2, <2>3, <2>7, <3>2
    <3> QED
      BY <3>1, <3>2
  <2> QED
    BY <1>0, <2>1, <2>4, <2>5, <2>6, <2>8 DEF CountedBy
<1>7. ASSUME NEW e \in Evictor, DeleteFails(e)
      PROVE  \A f \in Evictor : CountedBy(f)'
  <2> SUFFICES CountedBy(e)'
    BY <1>7, <1>a, KeepStep
  <2>1. PICK x \in ev[e].left :
           /\ ev'[e].left = ev[e].left \ {x}
           /\ ev'[e].kept = ev[e].kept \cup {x.vid}
    BY <1>7, KeepStep
  <2>2. Names(e)' = Names(e) \ {x.vid} /\ x.vid \in Names(e)
    BY <1>0, <2>1, NameGone DEF Names
  <2>3. Names(e)' \cup ev'[e].kept = Names(e) \cup ev[e].kept
           /\ Names(e)' \cap ev'[e].kept = {}
    <3>1. Names(e) \cap ev[e].kept = {}
      BY <1>0 DEF CountedBy
    <3> QED
      BY <2>1, <2>2, <3>1
  <2>4. ev'[e].todo = {} /\ ev'[e].total = ev[e].total
    BY <1>7, KeepStep
  <2> QED
    BY <1>0, <2>1, <2>3, <2>4 DEF CountedBy
<1>8. CASE Crash
  BY <1>8, <1>b, CrashStep, IdleFields
<1>9. CASE (\E v \in Vid : Touch(v)) \/ UNCHANGED evars
  BY <1>9, <1>a, OtherSteps
<1> QED
  BY <1>1, <1>2, <1>3, <1>4, <1>5, <1>6, <1>7, <1>8, <1>9 DEF Next, Evict

\* No step of an eviction makes a file unknown but one it fails to see.
LEMMA UnknownList ==
    ASSUME Typing, NEW e \in Evictor, NEW v \in Vid, ListFile(e, v),
           NEW f \in Evictor
    PROVE  Unknown(f)' \subseteq Unknown(f)
<1>1. cached' = cached /\ stuck' = stuck
  BY ListStep
<1>2. CASE f # e
  BY <1>1, <1>2, ListStep DEF Unknown, Names
<1>3. CASE f = e /\ v \notin cached
  BY <1>1, <1>3, ListStep DEF Unknown, Names
<1>4. CASE f = e /\ v \in cached
  <2>1. PICK t : ev'[e].left = ev[e].left \cup {[vid |-> v, atime |-> t]}
    BY <1>4, ListStep
  <2> DEFINE x == [vid |-> v, atime |-> t]
  <2>2. ev'[e].left = ev[e].left \cup {x} /\ x.vid = v
    BY <2>1
  <2> HIDE DEF x
  <2>3. Names(e)' = Names(e) \cup {v}
    BY <2>2 DEF Names
  <2>4. ev'[e].todo = ev[e].todo \ {v} /\ ev'[e].kept = ev[e].kept
    BY ListStep
  <2> QED
    BY <1>1, <1>4, <2>3, <2>4 DEF Unknown
<1> QED
  BY <1>2, <1>3, <1>4

LEMMA UnknownMiss ==
    ASSUME Typing, NEW e \in Evictor, NEW v \in Vid, MissFile(e, v),
           NEW f \in Evictor
    PROVE  Unknown(f)' \subseteq Unknown(f) \cup missed'
<1>1. cached' = cached /\ stuck' = stuck /\ v \in missed'
  BY MissStep
<1>2. CASE f # e
  BY <1>1, <1>2, MissStep DEF Unknown, Names
<1>3. CASE f = e
  BY <1>1, <1>3, MissStep DEF Unknown, Names
<1> QED
  BY <1>2, <1>3

LEMMA UnknownDelete ==
    ASSUME Typing, NEW e \in Evictor, DeleteOldest(e), NEW f \in Evictor
    PROVE  Unknown(f)' \subseteq Unknown(f)
<1>1. PICK x \in ev[e].left :
         cached' = cached \ {x.vid} /\ ev'[e].left = ev[e].left \ {x}
  BY DeleteStep DEF Oldest
<1>2. stuck' = stuck
  BY DeleteStep
<1>3. CASE f # e
  BY <1>1, <1>2, <1>3, DeleteStep DEF Unknown, Names
<1>4. CASE f = e
  <2>1. ev[e].todo = {} /\ ev'[e].todo = {} /\ ev'[e].kept = ev[e].kept
    BY DeleteStep
  <2>2. Names(e) \ {x.vid} \subseteq Names(e)'
    BY <1>1 DEF Names
  <2> QED
    BY <1>1, <1>2, <1>4, <2>1, <2>2 DEF Unknown
<1> QED
  BY <1>3, <1>4

LEMMA UnknownKeep ==
    ASSUME Typing, NEW e \in Evictor, DeleteFails(e), NEW f \in Evictor
    PROVE  Unknown(f)' \subseteq Unknown(f)
<1>1. PICK x \in ev[e].left :
         /\ stuck' = stuck \cup {x.vid} /\ ev'[e].left = ev[e].left \ {x}
         /\ ev'[e].kept = ev[e].kept \cup {x.vid}
  BY KeepStep
<1>2. cached' = cached
  BY KeepStep
<1>3. CASE f # e
  BY <1>1, <1>2, <1>3, KeepStep DEF Unknown, Names
<1>4. CASE f = e
  <2>1. ev[e].todo = {} /\ ev'[e].todo = {}
    BY KeepStep
  <2>2. Names(e) \ {x.vid} \subseteq Names(e)'
    BY <1>1 DEF Names
  <2> QED
    BY <1>1, <1>2, <1>4, <2>1, <2>2 DEF Unknown
<1> QED
  BY <1>3, <1>4

LEMMA LonelyNext ==
    Typing /\ Quiet /\ Counted /\ Lonely /\ [Next]_evars => Lonely'
<1> SUFFICES ASSUME Typing, Quiet, Counted, Lonely, [Next]_evars
             PROVE  Lonely'
  OBVIOUS
<1>0. \A f \in Evictor : ev[f].pc = "evicting" /\ ev[f].alone => Exact(f)
  BY DEF Lonely, Evicting
<1>a. (\A f \in Evictor : ev'[f].pc = "evicting" /\ ev'[f].alone => Exact(f)')
         => Lonely'
  BY DEF Lonely, Evicting
<1>b. cached \in SUBSET Vid /\ \A f \in Evictor : ev[f] \in Record(clock)
  BY DEF Typing
\* A step that leaves the files and every eviction under way as they are.
<1>c. ASSUME UNCHANGED <<cached, missed, stuck>>,
             \A v \in Vid : atime[v] <= atime'[v],
             atime' \in [Vid -> Int],
             \A f \in Evictor :
                ev'[f].pc = "evicting" => ev[f].pc = "evicting" /\ ev'[f] = ev[f]
      PROVE  Lonely'
  <2>1. Evicting' \subseteq Evicting
    BY <1>c DEF Evicting
  <2>2. ASSUME NEW f \in Evictor, ev'[f].pc = "evicting", ev'[f].alone
        PROVE  Exact(f)'
    <3>1. Exact(f) /\ ev'[f] = ev[f]
      BY <1>0, <1>c, <2>2
    <3>2. Unknown(f)' = Unknown(f)
      BY <1>c, <3>1 DEF Unknown, Names
    <3>3. \A x \in ev'[f].left : x.atime <= atime'[x.vid]
      <4> SUFFICES ASSUME NEW x \in ev[f].left PROVE x.atime <= atime'[x.vid]
        BY <3>1
      <4>1. x.vid \in Vid /\ x.atime \in Int /\ x.atime <= atime[x.vid]
               /\ atime[x.vid] \in Int
        BY <1>b, <3>1 DEF Exact, Record, Typing
      <4>2. atime[x.vid] <= atime'[x.vid] /\ atime'[x.vid] \in Int
        BY <1>c, <4>1
      <4> QED
        BY <4>1, <4>2
    <3> QED
      BY <1>c, <2>1, <3>1, <3>2, <3>3 DEF Exact
  <2> QED
    BY <1>a, <2>2
<1>c1. atime \in [Vid -> Int] /\ \A v \in Vid : atime[v] <= atime[v]
  BY DEF Typing
\* A step of an eviction: no other one is alone.
<1>d. ASSUME NEW e \in Evictor, ev[e].pc = "evicting", ev'[e].pc = "evicting",
             ev'[e].alone = ev[e].alone,
             \A f \in Evictor : f # e => ev'[f] = ev[f],
             Exact(e) => /\ Unknown(e)' \subseteq missed'
                         /\ ev'[e].total <= Bytes(cached' \ ev'[e].todo)
                         /\ \A x \in ev'[e].left : x.atime <= atime'[x.vid]
      PROVE  Lonely'
  <2>1. Evicting' = Evicting /\ e \in Evicting
    BY <1>d DEF Evicting
  <2>2. ASSUME NEW f \in Evictor, ev'[f].pc = "evicting", ev'[f].alone
        PROVE  Exact(f)'
    <3>1. Exact(f)
      BY <1>0, <1>d, <2>2
    <3>2. f = e
      BY <2>1, <3>1 DEF Exact
    <3> QED
      BY <1>d, <2>1, <3>1, <3>2 DEF Exact
  <2> QED
    BY <1>a, <2>2
<1>1. ASSUME NEW e \in Evictor, NEW v \in Vid, Download(e, v)
      PROVE  Lonely'
  <2>1. UNCHANGED <<cached, atime, missed, stuck>>
    BY <1>1 DEF Download
  <2> QED
    BY <1>1, <1>c, <1>c1, <2>1, DownloadStep
<1>2. ASSUME NEW e \in Evictor, Fail(e)
      PROVE  Lonely'
  BY <1>2, <1>c, <1>c1, FailStep, IdleFields
<1>3. ASSUME NEW e \in Evictor, Publish(e)
      PROVE  Lonely'
  <2>1. ev[e].pc = "downloading" /\ ev'[e].pc = "evicting"
           /\ ev'[e].todo = Vid /\ ev'[e].total = ev[e].total
           /\ ev'[e].left = ev[e].left /\ ev'[e].alone = (Evicting = {})
           /\ cached' = cached \cup {ev[e].vid} /\ ev[e].vid \in Vid
    BY <1>3, PublishStep
  <2>2. \A f \in Evictor : f # e => ev'[f].alone = FALSE /\ ev'[f].pc = ev[f].pc
    BY <1>3, PublishStep
  <2>3. ev[e].total = 0 /\ ev[e].left = {}
    BY <2>1 DEF Quiet
  <2>4. cached' \ ev'[e].todo = {}
    BY <1>b, <2>1
  <2>5. Unknown(e)' = {}
    BY <2>4 DEF Unknown
  <2>6. ev'[e].total <= Bytes(cached' \ ev'[e].todo)
    BY <2>1, <2>3, <2>4, BytesEmpty
  <2>7. ASSUME NEW f \in Evictor, ev'[f].pc = "evicting", ev'[f].alone
        PROVE  Exact(f)'
    <3>1. f = e /\ Evicting = {}
      BY <2>1, <2>2, <2>7
    <3>2. Evicting' = {e}
      BY <2>1, <2>2, <3>1 DEF Evicting
    <3> QED
      BY <2>1, <2>3, <2>5, <2>6, <3>1, <3>2 DEF Exact
  <2> QED
    BY <1>a, <2>7
<1>4. ASSUME NEW e \in Evictor, NEW v \in Vid, ListFile(e, v)
      PROVE  Lonely'
  <2>1. v \in ev[e].todo /\ ev'[e].pc = ev[e].pc /\ ev'[e].todo = ev[e].todo \ {v}
           /\ UNCHANGED <<cached, atime, missed>>
    BY <1>4, ListStep
  <2>2. ev[e].pc = "evicting"
    BY <2>1 DEF Quiet
  <2>3. ASSUME Exact(e)
        PROVE  /\ Unknown(e)' \subseteq missed'
               /\ ev'[e].total <= Bytes(cached' \ ev'[e].todo)
               /\ \A x \in ev'[e].left : x.atime <= atime'[x.vid]
    <3>1. Unknown(e)' \subseteq missed'
      BY <1>4, <2>1, <2>3, UnknownList DEF Exact
    <3>2. CASE v \notin cached
      <4>1. cached' \ ev'[e].todo = cached \ ev[e].todo
        BY <2>1, <3>2
      <4> QED
        BY <1>4, <2>1, <2>3, <3>1, <3>2, <4>1, ListStep DEF Exact
    <3>3. CASE v \in cached
      <4>1. cached' \ ev'[e].todo = (cached \ ev[e].todo) \cup {v}
        BY <2>1, <3>3
      <4>2. Bytes(cached' \ ev'[e].todo) = Bytes(cached \ ev[e].todo) + Size[v]
        BY <1>b, <2>1, <4>1, BytesAdd
      <4>3. Bytes(cached \ ev[e].todo) \in Nat /\ ev[e].total \in Int
               /\ Size[v] \in Nat
        BY <1>b, BytesStep, EvictionAssumption DEF Record
      <4>4. ev'[e].total = ev[e].total + Size[v]
               /\ ev[e].total <= Bytes(cached \ ev[e].todo)
        BY <1>4, <2>3, <3>3, ListStep DEF Exact
      <4>5. ev'[e].total <= Bytes(cached' \ ev'[e].todo)
        BY <4>2, <4>3, <4>4
      <4>6. PICK t \in {atime[v], 0} :
               ev'[e].left = ev[e].left \cup {[vid |-> v, atime |-> t]}
        BY <1>4, <3>3, ListStep
      <4>7. atime[v] \in 0 .. clock /\ clock \in Nat
        BY EvictionAssumption DEF Typing
      <4>8. t <= atime[v]
        BY <4>7
      <4>9. \A x \in ev'[e].left : x.atime <= atime'[x.vid]
        BY <2>1, <2>3, <4>6, <4>8 DEF Exact
      <4> QED
        BY <3>1, <4>5, <4>9
    <3> QED
      BY <3>2, <3>3
  <2> QED
    BY <1>4, <1>d, <2>1, <2>2, <2>3, ListStep
<1>5. ASSUME NEW e \in Evictor, NEW v \in Vid, MissFile(e, v)
      PROVE  Lonely'
  <2>1. v \in ev[e].todo /\ ev'[e].pc = ev[e].pc /\ ev'[e].todo = ev[e].todo \ {v}
           /\ UNCHANGED <<cached, atime>> /\ missed' = missed \cup {v}
           /\ ev'[e].left = ev[e].left /\ ev'[e].total = ev[e].total
    BY <1>5, MissStep
  <2>2. ev[e].pc = "evicting"
    BY <2>1 DEF Quiet
  <2>3. ASSUME Exact(e)
        PROVE  /\ Unknown(e)' \subseteq missed'
               /\ ev'[e].total <= Bytes(cached' \ ev'[e].todo)
               /\ \A x \in ev'[e].left : x.atime <= atime'[x.vid]
    <3> DEFINE C == cached \ ev[e].todo
               D == cached' \ ev'[e].todo
    <3>1. Unknown(e)' \subseteq missed'
      BY <1>5, <2>1, <2>3, UnknownMiss DEF Exact
    <3>2. D \in SUBSET Vid /\ C \in SUBSET D
      BY <1>b, <2>1
    <3>3. ev[e].total <= Bytes(C) /\ ev[e].total \in Int
      BY <1>b, <2>3 DEF Exact, Record
    <3>4. \A x \in ev'[e].left : x.atime <= atime'[x.vid]
      BY <2>1, <2>3 DEF Exact
    <3> HIDE DEF C, D
    <3>5. Bytes(C) <= Bytes(D) /\ Bytes(C) \in Nat /\ Bytes(D) \in Nat
      BY <3>2, BytesMonotone, BytesStep
    <3>6. ev[e].total <= Bytes(D)
      BY <3>3, <3>5
    <3> QED
      BY <2>1, <3>1, <3>4, <3>6 DEF D
  <2> QED
    BY <1>5, <1>d, <2>1, <2>2, <2>3, MissStep
<1>6. ASSUME NEW e \in Evictor, DeleteOldest(e)
      PROVE  Lonely'
  <2>1. PICK x \in ev[e].left :
           /\ x \in [vid : Vid, atime : 0 .. clock]
           /\ cached' = cached \ {x.vid}
           /\ atime' = [atime EXCEPT ![x.vid] = 0]
           /\ ev'[e].left = ev[e].left \ {x}
           /\ x.vid \in cached => ev'[e].total = ev[e].total - Size[x.vid]
           /\ x.vid \notin cached => ev'[e].total = ev[e].total
    BY <1>6, DeleteStep DEF Oldest
  <2>2. missed' = missed /\ ev[e].todo = {} /\ ev'[e].todo = {}
    BY <1>6, DeleteStep
  <2>3. ASSUME Exact(e)
        PROVE  /\ Unknown(e)' \subseteq missed'
               /\ ev'[e].total <= Bytes(cached' \ ev'[e].todo)
               /\ \A y \in ev'[e].left : y.atime <= atime'[y.vid]
    <3>1. Unknown(e)' \subseteq missed'
      BY <1>6, <2>2, <2>3, UnknownDelete DEF Exact
    <3>2. cached \ ev[e].todo = cached /\ cached' \ ev'[e].todo = cached \ {x.vid}
      BY <2>1, <2>2
    <3>3. ev[e].total <= Bytes(cached) /\ ev[e].total \in Int /\ Size[x.vid] \in Nat
      BY <1>b, <2>1, <2>3, <3>2, EvictionAssumption DEF Exact, Record
    <3>4. Bytes(cached) \in Nat /\ Bytes(cached \ {x.vid}) \in Nat
      BY <1>b, BytesStep
    <3>5. ev'[e].total <= Bytes(cached \ {x.vid})
      <4>1. CASE x.vid \in cached
        <5>1. Bytes(cached) = Size[x.vid] + Bytes(cached \ {x.vid})
          BY <1>b, <4>1, BytesRemove
        <5> QED
          BY <2>1, <3>3, <3>4, <4>1, <5>1
      <4>2. CASE x.vid \notin cached
        <5>1. cached \ {x.vid} = cached
          BY <4>2
        <5> QED
          BY <2>1, <3>3, <4>2, <5>1
      <4> QED
        BY <4>1, <4>2
    <3>6. ASSUME NEW y \in ev'[e].left
          PROVE  y.atime <= atime'[y.vid]
      <4>1. y \in ev[e].left /\ y.vid # x.vid
        BY <2>1 DEF Counted, CountedBy
      <4>2. y.vid \in Vid
        BY <1>b, <4>1 DEF Record
      <4>3. atime'[y.vid] = atime[y.vid]
        BY <2>1, <4>1, <4>2 DEF Typing
      <4> QED
        BY <2>3, <4>1, <4>3 DEF Exact
    <3> QED
      BY <3>1, <3>2, <3>5, <3>6
  <2> QED
    BY <1>6, <1>d, <2>3, DeleteStep
<1>7. ASSUME NEW e \in Evictor, DeleteFails(e)
      PROVE  Lonely'
  <2>1. /\ UNCHANGED <<cached, atime, missed>>
        /\ ev[e].todo = {} /\ ev'[e].todo = {}
        /\ ev'[e].total = ev[e].total
        /\ ev'[e].left \subseteq ev[e].left
    BY <1>7, KeepStep
  <2>2. ASSUME Exact(e)
        PROVE  /\ Unknown(e)' \subseteq missed'
               /\ ev'[e].total <= Bytes(cached' \ ev'[e].todo)
               /\ \A x \in ev'[e].left : x.atime <= atime'[x.vid]
    <3>1. Unknown(e)' \subseteq missed'
      BY <1>7, <2>1, <2>2, UnknownKeep DEF Exact
    <3> QED
      BY <2>1, <2>2, <3>1 DEF Exact
  <2> QED
    BY <1>7, <1>d, <2>2, KeepStep
<1>8. ASSUME NEW e \in Evictor, Finish(e) \/ NoListing(e)
      PROVE  Lonely'
  <2>1. ev[e].pc = "evicting" /\ ev'[e].pc = "idle"
           /\ \A f \in Evictor : f # e => ev'[f] = ev[f]
    BY <1>8, EndStep, IdleFields
  <2>2. ASSUME NEW f \in Evictor, ev'[f].pc = "evicting", ev'[f].alone
        PROVE  FALSE
    <3>1. f # e
      BY <2>1, <2>2
    <3>2. ev'[f] = ev[f] /\ Exact(f)
      BY <1>0, <2>1, <2>2, <3>1
    <3> QED
      BY <2>1, <3>1, <3>2 DEF Exact, Evicting
  <2> QED
    BY <1>a, <2>2
<1>9. CASE Crash
  BY <1>9, <1>a, CrashStep, IdleFields
<1>10. CASE (\E v \in Vid : Touch(v)) \/ UNCHANGED evars
  <2>1. atime' \in [Vid -> Int]
    BY TypingNext DEF Typing
  <2> QED
    BY <1>10, <1>c, <2>1, OtherSteps
<1> QED
  BY <1>1, <1>2, <1>3, <1>4, <1>5, <1>6, <1>7, <1>8, <1>9, <1>10 DEF Next, Evict

LEMMA Inductive == Spec => []IInv
<1>1. Init => IInv
  <2> SUFFICES ASSUME Init PROVE IInv
    OBVIOUS
  <2>1. Typing
    BY TypingInit
  <2>2. \A e \in Evictor : ev[e] = idle
    BY DEF Init
  <2>3. Quiet
    BY <2>2, IdleFields DEF Quiet
  <2>4. ASSUME NEW e \in Evictor
        PROVE  CountedBy(e)
    <3>1. ev[e].left = {} /\ ev[e].kept = {} /\ ev[e].total = 0 /\ Names(e) = {}
      BY <2>2, IdleFields DEF Names
    <3>2. Bytes(Names(e) \cup ev[e].kept) = 0
      BY <3>1, BytesEmpty
    <3> QED
      BY <3>1, <3>2 DEF CountedBy
  <2>5. Evicting = {}
    BY <2>2, IdleFields DEF Evicting
  <2>6. Counted /\ Lonely
    BY <2>4, <2>5 DEF Counted, Lonely
  <2> QED
    BY <2>1, <2>3, <2>6 DEF IInv
<1>2. IInv /\ [Next]_evars => IInv'
  BY TypingNext, QuietNext, CountedNext, LonelyNext DEF IInv
<1> QED
  BY <1>1, <1>2, PTL DEF Spec

-----------------------------------------------------------------------------
(* Evictions that overlap: which of them publishes after which.             *)

\* The files of the evictions under way that R puts after e, and those that
\* could not be seen.
Spared(R, e) == {ev[f].vid : f \in {g \in Evicting : <<e, g>> \in R}} \cup missed

\* An eviction does not know of the files L at most; or without them the cache C
\* is within its cap, or none of it can be removed: all of it is in K.
Settled(U, C, L, K) ==
    U \subseteq L \/ Bytes(C \ L) <= CacheMaxBytes \/ C \ L \subseteq K

Order(R) ==
    /\ \A e \in Evictor : <<e, e>> \notin R
    /\ \A e, f, g \in Evictor : <<e, f>> \in R /\ <<f, g>> \in R => <<e, g>> \in R

\* For the order R in which they published, each eviction is settled but for the
\* files of later ones that are still under way, and those not seen.
SettledBy(R) ==
    \A e \in Evicting : Settled(Unknown(e), cached, Spared(R, e), stuck)

Overtaken ==
    \E R \in SUBSET (Evictor \X Evictor) : Order(R) /\ SettledBy(R)

\* It stays so while fewer files count, and all that is newly unknown is in M.
LEMMA SettledStays ==
    ASSUME NEW U, NEW W, NEW C \in SUBSET Vid, NEW D, NEW L, NEW M, NEW J, NEW K,
           Settled(U, C, L, K),
           L \subseteq M, D \ M \subseteq C \ L, W \subseteq U \cup M,
           K \ M \subseteq J
    PROVE  Settled(W, D, M, J)
<1>1. CASE U \subseteq L
  BY <1>1 DEF Settled
<1>2. CASE Bytes(C \ L) <= CacheMaxBytes
  <2>1. C \ L \in SUBSET Vid /\ D \ M \in SUBSET (C \ L)
    OBVIOUS
  <2>2. Bytes(D \ M) <= Bytes(C \ L)
    BY <2>1, BytesMonotone
  <2>3. Bytes(D \ M) \in Nat /\ Bytes(C \ L) \in Nat /\ CacheMaxBytes \in Nat
    BY <2>1, BytesStep, EvictionAssumption
  <2>4. Bytes(D \ M) <= CacheMaxBytes
    BY <1>2, <2>2, <2>3
  <2> QED
    BY <2>4 DEF Settled
<1>3. CASE C \ L \subseteq K
  <2>1. D \ M \subseteq J
    BY <1>3
  <2> QED
    BY <2>1 DEF Settled
<1> QED
  BY <1>1, <1>2, <1>3 DEF Settled

\* Steps that begin and end no eviction.
LEMMA SettledFrame ==
    ASSUME Typing, cached' \subseteq cached, Evicting' = Evicting,
           missed \subseteq missed', stuck \subseteq stuck',
           \A f \in Evicting : /\ ev'[f].vid = ev[f].vid
                               /\ Unknown(f)' \subseteq Unknown(f) \cup missed',
           NEW R, SettledBy(R)
    PROVE  SettledBy(R)'
<1> SUFFICES ASSUME NEW e \in Evicting
             PROVE  Settled(Unknown(e)', cached', Spared(R, e)', stuck')
  BY DEF SettledBy, Settled
<1> DEFINE V == {ev[f].vid : f \in {g \in Evicting : <<e, g>> \in R}}
<1>1. Spared(R, e) = V \cup missed /\ Spared(R, e)' = V \cup missed'
  BY DEF Spared
<1>2. Settled(Unknown(e), cached, Spared(R, e), stuck) /\ cached \in SUBSET Vid
  BY DEF SettledBy, Typing
<1> HIDE DEF V
<1>3. /\ Spared(R, e) \subseteq Spared(R, e)'
      /\ cached' \ Spared(R, e)' \subseteq cached \ Spared(R, e)
      /\ Unknown(e)' \subseteq Unknown(e) \cup Spared(R, e)'
      /\ stuck \ Spared(R, e)' \subseteq stuck'
  BY <1>1
<1> QED
  BY <1>2, <1>3, SettledStays

\* When an eviction ends, what it does not know of is all that may be too much,
\* or what is left could not be removed.
LEMMA EndsWithin ==
    ASSUME Typing, Counted, NEW e \in Evictor, Finish(e), NEW L,
           Settled(Unknown(e), cached, L, stuck)
    PROVE  Bytes(cached \ L) <= CacheMaxBytes \/ cached \ L \subseteq stuck
<1> DEFINE S == Names(e) \cup ev[e].kept
<1>1. ev[e].todo = {} /\ (ev[e].total <= CacheMaxBytes \/ ev[e].left = {})
  BY DEF Finish
<1>2. S \in SUBSET Vid /\ ev[e].total \in Int /\ cached \ L \in SUBSET Vid
  BY DEF Typing, Record, Names
<1>3. SUFFICES ASSUME Unknown(e) \subseteq L
               PROVE  Bytes(cached \ L) <= CacheMaxBytes \/ cached \ L \subseteq stuck
  BY DEF Settled
<1>4. cached \ L \subseteq Names(e) \cup (ev[e].kept \cap stuck)
  BY <1>1, <1>3 DEF Unknown
<1>5. CASE ev[e].total <= CacheMaxBytes
  <2>1. cached \ L \in SUBSET S /\ Bytes(S) <= ev[e].total
    BY <1>4 DEF Counted, CountedBy
  <2> HIDE DEF S
  <2>2. Bytes(cached \ L) <= Bytes(S)
    BY <1>2, <2>1, BytesMonotone
  <2>3. Bytes(cached \ L) \in Nat /\ Bytes(S) \in Nat /\ CacheMaxBytes \in Nat
    BY <1>2, BytesStep, EvictionAssumption
  <2> QED
    BY <1>2, <1>5, <2>1, <2>2, <2>3
<1>6. CASE ev[e].left = {}
  BY <1>4, <1>6 DEF Names
<1> QED
  BY <1>1, <1>5, <1>6

LEMMA OvertakenNext ==
    Typing /\ Quiet /\ Counted /\ Overtaken /\ [Next]_evars => Overtaken'
<1> SUFFICES ASSUME Typing, Quiet, Counted, [Next]_evars,
                    NEW R \in SUBSET (Evictor \X Evictor), Order(R), SettledBy(R)
             PROVE  Overtaken'
  BY DEF Overtaken
<1>0. cached \in SUBSET Vid /\ Evicting \subseteq Evictor
  BY DEF Typing, Evicting
<1>a. ASSUME cached' \subseteq cached, Evicting' = Evicting,
             missed \subseteq missed', stuck \subseteq stuck',
             \A f \in Evicting : /\ ev'[f].vid = ev[f].vid
                                 /\ Unknown(f)' \subseteq Unknown(f) \cup missed'
      PROVE  Overtaken'
  BY <1>a, SettledFrame DEF Overtaken
<1>b. ASSUME UNCHANGED <<cached, missed, stuck>>, Evicting' = Evicting,
             \A f \in Evicting : ev'[f] = ev[f]
      PROVE  Overtaken'
  BY <1>a, <1>b DEF Unknown, Names
<1>1. ASSUME NEW e \in Evictor, NEW v \in Vid, Download(e, v)
      PROVE  Overtaken'
  BY <1>1, <1>b, DownloadStep DEF Evicting, Download
<1>2. ASSUME NEW e \in Evictor, Fail(e)
      PROVE  Overtaken'
  BY <1>2, <1>b, FailStep, IdleFields DEF Evicting
<1>3. ASSUME NEW e \in Evictor, Publish(e)
      PROVE  Overtaken'
  <2> DEFINE v == ev[e].vid
             Q == {p \in R : p[1] # e /\ p[2] # e}
                     \cup {<<g, e>> : g \in Evictor \ {e}}
  <2>0. /\ v \in Vid /\ cached' = cached \cup {v}
        /\ missed' = missed \ {v} /\ stuck' = stuck \ {v}
        /\ ev[e].pc = "downloading" /\ ev'[e].pc = "evicting"
        /\ ev'[e].vid = v /\ ev'[e].todo = Vid
        /\ \A f \in Evictor : f # e =>
              /\ ev'[f].pc = ev[f].pc /\ ev'[f].vid = ev[f].vid
              /\ ev'[f].todo = ev[f].todo /\ ev'[f].left = ev[f].left
              /\ ev'[f].kept = ev[f].kept
    BY <1>3, PublishStep
  <2>1. Evicting' = Evicting \cup {e} /\ e \notin Evicting
    BY <2>0 DEF Evicting
  <2>2. \A g, f \in Evictor :
           <<g, f>> \in Q <=> g # e /\ (f = e \/ <<g, f>> \in R)
    OBVIOUS
  <2>3. Q \in SUBSET (Evictor \X Evictor)
    OBVIOUS
  <2> HIDE DEF Q
  <2>4. Order(Q)
    BY <2>2 DEF Order
  <2>5. ASSUME NEW g \in Evicting, g # e
        PROVE  Settled(Unknown(g)', cached', Spared(Q, g)', stuck')
    <3>1. v \in Spared(Q, g)'
      BY <1>0, <2>0, <2>1, <2>2 DEF Spared
    <3>2. Spared(R, g) \subseteq Spared(Q, g)'
      <4>1. ASSUME NEW f \in Evicting, <<g, f>> \in R
            PROVE  ev[f].vid \in Spared(Q, g)'
        <5>1. f # e /\ f \in Evicting' /\ <<g, f>> \in Q /\ ev'[f].vid = ev[f].vid
          BY <1>0, <2>0, <2>1, <2>2, <2>5, <4>1
        <5> QED
          BY <5>1 DEF Spared
      <4>2. missed \subseteq Spared(Q, g)'
        BY <2>0, <3>1 DEF Spared
      <4> QED
        BY <4>1, <4>2 DEF Spared
    <3>3. Unknown(g)' \subseteq Unknown(g) \cup Spared(Q, g)'
      BY <1>0, <2>0, <2>5, <3>1 DEF Unknown, Names
    <3>4. cached' \ Spared(Q, g)' \subseteq cached \ Spared(R, g)
             /\ stuck \ Spared(Q, g)' \subseteq stuck'
      BY <2>0, <3>1, <3>2
    <3>5. Settled(Unknown(g), cached, Spared(R, g), stuck)
      BY DEF SettledBy
    <3> QED
      BY <1>0, <3>2, <3>3, <3>4, <3>5, SettledStays
  <2>6. Settled(Unknown(e)', cached', Spared(Q, e)', stuck')
    BY <1>0, <2>0 DEF Settled, Unknown
  <2>7. SettledBy(Q)'
    BY <2>1, <2>5, <2>6 DEF SettledBy, Settled
  <2> QED
    BY <2>3, <2>4, <2>7 DEF Overtaken
<1>4. ASSUME NEW e \in Evictor, NEW v \in Vid, ListFile(e, v)
      PROVE  Overtaken'
  <2>1. UNCHANGED <<cached, missed, stuck>> /\ Evicting' = Evicting
           /\ \A f \in Evictor : ev'[f].vid = ev[f].vid
    BY <1>4, ListStep DEF Evicting
  <2> QED
    BY <1>0, <1>4, <1>a, <2>1, UnknownList
<1>5. ASSUME NEW e \in Evictor, NEW v \in Vid, MissFile(e, v)
      PROVE  Overtaken'
  <2>1. UNCHANGED <<cached, stuck>> /\ missed \subseteq missed'
           /\ Evicting' = Evicting /\ \A f \in Evictor : ev'[f].vid = ev[f].vid
    BY <1>5, MissStep DEF Evicting
  <2> QED
    BY <1>0, <1>5, <1>a, <2>1, UnknownMiss
<1>6. ASSUME NEW e \in Evictor, DeleteOldest(e)
      PROVE  Overtaken'
  <2>1. UNCHANGED <<missed, stuck>> /\ Evicting' = Evicting
           /\ cached' \subseteq cached /\ \A f \in Evictor : ev'[f].vid = ev[f].vid
    BY <1>6, DeleteStep DEF Evicting
  <2> QED
    BY <1>0, <1>6, <1>a, <2>1, UnknownDelete
<1>7. ASSUME NEW e \in Evictor, DeleteFails(e)
      PROVE  Overtaken'
  <2>1. UNCHANGED <<cached, missed>> /\ stuck \subseteq stuck'
           /\ Evicting' = Evicting /\ \A f \in Evictor : ev'[f].vid = ev[f].vid
    BY <1>7, KeepStep DEF Evicting
  <2> QED
    BY <1>0, <1>7, <1>a, <2>1, UnknownKeep
<1>8. ASSUME NEW e \in Evictor, Finish(e) \/ NoListing(e)
      PROVE  Overtaken'
  <2>1. cached' = cached /\ Evicting' = Evicting \ {e} /\ e \in Evicting
           /\ \A f \in Evictor : f # e => ev'[f] = ev[f]
    BY <1>8, EndStep, IdleFields DEF Evicting
  <2>2. ASSUME NEW g \in Evicting, g # e
        PROVE  Settled(Unknown(g)', cached', Spared(R, g)', stuck')
    <3>1. /\ stuck' = stuck /\ missed \subseteq missed'
          /\ NoListing(e) => ev[e].vid \in missed'
      <4>1. Evicting # {e}
        BY <2>2
      <4> QED
        BY <1>8, <4>1 DEF Finish, NoListing, InBurst
    <3>2. Unknown(g)' = Unknown(g)
      BY <1>0, <2>1, <2>2, <3>1 DEF Unknown, Names
    <3>3. \A f \in Evicting : <<g, f>> \in R /\ f # e => ev[f].vid \in Spared(R, g)'
      BY <1>0, <2>1 DEF Spared
    <3>4. missed \subseteq Spared(R, g)'
      BY <3>1 DEF Spared
    <3>5. Settled(Unknown(g), cached, Spared(R, g), stuck)
      BY DEF SettledBy
    <3>6. CASE <<g, e>> \notin R \/ NoListing(e)
      <4>1. <<g, e>> \in R => ev[e].vid \in Spared(R, g)'
        BY <3>1, <3>6 DEF Spared
      <4>2. \A f \in Evicting : <<g, f>> \in R => ev[f].vid \in Spared(R, g)'
        BY <3>3, <4>1
      <4>3. Spared(R, g) \subseteq Spared(R, g)'
        BY <3>4, <4>2 DEF Spared
      <4>4. cached' \ Spared(R, g)' \subseteq cached \ Spared(R, g)
               /\ Unknown(g)' \subseteq Unknown(g) \cup Spared(R, g)'
               /\ stuck \ Spared(R, g)' \subseteq stuck'
        BY <2>1, <3>1, <3>2, <4>3
      <4> QED
        BY <1>0, <3>5, <4>3, <4>4, SettledStays
    <3>7. CASE <<g, e>> \in R /\ Finish(e)
      <4>1. \A f \in Evicting : <<e, f>> \in R => <<g, f>> \in R /\ f # e
        BY <1>0, <3>7 DEF Order
      <4>2. Spared(R, e) \subseteq Spared(R, g)'
        BY <3>3, <3>4, <4>1 DEF Spared
      <4>3. Bytes(cached \ Spared(R, e)) <= CacheMaxBytes
               \/ cached \ Spared(R, e) \subseteq stuck
        BY <2>1, <3>7, EndsWithin DEF SettledBy
      <4>4. Settled(Unknown(g), cached, Spared(R, e), stuck)
        BY <4>3 DEF Settled
      <4>5. cached' \ Spared(R, g)' \subseteq cached \ Spared(R, e)
               /\ Unknown(g)' \subseteq Unknown(g) \cup Spared(R, g)'
               /\ stuck \ Spared(R, g)' \subseteq stuck'
        BY <2>1, <3>1, <3>2, <4>2
      <4> QED
        BY <1>0, <4>2, <4>4, <4>5, SettledStays
    <3> QED
      BY <1>8, <3>6, <3>7
  <2>3. SettledBy(R)'
    BY <2>1, <2>2 DEF SettledBy, Settled
  <2> QED
    BY <2>3 DEF Overtaken
<1>9. CASE Crash
  <2>1. Evicting' = {}
    BY <1>9, CrashStep, IdleFields DEF Evicting
  <2> QED
    BY <2>1 DEF Overtaken, SettledBy
<1>10. CASE (\E v \in Vid : Touch(v)) \/ UNCHANGED evars
  BY <1>10, <1>b, OtherSteps DEF Evicting
<1> QED
  BY <1>1, <1>2, <1>3, <1>4, <1>5, <1>6, <1>7, <1>8, <1>9, <1>10 DEF Next, Evict

-----------------------------------------------------------------------------
(* The results.                                                             *)

\* Every variable of an eviction keeps its type; that the total, from which
\* removals are subtracted, stays a natural number rests on Counted.
THEOREM TypeCorrect == Spec => []TypeOK
<1>1. IInv => TypeOK
  <2> SUFFICES ASSUME IInv PROVE TypeOK
    OBVIOUS
  <2>1. ASSUME NEW e \in Evictor
        PROVE  ev[e].total \in Nat
    <3> DEFINE S == Names(e) \cup ev[e].kept
    <3>1. ev[e] \in Record(clock)
      BY DEF IInv, Typing
    <3>2. S \in SUBSET Vid /\ ev[e].total \in Int
      BY <3>1 DEF Names, Record
    <3>3. Bytes(S) \in Nat /\ Bytes(S) <= ev[e].total
      BY <3>2, BytesStep DEF IInv, Counted, CountedBy
    <3> QED
      BY <3>2, <3>3
  <2>2. \A e \in Evictor : ev[e] \in Record(clock)
    BY DEF IInv, Typing
  <2> QED
    BY <2>1, <2>2 DEF TypeOK, IInv, Typing, Record, Pcs
<1> QED
  BY <1>1, Inductive, PTL

\* evict_if_needed bounds the cache, however many evictions overlap and whatever
\* cannot be listed or removed: when one ends, only the files of those still
\* under way and those not seen may be too much, or nothing that is left could be
\* removed; a restart after a crash is put right by the first eviction that ends.
THEOREM CacheBounded == Spec => BoundedCache
<1>1. Init => Overtaken
  <2> SUFFICES ASSUME Init PROVE Overtaken
    OBVIOUS
  <2>1. Evicting = {}
    BY IdleFields DEF Init, Evicting
  <2>2. Order({}) /\ {} \in SUBSET (Evictor \X Evictor)
    BY DEF Order
  <2> QED
    BY <2>1, <2>2 DEF Overtaken, SettledBy
<1>2. IInv /\ Overtaken /\ [Next]_evars => Overtaken'
  BY OvertakenNext DEF IInv
<1>3. IInv /\ Overtaken /\ [Next]_evars =>
         [\A e \in Evictor :
             Finish(e) =>
                LET rest == (cached \ {ev[f].vid : f \in Evicting \ {e}}) \ missed
                IN  Bytes(rest) <= CacheMaxBytes \/ rest \subseteq stuck]_evars
  <2> SUFFICES ASSUME IInv, NEW R, Order(R), SettledBy(R),
                      NEW e \in Evictor, Finish(e)
               PROVE  LET rest == (cached \ {ev[f].vid : f \in Evicting \ {e}}) \ missed
                      IN  Bytes(rest) <= CacheMaxBytes \/ rest \subseteq stuck
    BY DEF Overtaken
  <2> DEFINE V == {ev[f].vid : f \in Evicting \ {e}}
             M == V \cup missed
  <2>1. Typing /\ Counted /\ cached \in SUBSET Vid
    BY DEF IInv, Typing
  <2>2. Spared(R, e) \subseteq M
    BY DEF Spared, Order
  <2>3. Settled(Unknown(e), cached, Spared(R, e), stuck)
    BY DEF SettledBy, Evicting, Finish
  <2>4. (cached \ V) \ missed = cached \ M
    OBVIOUS
  <2> HIDE DEF M
  <2>5. cached \ M \subseteq cached \ Spared(R, e)
           /\ Unknown(e) \subseteq Unknown(e) \cup M /\ stuck \ M \subseteq stuck
    BY <2>2
  <2>6. Settled(Unknown(e), cached, M, stuck)
    BY <2>1, <2>2, <2>3, <2>5, SettledStays
  <2>7. Bytes(cached \ M) <= CacheMaxBytes \/ cached \ M \subseteq stuck
    BY <2>1, <2>6, EndsWithin
  <2> QED
    BY <2>4, <2>7
<1> QED
  BY <1>1, <1>2, <1>3, Inductive, PTL DEF Spec, BoundedCache

\* An eviction that no other overlapped removes only while over the cap.
THEOREM AloneOnlyOverCap == Spec => AloneEvictsOnlyOverCap
<1>1. IInv /\ [Next]_evars =>
         [\A e \in Evictor, v \in Vid :
             DeleteOldest(e) /\ ev[e].alone /\ v \in cached \ cached' =>
                 Bytes(cached) > CacheMaxBytes]_evars
  <2> SUFFICES ASSUME IInv, NEW e \in Evictor, DeleteOldest(e), ev[e].alone
               PROVE  Bytes(cached) > CacheMaxBytes
    OBVIOUS
  <2>1. Bytes(cached) \in Nat /\ CacheMaxBytes \in Nat /\ ev[e].total \in Int
    BY BytesStep, EvictionAssumption DEF IInv, Typing, Record
  <2>2. ev[e].todo = {} /\ ev[e].total > CacheMaxBytes /\ e \in Evicting
    BY DeleteStep DEF IInv, Evicting
  <2>3. ev[e].total <= Bytes(cached \ ev[e].todo) /\ cached \ ev[e].todo = cached
    BY <2>2 DEF IInv, Lonely, Exact
  <2> QED
    BY <2>1, <2>2, <2>3
<1> QED
  BY <1>1, Inductive, PTL DEF Spec, AloneEvictsOnlyOverCap

\* What such an eviction removes was used no later than what stays and could be
\* seen and removed, unless it was itself used since it was listed.
THEOREM LeastRecentFirst == Spec => EvictsLeastRecent
<1>1. IInv /\ [Next]_evars =>
         [\A e \in Evictor, v \in Vid :
             /\ DeleteOldest(e) /\ ev[e].alone /\ v \in cached \ cached'
             /\ [vid |-> v, atime |-> atime[v]] \in ev[e].left
             => \A u \in cached \ (missed \cup stuck) : atime[v] <= atime[u]]_evars
  <2> SUFFICES ASSUME IInv, NEW e \in Evictor, NEW v \in cached \ cached',
                      DeleteOldest(e), ev[e].alone,
                      [vid |-> v, atime |-> atime[v]] \in ev[e].left,
                      NEW u \in cached \ (missed \cup stuck)
               PROVE  atime[v] <= atime[u]
    OBVIOUS
  <2> DEFINE z == [vid |-> v, atime |-> atime[v]]
  <2>0. Typing /\ Counted /\ Lonely
    BY DEF IInv
  <2>1. ev[e].todo = {} /\ ev[e].pc = "evicting"
           /\ \E x \in Oldest(ev[e].left) : cached' = cached \ {x.vid}
    BY <2>0, DeleteStep
  <2>2. PICK x \in Oldest(ev[e].left) : cached' = cached \ {x.vid}
    BY <2>1
  <2>3. Exact(e)
    BY <2>0, <2>1 DEF Lonely, Evicting
  <2>4. u \in Names(e)
    BY <2>1, <2>3 DEF Exact, Unknown
  <2>5. PICK y \in ev[e].left : y.vid = u
    BY <2>4 DEF Names
  <2>6. x \in ev[e].left /\ x.vid = v /\ x.atime <= y.atime
    BY <2>2 DEF Oldest
  <2>7. z.vid = v /\ z.atime = atime[v] /\ z \in ev[e].left
    OBVIOUS
  <2> HIDE DEF z
  <2>8. x = z
    BY <2>0, <2>6, <2>7 DEF Counted, CountedBy
  <2>9. y.atime <= atime[u]
    BY <2>3, <2>5 DEF Exact
  <2>10. atime[v] \in Int /\ atime[u] \in Int /\ y.atime \in Int
    BY <2>0, <2>5 DEF Typing, Record
  <2> QED
    BY <2>6, <2>7, <2>8, <2>9, <2>10
<1> QED
  BY <1>1, Inductive, PTL DEF Spec, EvictsLeastRecent
=============================================================================
