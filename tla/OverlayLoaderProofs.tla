------------------------ MODULE OverlayLoaderProofs ------------------------
(***************************************************************************)
(* What holds of the overlay dispatcher for every memory layout, every set *)
(* of functions, DLLs and JIT shards and every bound, as long as RAM is    *)
(* written through the store hook only.                                    *)
(*                                                                         *)
(* The argument: a cached verdict that is still fresh is true of live RAM, *)
(* so native code is never entered over bytes other than those it was      *)
(* compiled from; and whatever is recorded as running is valid until a     *)
(* store into its code takes it out of use for good.  The one exception is *)
(* a shard nobody stored to since its registration, which starts VALID     *)
(* without a hash; a loader without shards has no exception.               *)
(***************************************************************************)
EXTENDS OverlayLoader, FiniteSetTheorems, WellFoundedInduction, TLAPS

----------------------------------------------------------------------------
(* The inductive invariant.                                                *)

\* A verdict VALID is the hash of live bytes for a DLL function; for a shard,
\* which starts VALID unhashed, only once somebody stored to its code.
Hashed(f) == f \in DllFns \/ f \in touched

\* A registered candidate's code pages are watched, and its verdict, while its
\* generation sum stands still, is the truth.
CandidateOK(c, w, f) ==
    IF Registered(c, f)
    THEN /\ CodePages(f) \subseteq w
         /\ c[f].state \in EntryState
         /\ c[f].val_gen <= GenSum(f)
         /\ c[f].val_gen = GenSum(f) /\ c[f].state = "valid" /\ Hashed(f) => Matches(f)
         /\ c[f].val_gen = GenSum(f) /\ c[f].state = "invalid" => ~ Matches(f)
    ELSE c[f].state = "absent" /\ f \notin touched

ValidIn(c) == {f \in Fns : c[f].state = "valid"}

\* The count of the VALID candidates V: never above, and exact without shards.
CountOK(n, V) == n <= Cardinality(V) /\ (Shards = {} => n = Cardinality(V))

TableSet == [cand : [Fns -> Candidate], n : Nat, count : Nat,
             watched : SUBSET Pages, loaded : SUBSET Bundles,
             lazy : [DllFns -> LazyMan], pc_cache : [Cells -> Fns \cup {NoFn}]]

TablesOK(T) ==
    /\ \A f \in Fns : CandidateOK(T.cand, T.watched, f)
    /\ CountOK(T.count, ValidIn(T.cand))

\* A candidate comes from a DLL that is on the list of loaded ones, or from a
\* blob that is; those lists keep it from being registered again.
OwnedIn(c, dlls, B) ==
    \A f \in Fns : Registered(c, f) => IF f \in Shards THEN f \in B ELSE Bundle[f] \in dlls

\* The conjuncts on the state.
VerdictsTrue == \A f \in Fns : CandidateOK(cand, watched, f)

Owned == OwnedIn(cand, loaded, blobs_loaded)

\* Whatever is recorded as running still has its bytes, or is out of use, or is
\* a shard that was never hashed.
RunningOK(f) ==
    /\ Registered(cand, f)
    /\ \/ cand[f].state = "blacklist"
       \/ cand[f].state = "valid" /\ Matches(f)
       \/ f \in Shards /\ f \notin touched

ActiveOK == \A i \in 1..Len(active) : RunningOK(active[i])

CountRight == CountOK(s_valid_count, ValidIn(cand))

IInv ==
    /\ TypeOK
    /\ VerdictsTrue
    /\ Owned
    /\ ActiveOK
    /\ CountRight

----------------------------------------------------------------------------
(* Lemmas about the operators.                                             *)

\* Generation sums are naturals, and the pages of a function are pages.
LEMMA GenSumType ==
    ASSUME page_gen \in [Pages -> Nat], NEW f \in Fns
    PROVE  GenSum(f) \in Nat /\ CodePages(f) \subseteq Pages /\ Code(f) \subseteq Cells
BY LayoutAssumption DEF GenSum, CodePages, Code

\* Sets of functions have a cardinality.
LEMMA CardType ==
    ASSUME NEW F \in SUBSET Fns
    PROVE  Cardinality(F) \in Nat /\ IsFiniteSet(F)
BY FS_CardinalityType, FS_Subset, LayoutAssumption

\* s_valid_count, moved up once for each of U and down once for each of D, is
\* right for the set with U added and D taken out, whichever comes first: its
\* floor at zero never makes it too large, and is not met without shards.
LEMMA CountMoves ==
    ASSUME NEW V \in SUBSET Fns, NEW U \in SUBSET Fns, NEW D \in SUBSET Fns,
           U \cap V = {}, D \cap U = {}, Shards = {} => D \subseteq V,
           NEW n \in Nat, CountOK(n, V)
    PROVE  /\ CountOK(Less(n + Cardinality(U), Cardinality(D)), (V \cup U) \ D)
           /\ CountOK(Less(n, Cardinality(D)) + Cardinality(U), (V \cup U) \ D)
<1>1. IsFiniteSet(V) /\ IsFiniteSet(U) /\ IsFiniteSet(D) /\ IsFiniteSet(V \cup U)
  BY CardType
<1>2. Cardinality(V \cup U) = Cardinality(V) + Cardinality(U) - Cardinality(V \cap U)
  BY <1>1, FS_Union
<1>3. Cardinality(V \cap U) = 0
  <2>1. V \cap U = {}
    OBVIOUS
  <2> QED BY <2>1, FS_EmptySet
<1>4. Cardinality((V \cup U) \ D) = Cardinality(V \cup U) - Cardinality((V \cup U) \cap D)
  BY <1>1, FS_Difference
<1>5. /\ Cardinality((V \cup U) \cap D) <= Cardinality(D)
      /\ Cardinality((V \cup U) \cap D) <= Cardinality(V)
      /\ Shards = {} => Cardinality((V \cup U) \cap D) = Cardinality(D)
  <2>1. (V \cup U) \cap D \subseteq D /\ (V \cup U) \cap D \subseteq V
    OBVIOUS
  <2>2. Shards = {} => (V \cup U) \cap D = D
    OBVIOUS
  <2> QED BY <1>1, <2>1, <2>2, FS_Subset
<1>6. /\ Cardinality(V) \in Nat /\ Cardinality(U) \in Nat /\ Cardinality(D) \in Nat
      /\ Cardinality((V \cup U) \ D) \in Nat /\ Cardinality((V \cup U) \cap D) \in Nat
  BY CardType
<1> DEFINE v == Cardinality(V)
           u == Cardinality(U)
           d == Cardinality(D)
           k == Cardinality((V \cup U) \cap D)
           q == Cardinality((V \cup U) \ D)
<1>7. /\ v \in Nat /\ u \in Nat /\ d \in Nat /\ k \in Nat /\ q \in Nat
      /\ q = v + u - k /\ k <= d /\ k <= v
      /\ Shards = {} => k = d
  BY <1>2, <1>3, <1>4, <1>5, <1>6
<1>8. n <= v /\ (Shards = {} => n = v)
  BY DEF CountOK
<1> HIDE DEF v, u, d, k, q
<1>9. Less(n + u, d) <= q /\ Less(n, d) + u <= q
  BY <1>7, <1>8 DEF Less
<1>10. Shards = {} => Less(n + u, d) = q /\ Less(n, d) + u = q
  BY <1>7, <1>8 DEF Less
<1> QED BY <1>9, <1>10 DEF CountOK, u, d, q

\* Validation registers nobody, takes nobody out of use or back into it, and
\* never turns down a VALID candidate that matches.
SameStanding(c, d, f) ==
    /\ Registered(d, f) <=> Registered(c, f)
    /\ Live(d, f) <=> Live(c, f)
    /\ d[f].state = "blacklist" <=> c[f].state = "blacklist"
    /\ c[f].state = "valid" /\ Matches(f) => d[f].state = "valid"

\* What a whole dispatch may do to a candidate.
Evolves(c, d, f) ==
    /\ Registered(c, f) => Registered(d, f)
    /\ c[f].state = "blacklist" => d[f].state = "blacklist"
    /\ c[f].state = "valid" /\ Matches(f) =>
          d[f].state = "valid" \/ (f \in Shards /\ d[f].state = "blacklist")
    /\ f \in DllFns /\ c[f].state # "blacklist" => d[f].state # "blacklist"

\* Phases of a dispatch compose.
LEMMA EvolvesTransitive ==
    ASSUME NEW f, NEW b, NEW c, NEW d, Evolves(b, c, f), Evolves(c, d, f)
    PROVE  Evolves(b, d, f)
BY DEF Evolves, DllFns

\* A validation is a special case of what a dispatch may do.
LEMMA SameStandingEvolves ==
    ASSUME NEW f, NEW c, NEW d, SameStanding(c, d, f)
    PROVE  Evolves(c, d, f)
BY DEF SameStanding, Evolves

\* Re-validating live candidates keeps the tables right.
LEMMA VisitedOK ==
    ASSUME page_gen \in [Pages -> Nat],
           NEW T \in TableSet, TablesOK(T),
           NEW V \in SUBSET Fns, \A f \in V : Live(T.cand, f)
    PROVE  /\ Visited(T, V) \in TableSet
           /\ TablesOK(Visited(T, V))
           /\ Visited(T, V).loaded = T.loaded
           /\ \A f \in Fns : SameStanding(T.cand, Visited(T, V).cand, f)
           /\ \A f \in V : Accepts(T.cand, f) =>
                 /\ Visited(T, V).cand[f].state = "valid"
                 /\ Visited(T, V).cand[f].val_gen = GenSum(f)
<1> DEFINE C    == RevalidateAll(T.cand, V)
           up   == {f \in V : T.cand[f].state # "valid" /\ Revalidate(T.cand, f).state = "valid"}
           down == {f \in V : T.cand[f].state = "valid" /\ Revalidate(T.cand, f).state # "valid"}
           k    == CountAfter(T.count, T.cand, V)
<1>1. C \in [Fns -> Candidate]
  BY GenSumType DEF TableSet, RevalidateAll, Revalidate, Candidate, EntryState
<1>2. CountOK(k, ValidIn(C))
  <2>1. k = Less(T.count, Cardinality(down)) + Cardinality(up)
    BY DEF CountAfter
  <2>2. /\ ValidIn(T.cand) \in SUBSET Fns /\ up \in SUBSET Fns /\ down \in SUBSET Fns
        /\ up \cap ValidIn(T.cand) = {} /\ down \subseteq ValidIn(T.cand) /\ down \cap up = {}
    BY DEF ValidIn
  <2>3. (ValidIn(T.cand) \cup up) \ down = ValidIn(C)
    BY DEF ValidIn, RevalidateAll
  <2>4. T.count \in Nat /\ CountOK(T.count, ValidIn(T.cand))
    BY DEF TablesOK, TableSet
  <2> HIDE DEF up, down, k, C
  <2>5. CountOK(Less(T.count, Cardinality(down)) + Cardinality(up),
                (ValidIn(T.cand) \cup up) \ down)
    BY <2>2, <2>4, CountMoves
  <2> QED BY <2>1, <2>3, <2>5
<1>3. k \in Nat
  <2>1. T.count \in Nat /\ up \in SUBSET Fns /\ down \in SUBSET Fns
    BY DEF TableSet
  <2> HIDE DEF up, down
  <2>2. Cardinality(up) \in Nat /\ Cardinality(down) \in Nat
    BY <2>1, CardType
  <2>3. k = Less(T.count, Cardinality(down)) + Cardinality(up)
    BY DEF CountAfter, up, down
  <2> HIDE DEF k
  <2> QED BY <2>1, <2>2, <2>3 DEF Less
<1>4. Visited(T, V) = [T EXCEPT !.cand = C, !.count = k]
  BY DEF Visited
<1> HIDE DEF k, C
<1>5. /\ Visited(T, V) \in TableSet /\ Visited(T, V).cand = C
      /\ Visited(T, V).watched = T.watched /\ Visited(T, V).count = k
      /\ Visited(T, V).loaded = T.loaded
  BY <1>1, <1>3, <1>4 DEF TableSet
<1>6. ASSUME NEW f \in Fns
      PROVE  /\ CandidateOK(C, T.watched, f) /\ SameStanding(T.cand, C, f)
             /\ f \in V /\ Accepts(T.cand, f) => C[f].state = "valid" /\ C[f].val_gen = GenSum(f)
  <2>1. CandidateOK(T.cand, T.watched, f) /\ T.cand[f] \in Candidate
    BY DEF TablesOK, TableSet
  <2>2. GenSum(f) \in Nat
    BY GenSumType
  <2>3. CASE f \notin V \/ Fresh(T.cand[f], f)
    <3>1. C[f] = T.cand[f]
      BY <2>3 DEF C, RevalidateAll, Revalidate
    <3> QED BY <2>1, <2>3, <3>1 DEF CandidateOK, Registered, SameStanding, Live, Hashed,
                                   Accepts, Fresh
  <2>4. CASE f \in V /\ ~ Fresh(T.cand[f], f)
    <3>1. /\ C[f].state = IF Matches(f) THEN "valid" ELSE "invalid"
          /\ C[f].val_gen = GenSum(f) /\ C[f].idx = T.cand[f].idx
      BY <2>1, <2>4 DEF C, RevalidateAll, Revalidate, Candidate
    <3>2. Live(T.cand, f)
      BY <2>4
    <3> QED BY <2>1, <2>2, <2>4, <3>1, <3>2
            DEF CandidateOK, Registered, SameStanding, Live, EntryState, Accepts
  <2> QED BY <2>3, <2>4
<1> QED BY <1>2, <1>5, <1>6 DEF TablesOK

\* A candidate the walk turns down does not match live RAM.
LEMMA RejectedMismatches ==
    ASSUME NEW T \in TableSet, TablesOK(T), NEW f \in Fns, Live(T.cand, f),
           ~ Accepts(T.cand, f)
    PROVE  ~ Matches(f)
<1>1. CandidateOK(T.cand, T.watched, f)
  BY DEF TablesOK
<1> QED BY <1>1 DEF CandidateOK, Live, Accepts, Fresh, EntryState

\* Pick chooses a member, and NoFn only of the empty set.
LEMMA PickType ==
    ASSUME NEW F \in SUBSET Fns
    PROVE  /\ Pick(F) = NoFn => F = {}
           /\ Pick(F) # NoFn => Pick(F) \in F
BY LayoutAssumption DEF Pick

\* A lookup at a keeps the tables right, registers nothing, selects only a
\* usable candidate whose verdict is VALID and fresh, and misses no candidate
\* entered at a.
LookupOK(T, a, r) ==
    /\ r.tables \in TableSet
    /\ TablesOK(r.tables)
    /\ r.tables.loaded = T.loaded
    /\ \A f \in Fns : SameStanding(T.cand, r.tables.cand, f)
    /\ r.run # NoFn => /\ r.run \in Fns /\ Live(r.tables.cand, r.run)
                       /\ r.tables.cand[r.run].state = "valid"
                       /\ r.tables.cand[r.run].val_gen = GenSum(r.run)
    /\ r.run = NoFn => \A f \in Fns : Live(T.cand, f) /\ Entry[f] = a => ~ Matches(f)

\* A non-empty finite set has an element of greatest rank: the up-sets of its
\* elements have a minimal one.
LEMMA GreatestExists ==
    ASSUME NEW F, IsFiniteSet(F), F # {}, NEW h, \A g \in F : h[g] \in Nat
    PROVE  \E f \in F : \A g \in F : h[g] <= h[f]
<1> DEFINE Up(f) == {g \in F : h[g] > h[f]}
           Ups == {Up(f) : f \in F}
<1>1. IsWellFoundedOn(StrictSubsetOrdering(F), SUBSET F)
  BY FS_StrictSubsetOrderingWellFounded, FS_FiniteSubsetsOfFinite
<1>2. Ups \subseteq SUBSET F /\ Ups # {}
  OBVIOUS
<1>3. PICK U \in Ups : \A W \in Ups : ~ (<<W, U>> \in StrictSubsetOrdering(F))
  BY <1>1, <1>2, WFMin
<1>4. PICK f \in F : U = Up(f)
  OBVIOUS
<1>5. ASSUME NEW g \in F, ~ (h[g] <= h[f])
      PROVE  FALSE
  <2>1. h[g] \in Nat /\ h[f] \in Nat /\ h[g] > h[f]
    BY <1>5
  <2>2. g \in Up(f) /\ g \notin Up(g)
    BY <2>1
  <2>3. ASSUME NEW k \in Up(g)
        PROVE  k \in Up(f)
    <3>1. k \in F /\ h[k] \in Nat /\ h[k] > h[g]
      OBVIOUS
    <3> QED BY <2>1, <3>1
  <2>4. Up(g) \subseteq Up(f) /\ Up(g) # Up(f) /\ Up(g) \in SUBSET F /\ Up(f) \in SUBSET F
    BY <2>2, <2>3
  <2> HIDE DEF Up
  <2>5. <<Up(g), Up(f)>> \in StrictSubsetOrdering(F)
    BY <2>4 DEF StrictSubsetOrdering
  <2> QED BY <1>3, <1>4, <2>5
<1> QED BY <1>5

\* The walk of the entry's chain is such a lookup.
LEMMA ChainWalkOK ==
    ASSUME page_gen \in [Pages -> Nat],
           NEW T \in TableSet, TablesOK(T), NEW a \in Cells
    PROVE  LookupOK(T, a, ChainWalk(T, a))
<1> DEFINE live == {f \in Chain(T, a) : Live(T.cand, f)}
           hits == {f \in live : Accepts(T.cand, f)}
           run  == Pick(Newest(T, hits))
           seen == IF run = NoFn THEN live
                   ELSE {f \in live : T.cand[f].idx >= T.cand[run].idx}
<1>1. ChainWalk(T, a) = [tables |-> Visited(T, seen), run |-> run]
  BY DEF ChainWalk
<1>2. seen \in SUBSET Fns /\ \A f \in seen : Live(T.cand, f)
  BY DEF Chain
<1>3. Newest(T, hits) \in SUBSET Fns /\ Newest(T, hits) \subseteq hits
  BY DEF Chain, Newest
<1>4. run # NoFn => run \in hits
  BY <1>3, PickType
<1>5. run # NoFn => run \in Fns /\ run \in seen /\ Live(T.cand, run) /\ Accepts(T.cand, run)
  BY <1>4 DEF Chain, TableSet, Candidate
<1>6. ASSUME run = NoFn, NEW f \in Fns, Live(T.cand, f), Entry[f] = a
      PROVE  ~ Matches(f)
  <2>1. hits = {}
    <3> SUFFICES ASSUME hits # {} PROVE FALSE
      OBVIOUS
    <3> DEFINE rank == [g \in Fns |-> T.cand[g].idx]
    <3>1. hits \in SUBSET Fns /\ IsFiniteSet(hits)
      BY CardType DEF Chain
    <3>2. \A g \in hits : rank[g] \in Nat /\ rank[g] = T.cand[g].idx
      BY <3>1 DEF TableSet, Candidate
    <3> HIDE DEF hits, rank
    <3>3. PICK h \in hits : \A g \in hits : rank[g] <= rank[h]
      BY <3>1, <3>2, GreatestExists
    <3>4. h \in Newest(T, hits)
      BY <3>2, <3>3 DEF Newest
    <3> QED BY <1>3, <1>6, <3>4, PickType DEF run
  <2>2. f \in live
    BY <1>6 DEF Chain, Live
  <2> QED BY <1>6, <2>1, <2>2, RejectedMismatches
<1> HIDE DEF run, seen
<1>7. /\ Visited(T, seen) \in TableSet /\ TablesOK(Visited(T, seen))
      /\ Visited(T, seen).loaded = T.loaded
      /\ \A f \in Fns : SameStanding(T.cand, Visited(T, seen).cand, f)
      /\ \A f \in seen : Accepts(T.cand, f) =>
            /\ Visited(T, seen).cand[f].state = "valid"
            /\ Visited(T, seen).cand[f].val_gen = GenSum(f)
  BY <1>2, VisitedOK
<1>8. run # NoFn => Live(Visited(T, seen).cand, run)
  BY <1>5, <1>7 DEF SameStanding
<1> QED BY <1>1, <1>5, <1>6, <1>7, <1>8 DEF LookupOK

\* The owner of a continuation is looked up only where no entry is registered.
LEMMA RangeWalkOK ==
    ASSUME page_gen \in [Pages -> Nat],
           NEW T \in TableSet, TablesOK(T), NEW a \in Cells, Chain(T, a) = {}
    PROVE  LookupOK(T, a, RangeWalk(T, a))
<1> DEFINE live   == {f \in Fns : Live(T.cand, f) /\ a \in Code(f)}
           cached == {f \in live : f = T.pc_cache[a]}
           hit    == {f \in cached : Accepts(T.cand, f)}
           hits   == {f \in live : Accepts(T.cand, f)}
           run    == IF hit # {} THEN T.pc_cache[a] ELSE Pick(Oldest(T, hits))
           seen   == IF hit # {} THEN hit
                     ELSE IF run = NoFn THEN live
                     ELSE cached \cup {f \in live : T.cand[f].idx <= T.cand[run].idx}
           pc     == IF run = NoFn THEN T.pc_cache ELSE [T.pc_cache EXCEPT ![a] = run]
           Q      == [Visited(T, seen) EXCEPT !.pc_cache = pc]
<1>1. RangeWalk(T, a) = [tables |-> Q, run |-> run]
  <2>1. Visited(T, seen).pc_cache = T.pc_cache
    BY DEF Visited, TableSet
  <2> QED BY <2>1 DEF RangeWalk
<1>2. seen \in SUBSET Fns /\ \A f \in seen : Live(T.cand, f)
  OBVIOUS
<1>3. Oldest(T, hits) \in SUBSET Fns /\ Oldest(T, hits) \subseteq hits
  BY DEF Oldest
<1>4. run # NoFn => run \in hits
  BY <1>3, PickType
<1>5. run # NoFn => run \in Fns /\ run \in seen /\ Live(T.cand, run) /\ Accepts(T.cand, run)
  BY <1>4 DEF TableSet, Candidate
<1>6. pc \in [Cells -> Fns \cup {NoFn}]
  BY <1>5 DEF TableSet
<1> HIDE DEF run, seen, pc
<1>7. /\ Visited(T, seen) \in TableSet /\ TablesOK(Visited(T, seen))
      /\ Visited(T, seen).loaded = T.loaded
      /\ \A f \in Fns : SameStanding(T.cand, Visited(T, seen).cand, f)
      /\ \A f \in seen : Accepts(T.cand, f) =>
            /\ Visited(T, seen).cand[f].state = "valid"
            /\ Visited(T, seen).cand[f].val_gen = GenSum(f)
  BY <1>2, VisitedOK
<1>8. /\ Q \in TableSet /\ Q.cand = Visited(T, seen).cand
      /\ Q.watched = Visited(T, seen).watched /\ Q.count = Visited(T, seen).count
      /\ Q.loaded = T.loaded
  BY <1>6, <1>7 DEF TableSet
<1> HIDE DEF Q
<1>9. TablesOK(Q)
  BY <1>7, <1>8 DEF TablesOK
<1>10. \A f \in Fns : ~ (Live(T.cand, f) /\ Entry[f] = a)
  BY DEF Chain, Live
<1>11. run # NoFn => Live(Q.cand, run)
  BY <1>5, <1>7, <1>8 DEF SameStanding
<1> QED BY <1>1, <1>5, <1>7, <1>8, <1>9, <1>10, <1>11 DEF LookupOK

\* Either walk is one.
LEMMA LookupIsOK ==
    ASSUME page_gen \in [Pages -> Nat],
           NEW T \in TableSet, TablesOK(T), NEW a \in Cells
    PROVE  LookupOK(T, a, Lookup(T, a))
BY ChainWalkOK, RangeWalkOK DEF Lookup

\* Registering functions that are not registered yet keeps the tables right:
\* their pages are watched before a verdict is recorded, nobody stored to a
\* shard yet, and only shards are made obsolete.
LEMMA RegisterOK ==
    ASSUME ram \in [Cells -> Values], page_gen \in [Pages -> Nat],
           NEW T \in TableSet, TablesOK(T),
           NEW F \in SUBSET Fns, \A f \in F : ~ Registered(T.cand, f)
    PROVE  /\ Register(T, F) \in TableSet /\ TablesOK(Register(T, F))
           /\ Register(T, F).loaded = T.loaded
           /\ \A f \in Fns : /\ Evolves(T.cand, Register(T, F).cand, f)
                             /\ Registered(Register(T, F).cand, f)
                                   => f \in F \/ Registered(T.cand, f)
<1> DEFINE A    == Admitted(T, F)
           obs  == Obsoleted(T, A)
           up   == {f \in A : FirstVerdict(f) = "valid"}
           down == {o \in obs : T.cand[o].state = "valid"}
           C    == [f \in Fns |-> IF f \in A THEN NewCandidate(T, F, f)
                                  ELSE IF f \in obs
                                       THEN [T.cand[f] EXCEPT !.state = "blacklist"]
                                       ELSE T.cand[f]]
           W    == T.watched \cup UNION {CodePages(f) : f \in A}
           n    == T.n + Cardinality(A)
           k    == Less(T.count + Cardinality(up), Cardinality(down))
<1>1. A \in SUBSET Fns /\ A \subseteq F /\ obs \in SUBSET Shards
  BY DEF Admitted, Obsoleted
<1>2. obs \in SUBSET Fns /\ up \in SUBSET Fns /\ down \in SUBSET Fns
  BY <1>1, LayoutAssumption
<1>3. \A f \in Fns : CandidateOK(T.cand, T.watched, f) /\ T.cand[f] \in Candidate
  BY DEF TablesOK, TableSet
<1>4. \A f \in A : ~ Registered(T.cand, f) /\ T.cand[f].state = "absent"
  BY <1>1, <1>3 DEF CandidateOK
<1>5. \A f \in obs : Registered(T.cand, f) /\ f \notin A
  BY <1>4 DEF Obsoleted, Live
<1>6. ASSUME NEW f \in A
      PROVE  NewIdx(T, F, f) \in Nat /\ NewIdx(T, F, f) > 0 /\ NewCandidate(T, F, f) \in Candidate
  <2>0. f \in F /\ f \in Nat
    BY <1>1, LayoutAssumption
  <2>1. {g \in F : g <= f} \in SUBSET Fns /\ f \in {g \in F : g <= f}
    <3>1. f <= f
      BY <2>0
    <3> QED BY <2>0, <3>1
  <2>2. Cardinality({g \in F : g <= f}) \in Nat /\ Cardinality({g \in F : g <= f}) # 0
    BY <2>1, CardType, FS_EmptySet
  <2>3. NewIdx(T, F, f) \in Nat /\ NewIdx(T, F, f) > 0
    BY <2>2 DEF NewIdx, TableSet
  <2>4. GenSum(f) \in Nat
    BY <1>1, GenSumType
  <2> QED BY <2>3, <2>4 DEF NewCandidate, Candidate, FirstVerdict, EntryState
<1>7. C \in [Fns -> Candidate]
  BY <1>3, <1>6 DEF Candidate, EntryState
<1>8. W \in SUBSET Pages
  BY <1>1, GenSumType DEF TableSet
<1>9. CountOK(k, ValidIn(C))
  <2>1. /\ ValidIn(T.cand) \in SUBSET Fns
        /\ up \cap ValidIn(T.cand) = {} /\ down \subseteq ValidIn(T.cand)
        /\ down \cap up = {}
    BY <1>2, <1>4 DEF ValidIn
  <2>2. \A f \in Fns : C[f].state = IF f \in A THEN FirstVerdict(f)
                                    ELSE IF f \in obs THEN "blacklist" ELSE T.cand[f].state
    BY <1>3 DEF NewCandidate, Candidate
  <2>3. (ValidIn(T.cand) \cup up) \ down = ValidIn(C)
    BY <2>2, <1>1, <1>2, <1>4, <1>5 DEF ValidIn
  <2> HIDE DEF up, down, C
  <2>4. T.count \in Nat /\ CountOK(T.count, ValidIn(T.cand))
    BY DEF TablesOK, TableSet
  <2> QED BY <2>1, <2>3, <2>4, <1>2, CountMoves
<1>10. n \in Nat /\ k \in Nat
  <2>1. T.n \in Nat /\ T.count \in Nat /\ Cardinality(A) \in Nat
        /\ Cardinality(up) \in Nat /\ Cardinality(down) \in Nat
    BY <1>1, <1>2, CardType DEF TableSet
  <2> HIDE DEF A, up, down
  <2> QED BY <2>1 DEF Less
<1>11. Register(T, F) = [T EXCEPT !.cand = C, !.n = n, !.count = k, !.watched = W]
  BY DEF Register, TableSet
<1> HIDE DEF A, obs, up, down, n, k
<1>12. ASSUME NEW f \in Fns
       PROVE  /\ CandidateOK(C, W, f) /\ Evolves(T.cand, C, f)
              /\ Registered(C, f) => f \in F \/ Registered(T.cand, f)
  <2>1. GenSum(f) \in Nat
    BY GenSumType
  <2>2. CandidateOK(T.cand, T.watched, f) /\ T.cand[f] \in Candidate /\ T.watched \subseteq W
    BY <1>3
  <2>3. CASE f \in A
    <3>1. C[f] = NewCandidate(T, F, f)
      BY <2>3
    <3>2. CodePages(f) \subseteq W
      BY <2>3
    <3>3. /\ C[f].val_gen = GenSum(f) /\ C[f].idx > 0
          /\ C[f].state = IF f \in Shards \/ Matches(f) THEN "valid" ELSE "invalid"
      BY <2>3, <3>1, <1>6 DEF NewCandidate, FirstVerdict
    <3>4. f \in F /\ ~ Registered(T.cand, f) /\ T.cand[f].state = "absent" /\ f \notin touched
      BY <2>2, <2>3, <1>1, <1>4 DEF CandidateOK
    <3>5. Registered(C, f) /\ (Hashed(f) => f \notin Shards)
      BY <3>3, <3>4 DEF Registered, Hashed, DllFns
    <3>6. CandidateOK(C, W, f)
      BY <2>1, <3>2, <3>3, <3>5 DEF CandidateOK, EntryState
    <3>7. Evolves(T.cand, C, f)
      BY <3>3, <3>4, <3>5 DEF Evolves
    <3> QED BY <3>4, <3>6, <3>7
  <2>4. CASE f \in obs
    <3>1. f \in Shards /\ Registered(T.cand, f) /\ f \notin A
      BY <2>4, <1>1, <1>5
    <3>2. /\ C[f].state = "blacklist" /\ C[f].idx = T.cand[f].idx
          /\ C[f].val_gen = T.cand[f].val_gen
      BY <2>2, <2>4, <3>1 DEF Candidate
    <3> QED BY <2>2, <3>1, <3>2 DEF CandidateOK, Registered, EntryState, Evolves, DllFns
  <2>5. CASE f \notin A /\ f \notin obs
    <3>1. C[f] = T.cand[f]
      BY <2>5
    <3> QED BY <2>2, <3>1 DEF CandidateOK, Registered, Hashed, Evolves
  <2> QED BY <2>3, <2>4, <2>5
<1> HIDE DEF C, W
<1>13. /\ Register(T, F) \in TableSet /\ Register(T, F).loaded = T.loaded
       /\ Register(T, F).cand = C /\ Register(T, F).watched = W /\ Register(T, F).count = k
  BY <1>7, <1>8, <1>10, <1>11 DEF TableSet
<1> QED BY <1>9, <1>12, <1>13 DEF TablesOK

\* Loading at most one DLL keeps the tables right: the DLL was not loaded
\* before, so none of its functions is registered yet.
LEMMA TryLoadOK ==
    ASSUME ram \in [Cells -> Values], page_gen \in [Pages -> Nat],
           NEW T \in TableSet, TablesOK(T), NEW a \in Cells,
           NEW B, OwnedIn(T.cand, T.loaded, B)
    PROVE  /\ TryLoad(T, a).tables \in TableSet
           /\ TablesOK(TryLoad(T, a).tables)
           /\ OwnedIn(TryLoad(T, a).tables.cand, TryLoad(T, a).tables.loaded, B)
           /\ \A f \in Fns : Evolves(T.cand, TryLoad(T, a).tables.cand, f)
           /\ ~ TryLoad(T, a).ok => TryLoad(T, a).tables.cand = T.cand
<1> DEFINE dlls == {Bundle[f] : f \in Selected(T, a)}
           told == Told(T, Consulted(T, a))
           new  == UNION {FnsOf(b) : b \in dlls}
           regd == Register(told, new)
           res  == [regd EXCEPT !.loaded = regd.loaded \cup dlls]
<1>1. told \in TableSet /\ TablesOK(told) /\ told.cand = T.cand /\ told.loaded = T.loaded
  <2> DEFINE L == [f \in DllFns |-> IF f \in Consulted(T, a) THEN LazyVerdict(T.lazy, f)
                                    ELSE T.lazy[f]]
  <2>1. \A f \in DllFns : LazyVerdict(T.lazy, f) \in LazyMan
    BY GenSumType DEF LazyVerdict, LazyMan, DllFns
  <2>2. L \in [DllFns -> LazyMan]
    BY <2>1 DEF TableSet
  <2>3. told = [T EXCEPT !.lazy = L]
    BY DEF Told
  <2> HIDE DEF L, told
  <2>4. /\ told \in TableSet /\ told.cand = T.cand /\ told.watched = T.watched
        /\ told.count = T.count /\ told.loaded = T.loaded
    BY <2>2, <2>3 DEF TableSet
  <2> QED BY <2>4 DEF TablesOK
<1>2. \A f \in Selected(T, a) : f \in DllFns /\ Bundle[f] \notin T.loaded
  BY DEF Selected, Broadest, FirstFound, Found, Asked, ExactAsked, RangeAsked, Loadable
<1>3. dlls \subseteq Bundles /\ dlls \cap T.loaded = {}
  BY <1>2, LayoutAssumption
<1>4. \A f \in new : f \in DllFns /\ f \in Fns /\ f \notin Shards /\ Bundle[f] \in dlls
  BY DEF FnsOf, DllFns
<1>5. /\ TryLoad(T, a).tables = IF dlls = {} THEN told ELSE res
      /\ TryLoad(T, a).ok <=> dlls # {}
  BY DEF TryLoad
<1> HIDE DEF told, dlls, new
<1>6. new \in SUBSET Fns /\ \A f \in new : ~ Registered(told.cand, f)
  BY <1>1, <1>3, <1>4 DEF OwnedIn
<1>7. /\ regd \in TableSet /\ TablesOK(regd) /\ regd.loaded = told.loaded
      /\ \A f \in Fns : /\ Evolves(told.cand, regd.cand, f)
                        /\ Registered(regd.cand, f) => f \in new \/ Registered(told.cand, f)
  BY <1>1, <1>6, RegisterOK
<1> HIDE DEF regd
<1>8. /\ res \in TableSet /\ res.cand = regd.cand /\ res.watched = regd.watched
      /\ res.count = regd.count /\ res.loaded = T.loaded \cup dlls
  BY <1>1, <1>3, <1>7 DEF TableSet
<1> HIDE DEF res
<1>9. TablesOK(res) /\ \A f \in Fns : Evolves(T.cand, res.cand, f)
  BY <1>1, <1>7, <1>8 DEF TablesOK
<1>10. OwnedIn(res.cand, res.loaded, B)
  BY <1>1, <1>4, <1>7, <1>8 DEF OwnedIn
<1>11. \A f \in Fns : Evolves(T.cand, told.cand, f)
  BY <1>1 DEF Evolves
<1>12. CASE dlls = {}
  <2>1. TryLoad(T, a).tables = told
    BY <1>5, <1>12
  <2> QED BY <1>1, <1>11, <2>1
<1>13. CASE dlls # {}
  <2>1. TryLoad(T, a).tables = res /\ TryLoad(T, a).ok
    BY <1>5, <1>13
  <2> QED BY <1>8, <1>9, <1>10, <2>1
<1> QED BY <1>12, <1>13

\* The tables of a state satisfying the invariant.
LEMMA TablesOfState ==
    ASSUME IInv
    PROVE  /\ Tables \in TableSet /\ TablesOK(Tables)
           /\ Tables.cand = cand /\ Tables.watched = watched /\ Tables.loaded = loaded
<1>1. /\ Tables \in TableSet /\ Tables.cand = cand /\ Tables.watched = watched
      /\ Tables.count = s_valid_count /\ Tables.loaded = loaded
  BY DEF Tables, TableSet, IInv, TypeOK
<1> QED BY <1>1 DEF TablesOK, IInv, VerdictsTrue, CountRight

\* A whole dispatch: tables right, every candidate moved as it may, and what is
\* to run has a fresh verdict VALID.
OutcomeGood(a, got, out) ==
    /\ out.tables \in TableSet /\ TablesOK(out.tables)
    /\ OwnedIn(out.tables.cand, out.tables.loaded, blobs_loaded \cup got)
    /\ \A f \in Fns : Evolves(cand, out.tables.cand, f)
    /\ out.run # NoFn => /\ out.run \in Fns /\ Registered(out.tables.cand, out.run)
                         /\ out.tables.cand[out.run].state = "valid"
                         /\ out.tables.cand[out.run].val_gen = GenSum(out.run)
    /\ out.run = NoFn => \A f \in Fns : Live(out.tables.cand, f) /\ Entry[f] = a
                                          => ~ Matches(f)

\* Ownership and the moves of a lookup.
LEMMA LookupMoves ==
    ASSUME NEW T, NEW a, NEW r, LookupOK(T, a, r), NEW B, OwnedIn(T.cand, T.loaded, B)
    PROVE  /\ OwnedIn(r.tables.cand, r.tables.loaded, B)
           /\ \A f \in Fns : Evolves(T.cand, r.tables.cand, f)
BY SameStandingEvolves DEF LookupOK, OwnedIn, SameStanding

\* overlay_loader_dispatch up to the call, phase by phase.
LEMMA OutcomeOK ==
    ASSUME IInv, NEW a \in Cells, NEW got \in Readable(a)
    PROVE  OutcomeGood(a, got, Outcome(a, got))
<1>1. ram \in [Cells -> Values] /\ page_gen \in [Pages -> Nat]
  BY DEF IInv, TypeOK
<1>2. /\ Tables \in TableSet /\ TablesOK(Tables)
      /\ Tables.cand = cand /\ Tables.loaded = loaded
      /\ OwnedIn(cand, loaded, blobs_loaded)
  BY TablesOfState DEF IInv, Owned
<1> DEFINE B == blobs_loaded \cup got
           R == Register(Tables, got)
           first == Lookup(R, a)
           load == TryLoad(first.tables, a)
           second == Lookup(load.tables, a)
<1>3. /\ R \in TableSet /\ TablesOK(R) /\ OwnedIn(R.cand, R.loaded, B)
      /\ \A f \in Fns : Evolves(cand, R.cand, f)
  <2>1. got \in SUBSET Fns /\ got \subseteq Shards /\ got \cap blobs_loaded = {}
    BY LayoutAssumption DEF IInv, TypeOK, Readable
  <2>2. \A f \in got : ~ Registered(cand, f)
    BY <1>2, <2>1 DEF OwnedIn
  <2>3. /\ R \in TableSet /\ TablesOK(R) /\ R.loaded = loaded
        /\ \A f \in Fns : /\ Evolves(cand, R.cand, f)
                          /\ Registered(R.cand, f) => f \in got \/ Registered(cand, f)
    BY <1>1, <1>2, <2>1, <2>2, RegisterOK
  <2> HIDE DEF R
  <2>4. OwnedIn(R.cand, R.loaded, B)
    BY <1>2, <2>1, <2>3 DEF OwnedIn
  <2> QED BY <2>3, <2>4
<1> HIDE DEF R, B
<1>4. LookupOK(R, a, first)
  BY <1>1, <1>3, LookupIsOK
<1> HIDE DEF first
<1>5. /\ first.tables \in TableSet /\ TablesOK(first.tables)
      /\ OwnedIn(first.tables.cand, first.tables.loaded, B)
      /\ \A f \in Fns : Evolves(cand, first.tables.cand, f)
  <2>1. /\ OwnedIn(first.tables.cand, first.tables.loaded, B)
        /\ \A f \in Fns : Evolves(R.cand, first.tables.cand, f)
    BY <1>3, <1>4, LookupMoves
  <2>2. \A f \in Fns : Evolves(cand, first.tables.cand, f)
    BY <1>3, <2>1, EvolvesTransitive
  <2> QED BY <1>4, <2>1, <2>2 DEF LookupOK
<1>6. /\ load.tables \in TableSet /\ TablesOK(load.tables)
      /\ OwnedIn(load.tables.cand, load.tables.loaded, B)
      /\ \A f \in Fns : Evolves(cand, load.tables.cand, f)
      /\ ~ load.ok => load.tables.cand = first.tables.cand
  <2>1. /\ load.tables \in TableSet /\ TablesOK(load.tables)
        /\ OwnedIn(load.tables.cand, load.tables.loaded, B)
        /\ \A f \in Fns : Evolves(first.tables.cand, load.tables.cand, f)
        /\ ~ load.ok => load.tables.cand = first.tables.cand
    BY <1>1, <1>5, TryLoadOK
  <2> HIDE DEF load
  <2> QED BY <1>5, <2>1, EvolvesTransitive
<1> HIDE DEF load
<1>7. /\ LookupOK(load.tables, a, second)
      /\ OwnedIn(second.tables.cand, second.tables.loaded, B)
      /\ \A f \in Fns : Evolves(cand, second.tables.cand, f)
  <2>1. LookupOK(load.tables, a, second)
    BY <1>1, <1>6, LookupIsOK
  <2> HIDE DEF second
  <2>2. /\ OwnedIn(second.tables.cand, second.tables.loaded, B)
        /\ \A f \in Fns : Evolves(load.tables.cand, second.tables.cand, f)
    BY <1>6, <2>1, LookupMoves
  <2> QED BY <1>6, <2>1, <2>2, EvolvesTransitive
<1> HIDE DEF second
<1>8. Outcome(a, got) = IF first.run # NoFn THEN first
                   ELSE IF load.ok THEN second
                   ELSE [tables |-> load.tables, run |-> NoFn]
  BY DEF Outcome, first, load, second, R
<1>9. CASE first.run # NoFn
  BY <1>4, <1>5, <1>8, <1>9 DEF LookupOK, OutcomeGood, Live, B
<1>10. CASE first.run = NoFn /\ load.ok
  BY <1>7, <1>8, <1>10 DEF LookupOK, OutcomeGood, Live, SameStanding, B
<1>11. CASE first.run = NoFn /\ ~ load.ok
  <2>1. Outcome(a, got).tables = load.tables /\ Outcome(a, got).run = NoFn
    BY <1>8, <1>11
  <2>2. \A f \in Fns : Live(load.tables.cand, f) => Live(R.cand, f)
    BY <1>4, <1>6, <1>11 DEF LookupOK, SameStanding
  <2>3. \A f \in Fns : Live(load.tables.cand, f) /\ Entry[f] = a => ~ Matches(f)
    BY <1>4, <1>11, <2>2 DEF LookupOK
  <2> QED BY <1>6, <2>1, <2>3 DEF OutcomeGood, B
<1> QED BY <1>9, <1>10, <1>11

----------------------------------------------------------------------------
(* The invariant is inductive for ShardSpec.                               *)

\* overlay_loader_init establishes it.
LEMMA InitIInv ==
    ASSUME Init
    PROVE  IInv
<1>0. PICK got \in SUBSET InitBlobs :
         LET T == Register(EmptyTables, got)
         IN  /\ cand = T.cand /\ s_cand_n = T.n /\ s_valid_count = T.count
             /\ watched = T.watched /\ loaded = T.loaded /\ lazy = T.lazy
             /\ pc_cache = T.pc_cache /\ blobs_loaded = got
  BY DEF Init
<1> DEFINE T == Register(EmptyTables, got)
<1>1. ram \in [Cells -> Values] /\ page_gen \in [Pages -> Nat]
  BY InitAssumption DEF Init
<1>2. /\ EmptyTables \in TableSet /\ EmptyTables.cand = [f \in Fns |-> Absent]
      /\ EmptyTables.count = 0 /\ EmptyTables.loaded = {}
  BY DEF EmptyTables, TableSet, Absent, Unknown, Candidate, LazyMan, EntryState
<1>3. \A f \in Fns : /\ EmptyTables.cand[f].idx = 0
                     /\ EmptyTables.cand[f].state = "absent"
  BY <1>2 DEF Absent
<1>4. TablesOK(EmptyTables)
  <2>1. ValidIn(EmptyTables.cand) = {}
    BY <1>3 DEF ValidIn
  <2>2. \A f \in Fns : ~ Registered(EmptyTables.cand, f) /\ f \notin touched
    BY <1>3 DEF Registered, Init
  <2> QED BY <1>2, <1>3, <2>1, <2>2, FS_EmptySet DEF TablesOK, CandidateOK, CountOK
<1>5. got \in SUBSET Fns /\ got \subseteq Shards /\ InitBlobs \subseteq Shards
  BY InitAssumption, LayoutAssumption
<1>6. \A f \in Fns : ~ Registered(EmptyTables.cand, f)
  BY <1>3 DEF Registered
<1>7. /\ T \in TableSet /\ TablesOK(T)
      /\ \A f \in Fns : Registered(T.cand, f) => f \in got
  BY <1>1, <1>2, <1>4, <1>5, <1>6, RegisterOK
<1>8. /\ cand = T.cand /\ s_cand_n = T.n /\ s_valid_count = T.count
      /\ watched = T.watched /\ loaded = T.loaded /\ lazy = T.lazy
      /\ pc_cache = T.pc_cache /\ blobs_loaded = got
  BY <1>0
<1> HIDE DEF T
<1>9. TypeOK
  <2>1. /\ cand \in [Fns -> Candidate] /\ s_cand_n \in Nat /\ s_valid_count \in Nat
        /\ watched \subseteq Pages /\ loaded \subseteq Bundles
        /\ lazy \in [DllFns -> LazyMan] /\ pc_cache \in [Cells -> Fns \cup {NoFn}]
    BY <1>7, <1>8 DEF TableSet
  <2>2. /\ indexed \subseteq Bundles /\ tried \subseteq Cells /\ requested \subseteq Shards
        /\ blobs \subseteq Shards /\ blobs_loaded \subseteq blobs /\ touched \subseteq Fns
    BY <1>8, InitAssumption DEF Init
  <2>3. cache_dirty \in BOOLEAN
    BY DEF Init
  <2>4. active \in Seq(Fns) /\ frames \in Seq(Fns) /\ last \in Dispatched \cup {NoDispatch}
    BY DEF Init
  <2> QED BY <1>1, <2>1, <2>2, <2>3, <2>4 DEF TypeOK
<1>10. VerdictsTrue /\ CountRight
  BY <1>7, <1>8 DEF VerdictsTrue, CountRight, TablesOK
<1>11. Owned
  BY <1>5, <1>7, <1>8 DEF Owned, OwnedIn
<1>12. ActiveOK
  BY DEF Init, ActiveOK
<1> QED BY <1>9, <1>10, <1>11, <1>12 DEF IInv

\* Nothing a dispatch, a return, a rescan or an unwind does touches RAM or the
\* generations, so what it leaves unchanged stays right.
LEMMA FrameOK ==
    ASSUME IInv, ram' = ram, page_gen' = page_gen, touched' = touched,
           NEW f \in Fns, CandidateOK(cand', watched', f)
    PROVE  CandidateOK(cand, watched, f)'
<1>1. GenSum(f)' = GenSum(f) /\ (Matches(f)' <=> Matches(f))
  BY DEF GenSum, Matches
<1> QED BY <1>1 DEF CandidateOK, Registered, Hashed

\* The action properties, as predicates on steps.
EntersHashedCode ==
    Len(frames') > Len(frames) =>
        LET f == frames'[Len(frames')]
        IN  Matches(f) \/ (f \in Shards /\ f \notin touched)

MissesNothing ==
    last'.tier = "interp" =>
        ~ \E f \in Fns : Live(cand', f) /\ Entry[f] = last'.addr /\ Matches(f)

NeverBack ==
    \A f \in Fns : cand[f].state = "blacklist" =>
        /\ cand'[f].state = "blacklist"
        /\ Len(frames') > Len(frames) => frames'[Len(frames')] # f

StepOK == EntersHashedCode /\ MissesNothing /\ NeverBack

\* Recording the result of a differential run touches no verdict.
LEMMA DiffedOK ==
    ASSUME NEW T \in TableSet, TablesOK(T), NEW f \in Fns,
           NEW c \in {T.cand} \cup Diffed(T.cand, f)
    PROVE  /\ c \in [Fns -> Candidate]
           /\ \A g \in Fns : /\ CandidateOK(c, T.watched, g)
                             /\ c[g].state = T.cand[g].state /\ c[g].idx = T.cand[g].idx
           /\ ValidIn(c) = ValidIn(T.cand)
<1>1. T.cand \in [Fns -> Candidate] /\ \A g \in Fns : CandidateOK(T.cand, T.watched, g)
  BY DEF TableSet, TablesOK
<1>2. CASE c = T.cand
  BY <1>1, <1>2
<1>3. CASE c \in Diffed(T.cand, f)
  <2>1. PICK n \in Nat : c = [T.cand EXCEPT ![f].diff_passes = n]
    BY <1>1, <1>3 DEF Diffed, Candidate
  <2>2. /\ c \in [Fns -> Candidate]
        /\ \A g \in Fns : /\ c[g].state = T.cand[g].state /\ c[g].idx = T.cand[g].idx
                          /\ c[g].val_gen = T.cand[g].val_gen
    BY <1>1, <2>1 DEF Candidate
  <2>3. ASSUME NEW g \in Fns
        PROVE  CandidateOK(c, T.watched, g)
    BY <1>1, <2>1, <2>2 DEF CandidateOK, Registered
  <2> QED BY <2>2, <2>3 DEF ValidIn
<1> QED BY <1>2, <1>3

\* A dispatch keeps the invariant; what it enters is live, what it interprets
\* has no usable native code, and no candidate out of use is entered.
LEMMA DispatchIInv ==
    ASSUME IInv, NEW a \in Cells, Dispatch(a)
    PROVE  IInv' /\ StepOK /\ \A f \in Fns : Evolves(cand, cand', f)
<1>0. PICK got \in Readable(a) :
        LET out == Outcome(a, got)
        IN  /\ IF out.run = NoFn THEN Interpreted(out.tables, a)
               ELSE IF Gated(out.run, a, out.tables.cand[out.run].diff_passes)
               THEN GatedRun(out.tables, a, out.run)
               ELSE NativeRun(out.tables, a, out.run)
            /\ Request(out.tables, a)
            /\ cache_dirty' = (cache_dirty /\ ~ MissRescan(a))
            /\ blobs_loaded' = blobs_loaded \cup got
            /\ UNCHANGED <<ram, page_gen, indexed, blobs, touched>>
  BY DEF Dispatch
<1> DEFINE out == Outcome(a, got)
           T   == out.tables
           run == out.run
<1>1. OutcomeGood(a, got, out)
  BY OutcomeOK
<1>2. /\ \/ run = NoFn /\ Interpreted(T, a)
         \/ run # NoFn /\ GatedRun(T, a, run)
         \/ run # NoFn /\ NativeRun(T, a, run)
      /\ Request(T, a)
      /\ cache_dirty' \in BOOLEAN
      /\ blobs_loaded' = blobs_loaded \cup got
      /\ UNCHANGED <<ram, page_gen, indexed, blobs, touched>>
  <2>1. \/ run = NoFn /\ Interpreted(T, a)
        \/ run # NoFn /\ GatedRun(T, a, run)
        \/ run # NoFn /\ NativeRun(T, a, run)
    BY <1>0
  <2>2. cache_dirty' \in BOOLEAN
    BY <1>0
  <2> QED BY <1>0, <2>1, <2>2
<1>3. run # NoFn => /\ run \in Fns /\ Registered(T.cand, run) /\ T.cand[run].state = "valid"
                    /\ T.cand[run].val_gen = GenSum(run)
  BY <1>1 DEF OutcomeGood
<1> HIDE DEF out, T, run
<1>4. /\ T \in TableSet /\ TablesOK(T) /\ OwnedIn(T.cand, T.loaded, blobs_loaded \cup got)
      /\ \A f \in Fns : Evolves(cand, T.cand, f)
      /\ run = NoFn => \A f \in Fns : Live(T.cand, f) /\ Entry[f] = a => ~ Matches(f)
  BY <1>1 DEF OutcomeGood, T, run
<1>5. /\ cand' \in [Fns -> Candidate]
      /\ s_cand_n' = T.n /\ s_valid_count' = T.count
      /\ watched' = T.watched /\ loaded' = T.loaded /\ lazy' = T.lazy
      /\ pc_cache' = T.pc_cache
      /\ \A g \in Fns : /\ CandidateOK(cand', T.watched, g)
                        /\ cand'[g].state = T.cand[g].state /\ cand'[g].idx = T.cand[g].idx
      /\ ValidIn(cand') = ValidIn(T.cand)
  <2>1. CASE (run = NoFn /\ Interpreted(T, a)) \/ (run # NoFn /\ NativeRun(T, a, run))
    <3>1. SetTables(T)
      BY <2>1 DEF Interpreted, NativeRun
    <3> QED BY <3>1, <1>4 DEF SetTables, TableSet, TablesOK
  <2>2. CASE run # NoFn /\ GatedRun(T, a, run)
    <3>1. PICK c \in {T.cand} \cup Diffed(T.cand, run) : SetTables([T EXCEPT !.cand = c])
      BY <2>2 DEF GatedRun
    <3>2. /\ cand' = c /\ s_cand_n' = T.n /\ s_valid_count' = T.count
          /\ watched' = T.watched /\ loaded' = T.loaded /\ lazy' = T.lazy
          /\ pc_cache' = T.pc_cache
      BY <3>1, <1>4 DEF SetTables, TableSet
    <3> QED BY <2>2, <3>1, <3>2, <1>3, <1>4, DiffedOK
  <2> QED BY <1>2, <2>1, <2>2
<1>6. \A f \in Fns : Evolves(cand, cand', f)
  BY <1>4, <1>5 DEF Evolves, Registered
<1>7. VerdictsTrue'
  BY <1>2, <1>5, FrameOK DEF VerdictsTrue
<1>8. Owned'
  BY <1>2, <1>4, <1>5 DEF Owned, OwnedIn, Registered
<1>9. CountRight'
  BY <1>4, <1>5 DEF CountRight, TablesOK, CountOK
<1>10. blobs_loaded' \subseteq blobs' /\ blobs' \subseteq Shards
  BY <1>2 DEF Readable, IInv, TypeOK
<1>11. tried' \subseteq Cells /\ requested' \subseteq Shards
  BY <1>2 DEF Request, IInv, TypeOK
<1>12. active \in Seq(Fns) /\ frames \in Seq(Fns)
  BY DEF IInv, TypeOK
<1>13. ASSUME NEW f \in Fns, RunningOK(f)
       PROVE  RunningOK(f)'
  <2>1. Matches(f)' <=> Matches(f)
    BY <1>2 DEF Matches
  <2>2. f \in touched' <=> f \in touched
    BY <1>2
  <2> QED BY <2>1, <2>2, <1>13, <1>6 DEF RunningOK, Evolves, Registered
<1>14. CASE (run = NoFn /\ Interpreted(T, a)) \/ (run # NoFn /\ GatedRun(T, a, run))
  <2>1. UNCHANGED <<active, frames>> /\ last' \in Dispatched
    BY <1>14 DEF Interpreted, GatedRun, Dispatched
  <2>2. ActiveOK'
    BY <2>1, <1>12, <1>13 DEF IInv, ActiveOK
  <2>3. EntersHashedCode /\ NeverBack
    BY <2>1, <1>6, <1>12 DEF EntersHashedCode, NeverBack, Evolves
  <2>4. MissesNothing
    <3>1. CASE run = NoFn /\ Interpreted(T, a)
      <4>1. last' = [addr |-> a, tier |-> "interp"] /\ cand' = T.cand
        BY <3>1 DEF Interpreted, SetTables
      <4> QED BY <3>1, <4>1, <1>4 DEF MissesNothing
    <3>2. CASE run # NoFn /\ GatedRun(T, a, run)
      BY <3>2 DEF GatedRun, MissesNothing
    <3> QED BY <1>14, <3>1, <3>2
  <2>5. TypeOK'
    BY <1>2, <1>4, <1>5, <1>10, <1>11, <1>12, <2>1 DEF IInv, TypeOK, TableSet
  <2> QED BY <1>6, <1>7, <1>8, <1>9, <2>2, <2>3, <2>4, <2>5 DEF IInv, StepOK
<1>15. CASE run # NoFn /\ NativeRun(T, a, run)
  <2>1. Matches(run) \/ (run \in Shards /\ run \notin touched)
    <3>1. CandidateOK(T.cand, T.watched, run)
      BY <1>3, <1>4, <1>15 DEF TablesOK
    <3> QED BY <1>3, <1>15, <3>1 DEF CandidateOK, Hashed, DllFns
  <2>2. run \in Fns /\ cand' = T.cand
    BY <1>3, <1>15 DEF NativeRun, SetTables
  <2>3. frames' \in Seq(Fns) /\ frames'[Len(frames')] = run
    BY <1>12, <1>15, <2>2 DEF NativeRun
  <2>4. active' = Push(active, run) /\ last' = [addr |-> a, tier |-> "native"]
    BY <1>15 DEF NativeRun
  <2>5. active' \in Seq(Fns)
    BY <1>12, <2>2, <2>4 DEF Push
  <2>6. PICK r \in Fns : r = run
    BY <2>2
  <2>7. ActiveOK'
    <3>1. RunningOK(r)'
      <4>1. Matches(r)' \/ (r \in Shards /\ r \notin touched')
        BY <1>2, <2>1, <2>6 DEF Matches
      <4> QED BY <1>3, <1>15, <2>2, <2>6, <4>1 DEF RunningOK, Registered
    <3>2. SUFFICES ASSUME NEW i \in 1..Len(active')
                   PROVE  RunningOK(active[i])'
      BY DEF ActiveOK
    <3>3. active'[i] = r \/ \E j \in 1..Len(active) : active'[i] = active[j]
      BY <1>12, <2>2, <2>4, <2>6 DEF Push
    <3>4. CASE active'[i] = r
      BY <3>1, <3>4 DEF RunningOK, Registered, Matches
    <3>5. CASE \E j \in 1..Len(active) : active'[i] = active[j]
      <4>1. PICK g \in Fns : g = active'[i] /\ RunningOK(g)
        BY <1>12, <3>5 DEF IInv, ActiveOK
      <4>2. RunningOK(g)'
        BY <4>1, <1>13
      <4> QED BY <4>1, <4>2 DEF RunningOK, Registered, Matches
    <3> QED BY <3>3, <3>4, <3>5
  <2>8. EntersHashedCode /\ MissesNothing
    BY <2>1, <2>3, <2>4 DEF EntersHashedCode, MissesNothing
  <2>9. cand[run].state # "blacklist"
    BY <1>3, <1>4, <1>15 DEF Evolves
  <2>10. NeverBack
    BY <2>3, <2>9, <1>6 DEF NeverBack, Evolves
  <2>11. last' \in Dispatched
    BY <2>4 DEF Dispatched
  <2>12. TypeOK'
    BY <1>2, <1>4, <1>5, <1>10, <1>11, <2>3, <2>5, <2>11 DEF IInv, TypeOK, TableSet
  <2> QED BY <1>6, <1>7, <1>8, <1>9, <2>7, <2>8, <2>10, <2>12 DEF IInv, StepOK
<1> QED BY <1>2, <1>14, <1>15

\* A store through the hook: the generation of a watched page moves with its
\* bytes, a page that is not watched holds no registered code, and whatever is
\* recorded as running over the stored cell is taken out of use.
LEMMA StoreIInv ==
    ASSUME IInv, NEW x \in Cells, NEW v \in Values, Store(x, v)
    PROVE  /\ IInv' /\ StepOK
           /\ \A f \in Fns : cand'[f].state = "blacklist" /\ cand[f].state # "blacklist"
                                => \E i \in 1..Len(active) : active[i] = f
<1> DEFINE p == PageOf[x]
           hit == p \in watched
           dem == IF hit THEN Demoted(x) ELSE {}
<1>1. /\ ram' = [ram EXCEPT ![x] = v]
      /\ page_gen' = IF hit THEN [page_gen EXCEPT ![p] = @ + 1] ELSE page_gen
      /\ cand' = [f \in Fns |-> IF f \in dem THEN [cand[f] EXCEPT !.state = "blacklist"]
                                ELSE cand[f]]
      /\ s_valid_count' = Less(s_valid_count, Cardinality(dem))
      /\ last' = NoDispatch
      /\ touched' = touched \cup {f \in Fns : Registered(cand, f) /\ x \in Code(f)}
      /\ UNCHANGED <<watched, s_cand_n, loaded, lazy, pc_cache, active,
                     frames, worldVars>>
  BY DEF Store
<1>2. p \in Pages
  BY LayoutAssumption
<1>3. ram' \in [Cells -> Values] /\ page_gen' \in [Pages -> Nat]
  BY <1>1, <1>2 DEF IInv, TypeOK
<1>4. /\ dem \in SUBSET Fns
      /\ \A f \in dem : /\ x \in Code(f) /\ cand[f].state # "blacklist"
                        /\ \E i \in 1..Len(active) : active[i] = f
  BY DEF Demoted
<1>5. \A f \in dem : Registered(cand, f) /\ (f \in Shards \/ cand[f].state = "valid")
  <2>1. TAKE f \in dem
  <2>2. PICK i \in 1..Len(active) : active[i] = f
    BY <1>4
  <2>3. RunningOK(f)
    BY <2>2 DEF IInv, ActiveOK
  <2> QED BY <1>4, <2>3 DEF RunningOK
<1>6. cand' \in [Fns -> Candidate]
  BY <1>1 DEF IInv, TypeOK, Candidate, EntryState
<1>7. CountRight'
  <2>1. /\ ValidIn(cand) \in SUBSET Fns /\ dem \in SUBSET Fns /\ {} \in SUBSET Fns
        /\ {} \cap ValidIn(cand) = {} /\ dem \cap {} = {}
        /\ Shards = {} => dem \subseteq ValidIn(cand)
    BY <1>4, <1>5 DEF ValidIn
  <2>2. ValidIn(cand') = (ValidIn(cand) \cup {}) \ dem
    BY <1>1, <1>4 DEF ValidIn, IInv, TypeOK, Candidate
  <2> HIDE DEF dem
  <2>3. s_valid_count \in Nat /\ CountOK(s_valid_count, ValidIn(cand))
    BY DEF IInv, CountRight, TypeOK
  <2>4. CountOK(Less(s_valid_count, Cardinality(dem)) + Cardinality({}),
                (ValidIn(cand) \cup {}) \ dem)
    BY <2>1, <2>3, CountMoves
  <2>5. s_valid_count' = Less(s_valid_count, Cardinality(dem)) + Cardinality({})
    <3>1. Less(s_valid_count, Cardinality(dem)) \in Nat /\ Cardinality({}) = 0
      BY <2>1, <2>3, CardType, FS_EmptySet DEF Less
    <3> QED BY <1>1, <3>1
  <2>6. CountOK(s_valid_count', ValidIn(cand'))
    BY <2>2, <2>4, <2>5
  <2> QED BY <2>6 DEF CountRight, CountOK, ValidIn
<1>8. s_valid_count' \in Nat
  <2>1. dem \in SUBSET Fns /\ s_valid_count \in Nat
    BY <1>4 DEF IInv, TypeOK
  <2> HIDE DEF dem
  <2> QED BY <1>1, <2>1, CardType DEF Less
<1>9. TypeOK'
  BY <1>1, <1>3, <1>6, <1>8 DEF IInv, TypeOK, worldVars
<1>11. ASSUME NEW f \in Fns
       PROVE  /\ cand'[f].idx = cand[f].idx /\ cand'[f].val_gen = cand[f].val_gen
              /\ cand'[f].state = IF f \in dem THEN "blacklist" ELSE cand[f].state
  <2>1. cand[f] \in Candidate
    BY DEF IInv, TypeOK
  <2> QED BY <1>1, <2>1 DEF Candidate
<1>12. Owned'
  BY <1>1, <1>11 DEF IInv, Owned, OwnedIn, Registered, worldVars
<1>13. ASSUME NEW f \in Fns, x \notin Code(f)
       PROVE  Matches(f)' <=> Matches(f)
  BY <1>1, <1>13, LayoutAssumption DEF Code, Matches, IInv, TypeOK
<1>14. ActiveOK'
  <2>1. SUFFICES ASSUME NEW i \in 1..Len(active')
                 PROVE  RunningOK(active[i])'
    BY DEF ActiveOK
  <2>2. PICK f \in Fns : f = active[i] /\ i \in 1..Len(active) /\ active'[i] = f
    BY <1>1 DEF IInv, TypeOK
  <2>3. RunningOK(f)
    BY <2>2 DEF IInv, ActiveOK
  <2>4. RunningOK(f)'
    <3>1. CASE x \in Code(f)
      <4>1. CandidateOK(cand, watched, f) /\ Registered(cand, f)
        BY <2>3 DEF IInv, VerdictsTrue, RunningOK
      <4>2. hit
        BY <3>1, <4>1 DEF CandidateOK, Code, CodePages
      <4>3. f \in dem \/ cand[f].state = "blacklist"
        BY <2>2, <3>1, <4>2 DEF Demoted
      <4> QED BY <1>11, <4>1, <4>3 DEF RunningOK, Registered
    <3>2. CASE x \notin Code(f)
      <4>1. f \notin dem /\ (f \in touched' <=> f \in touched)
        BY <1>1, <1>4, <3>2
      <4> QED BY <1>11, <1>13, <2>3, <3>2, <4>1 DEF RunningOK, Registered
    <3> QED BY <3>1, <3>2
  <2> QED BY <2>2, <2>4 DEF RunningOK, Registered, Matches
<1>15. ASSUME NEW f \in Fns
       PROVE  CandidateOK(cand, watched, f)'
  <2>1. CandidateOK(cand, watched, f) /\ cand[f] \in Candidate
    BY DEF IInv, VerdictsTrue, TypeOK
  <2>2. /\ cand'[f].idx = cand[f].idx /\ cand'[f].val_gen = cand[f].val_gen
        /\ cand'[f].state \in {cand[f].state, "blacklist"}
    BY <1>11
  <2>3. GenSum(f) \in Nat
    BY GenSumType DEF IInv, TypeOK
  <2>4. CASE ~ Registered(cand, f)
    <3>1. f \notin dem /\ (f \in touched' <=> f \in touched)
      BY <1>1, <1>5, <2>4
    <3> QED BY <1>11, <2>1, <2>4, <3>1 DEF CandidateOK, Registered
  <2>5. CASE Registered(cand, f) /\ p \in CodePages(f)
    <3>1. hit
      BY <2>1, <2>5 DEF CandidateOK
    <3>2. /\ page_gen' = [page_gen EXCEPT ![p] = page_gen[p] + 1]
          /\ page_gen \in [Pages -> Nat]
      BY <1>1, <3>1 DEF IInv, TypeOK
    <3>3. /\ PageOf[R1[f]] \in Pages /\ PageOf[R2[f]] \in Pages
          /\ p = PageOf[R1[f]] \/ p = PageOf[R2[f]]
      BY <2>5, LayoutAssumption DEF CodePages
    <3> HIDE DEF p
    <3>4. GenSum(f)' > GenSum(f)
      <4> DEFINE q1 == PageOf[R1[f]]
                 q2 == PageOf[R2[f]]
      <4>1. \A q \in Pages : page_gen[q] \in Nat /\ page_gen'[q] \in Nat
                             /\ page_gen'[q] >= page_gen[q]
                             /\ (q = p => page_gen'[q] > page_gen[q])
        BY <1>2, <3>2
      <4>2. /\ GenSum(f)' = page_gen'[q1] + (IF R2[f] = R1[f] THEN 0 ELSE page_gen'[q2])
            /\ GenSum(f) = page_gen[q1] + (IF R2[f] = R1[f] THEN 0 ELSE page_gen[q2])
        BY DEF GenSum
      <4> QED BY <4>1, <4>2, <3>3
    <3>5. GenSum(f)' \in Nat
      BY <1>3, <3>3 DEF GenSum
    <3>6. cand[f].val_gen \in Nat /\ cand[f].val_gen <= GenSum(f)
      BY <2>1, <2>5 DEF CandidateOK, Candidate
    <3>7. cand'[f].val_gen <= GenSum(f)' /\ cand'[f].val_gen # GenSum(f)'
      BY <2>2, <2>3, <3>4, <3>5, <3>6
    <3>8. /\ CodePages(f) \subseteq watched'
          /\ cand'[f].state \in EntryState
      BY <2>1, <2>2, <2>5, <1>1 DEF CandidateOK, EntryState
    <3>9. Registered(cand', f)
      BY <2>2, <2>5 DEF Registered
    <3> QED BY <3>7, <3>8, <3>9 DEF CandidateOK, CodePages, Registered
  <2>6. CASE Registered(cand, f) /\ p \notin CodePages(f)
    <3>1. x # R1[f] /\ x # R2[f] /\ (f \in touched' <=> f \in touched)
      BY <1>1, <2>6 DEF CodePages, Code
    <3>2. GenSum(f)' = GenSum(f) /\ (Matches(f)' <=> Matches(f))
      BY <1>1, <1>2, <2>6, <3>1, LayoutAssumption
         DEF GenSum, Matches, CodePages, IInv, TypeOK
    <3>3. CodePages(f) \subseteq watched'
      BY <1>1, <2>1, <2>6 DEF CandidateOK
    <3> QED BY <2>1, <2>2, <2>6, <3>1, <3>2, <3>3
            DEF CandidateOK, EntryState, Registered, CodePages, Hashed
  <2> QED BY <2>4, <2>5, <2>6
<1>16. StepOK
  <2>1. frames' = frames /\ last' = NoDispatch /\ frames \in Seq(Fns)
    BY <1>1 DEF IInv, TypeOK
  <2>2. NeverBack
    BY <1>11, <2>1 DEF NeverBack
  <2> QED BY <2>1, <2>2 DEF StepOK, EntersHashedCode, MissesNothing, NoDispatch
<1> HIDE DEF dem
<1>17. \A f \in Fns : cand'[f].state = "blacklist" /\ cand[f].state # "blacklist"
                        => \E i \in 1..Len(active) : active[i] = f
  BY <1>4, <1>11
<1> QED BY <1>7, <1>9, <1>12, <1>14, <1>15, <1>16, <1>17 DEF IInv, VerdictsTrue

\* Steps that leave the candidate table, RAM and the generations alone, and
\* record no new activation.
LEMMA QuietIInv ==
    ASSUME IInv, TypeOK',
           UNCHANGED <<ram, page_gen, cand, watched, loaded, s_valid_count, blobs_loaded,
                       touched>>,
           \A i \in 1..Len(active') : \E j \in 1..Len(active) : active'[i] = active[j]
    PROVE  IInv'
<1>1. \A f \in Fns : CandidateOK(cand', watched', f)
  BY DEF IInv, VerdictsTrue
<1>2. VerdictsTrue'
  BY <1>1, FrameOK DEF VerdictsTrue
<1>3. Owned' /\ CountRight'
  BY DEF IInv, Owned, OwnedIn, CountRight, CountOK, ValidIn
<1>4. ActiveOK'
  BY DEF IInv, ActiveOK, RunningOK, Registered, Matches
<1> QED BY <1>2, <1>3, <1>4 DEF IInv

\* A step that starts no activation, makes no dispatch and changes no candidate.
LEMMA NoDispatchStep ==
    ASSUME last' = NoDispatch, ~ (Len(frames') > Len(frames)), cand' = cand
    PROVE  StepOK
BY DEF StepOK, EntersHashedCode, MissesNothing, NeverBack, NoDispatch

\* Every step keeps the invariant, and none breaks an action property.
LEMMA StepIInv ==
    ASSUME IInv, [ShardNext]_vars
    PROVE  IInv' /\ (StepOK \/ UNCHANGED vars)
<1>0. active \in Seq(Fns) /\ frames \in Seq(Fns)
  BY DEF IInv, TypeOK
<1>1. ASSUME NEW a \in Cells, Dispatch(a)
      PROVE  IInv' /\ StepOK
  BY <1>1, DispatchIInv
<1>2. CASE Return
  <2>1. /\ frames' \in Seq(Fns) /\ active' \in Seq(Fns) /\ ~ (Len(frames') > Len(frames))
        /\ \A i \in 1..Len(active') : \E j \in 1..Len(active) : active'[i] = active[j]
    BY <1>0, <1>2 DEF Return, Pop
  <2>2. /\ TypeOK'
        /\ UNCHANGED <<ram, page_gen, cand, watched, loaded, s_valid_count, blobs_loaded, touched>>
    BY <1>2, <2>1 DEF Return, IInv, TypeOK, tableVars, worldVars
  <2> QED BY <1>2, <2>1, <2>2, QuietIInv, NoDispatchStep DEF Return
<1>3. ASSUME NEW x \in Cells, NEW v \in Values, Store(x, v)
      PROVE  IInv' /\ StepOK
  BY <1>3, StoreIInv
<1>4. CASE Rescan
  <2>1. PICK found \in SUBSET Bundles : indexed' = found
    BY <1>4 DEF Rescan
  <2>2. lazy' \in [DllFns -> LazyMan]
    BY <1>4 DEF Rescan, Unknown, LazyMan
  <2>3. /\ TypeOK'
        /\ UNCHANGED <<ram, page_gen, cand, watched, loaded, s_valid_count, blobs_loaded, touched>>
        /\ UNCHANGED <<active, frames>>
    BY <1>4, <2>1, <2>2 DEF Rescan, IInv, TypeOK
  <2> QED BY <1>0, <1>4, <2>3, QuietIInv, NoDispatchStep DEF Rescan
<1>5. ASSUME NEW k \in 0..MaxDepth, Unwind(k)
      PROVE  IInv' /\ StepOK
  <2>1. frames' \in Seq(Fns) /\ ~ (Len(frames') > Len(frames))
    BY <1>0, <1>5 DEF Unwind
  <2>2. /\ TypeOK' /\ active' = active
        /\ UNCHANGED <<ram, page_gen, cand, watched, loaded, s_valid_count, blobs_loaded, touched>>
    BY <1>5, <2>1 DEF Unwind, IInv, TypeOK, tableVars, worldVars
  <2> QED BY <1>0, <1>5, <2>1, <2>2, QuietIInv, NoDispatchStep DEF Unwind
<1>6. ASSUME NEW f \in Shards, Publish(f)
      PROVE  IInv' /\ StepOK
  <2>1. /\ requested' \subseteq Shards /\ blobs' \subseteq Shards /\ blobs \subseteq blobs'
        /\ cache_dirty' = TRUE /\ last' = NoDispatch
        /\ UNCHANGED <<ram, page_gen, active, frames, tableVars, indexed, tried, blobs_loaded, touched>>
    BY <1>6 DEF Publish, IInv, TypeOK
  <2>3. TypeOK'
    BY <2>1 DEF IInv, TypeOK, tableVars
  <2> QED BY <1>0, <2>1, <2>3, QuietIInv, NoDispatchStep DEF tableVars
<1>7. CASE UNCHANGED vars
  <2>1. /\ TypeOK'
        /\ UNCHANGED <<ram, page_gen, cand, watched, loaded, s_valid_count, blobs_loaded, touched>>
        /\ UNCHANGED active
    BY <1>7 DEF vars, IInv, TypeOK
  <2> QED BY <1>7, <2>1, QuietIInv
<1> QED BY <1>1, <1>2, <1>3, <1>4, <1>5, <1>6, <1>7 DEF ShardNext, GuestNext, CoreNext

\* The tables keep their types in every behaviour of the dispatcher with a
\* guest that unwinds and a JIT that publishes, whatever the layout and bounds.
THEOREM ShardTypeOK ==
    ShardSpec => []TypeOK
<1>1. Init => IInv
  BY InitIInv
<1>2. IInv /\ [ShardNext]_vars => IInv'
  BY StepIInv
<1>3. IInv => TypeOK
  BY DEF IInv
<1> QED BY <1>1, <1>2, <1>3, PTL DEF ShardSpec

\* Stored code is hashed before it runs: for every layout, cache and history of
\* stores, although dispatch hashes nothing while the page generations stand
\* still, native code is entered over other bytes than its own only if it is a
\* shard whose code was not stored to since it was registered.
THEOREM ShardStoredCodeIsHashed == ShardSpec => StoredCodeIsHashed
<1>1. Init => IInv
  BY InitIInv
<1>2. IInv /\ [ShardNext]_vars => IInv'
  BY StepIInv
<1>3. IInv /\ [ShardNext]_vars =>
        [Len(frames') > Len(frames) =>
           LET f == frames'[Len(frames')]
           IN  Matches(f) \/ (f \in Shards /\ f \notin touched)]_vars
  BY StepIInv DEF StepOK, EntersHashedCode
<1> QED BY <1>1, <1>2, <1>3, PTL DEF ShardSpec, StoredCodeIsHashed

\* A loader without shards (the sljit tier is off by default) runs native code
\* only over the bytes it was compiled from.
THEOREM DllNativeRunsLiveCode ==
    ASSUME Shards = {}
    PROVE  ShardSpec => NativeRunsLiveCode
<1>1. Init => IInv
  BY InitIInv
<1>2. IInv /\ [ShardNext]_vars => IInv'
  BY StepIInv
<1>3. IInv /\ [ShardNext]_vars =>
        [Len(frames') > Len(frames) => Matches(frames'[Len(frames')])]_vars
  BY StepIInv DEF StepOK, EntersHashedCode
<1> QED BY <1>1, <1>2, <1>3, PTL DEF ShardSpec, NativeRunsLiveCode

\* Reload on return: the dispatcher gives up on native code for an entry only
\* when no usable candidate registered there matches live RAM, so an INVALID
\* verdict never outlives the bytes it was about.
THEOREM ShardReloadOnReturn ==
    ShardSpec => ReloadOnReturn
<1>1. Init => IInv
  BY InitIInv
<1>2. IInv /\ [ShardNext]_vars => IInv'
  BY StepIInv
<1>3. IInv /\ [ShardNext]_vars =>
        [last'.tier = "interp" =>
           ~ \E f \in Fns : Live(cand', f) /\ Entry[f] = last'.addr /\ Matches(f)]_vars
  BY StepIInv DEF StepOK, MissesNothing
<1> QED BY <1>1, <1>2, <1>3, PTL DEF ShardSpec, ReloadOnReturn

\* The incremental count never exceeds what it counts: s_valid_count, moved by
\* every registration, re-validation, obsolescence and demotion, is at most the
\* number of VALID candidates.
THEOREM ShardValidCountNotAbove == ShardSpec => []ValidCountNotAbove
<1>1. Init => IInv
  BY InitIInv
<1>2. IInv /\ [ShardNext]_vars => IInv'
  BY StepIInv
<1>3. IInv => ValidCountNotAbove
  BY DEF IInv, CountRight, CountOK, ValidIn, ValidCountNotAbove
<1> QED BY <1>1, <1>2, <1>3, PTL DEF ShardSpec

\* Without shards the incremental count is exact.
THEOREM DllValidCountExact ==
    ASSUME Shards = {}
    PROVE  ShardSpec => []ValidCountExact
<1>1. Init => IInv
  BY InitIInv
<1>2. IInv /\ [ShardNext]_vars => IInv'
  BY StepIInv
<1>3. IInv => ValidCountExact
  BY DEF IInv, CountRight, CountOK, ValidIn, ValidCountExact
<1> QED BY <1>1, <1>2, <1>3, PTL DEF ShardSpec

\* Demotion is permanent: the lists of loaded DLLs and blobs keep a function
\* from being registered a second time, and no walk revives it.
THEOREM ShardDemotionPermanent ==
    ShardSpec => DemotionPermanent
<1>1. Init => IInv
  BY InitIInv
<1>2. IInv /\ [ShardNext]_vars => IInv'
  BY StepIInv
<1>3. IInv /\ [ShardNext]_vars =>
        [\A f \in Fns : cand[f].state = "blacklist" =>
           /\ cand'[f].state = "blacklist"
           /\ Len(frames') > Len(frames) => frames'[Len(frames')] # f]_vars
  BY StepIInv DEF StepOK, NeverBack
<1> QED BY <1>1, <1>2, <1>3, PTL DEF ShardSpec, DemotionPermanent

\* The dispatch loop alone and the loop under an unwinding guest are special
\* cases, so that the theorems above hold of their runs too.
THEOREM GuestIsShard == (CoreSpec => ShardSpec) /\ (GuestSpec => ShardSpec)
<1>1. [CoreNext]_vars => [ShardNext]_vars
  BY DEF GuestNext, ShardNext
<1>2. [GuestNext]_vars => [ShardNext]_vars
  BY DEF ShardNext
<1> QED BY <1>1, <1>2, PTL DEF CoreSpec, GuestSpec, ShardSpec

----------------------------------------------------------------------------
(* The dispatch loop by itself: what is recorded against what really runs. *)

\* s_active_stack embeds in the host stack: its entry i is an activation with
\* at least as many activations above it as entry i has entries above it.  It
\* holds although an activation beyond the capacity is not recorded and its
\* end pops all the same.
Embedded ==
    /\ Len(active) <= Len(frames)
    /\ \A i \in 1..Len(active) :
          \E k \in 1..(Len(frames) - (Len(active) - i)) : frames[k] = active[i]

\* Below the capacity the two are the same.
Recorded == active = frames /\ Len(frames) <= MaxDepth

\* Dropping the last element of a sequence.
LEMMA DropLast ==
    ASSUME NEW s \in Seq(Fns), s # <<>>
    PROVE  /\ Len(s) \in Nat \ {0}
           /\ Len(SubSeq(s, 1, Len(s) - 1)) = Len(s) - 1
           /\ \A k \in 1..(Len(s) - 1) : SubSeq(s, 1, Len(s) - 1)[k] = s[k]
<1>1. Len(s) \in Nat \ {0}
  OBVIOUS
<1> DEFINE n == Len(s) - 1
<1>2. n \in Nat /\ n <= Len(s) /\ n = Len(s) - 1
  BY <1>1
<1> HIDE DEF n
<1>3. Len(SubSeq(s, 1, n)) = n /\ \A k \in 1..n : SubSeq(s, 1, n)[k] = s[k]
  BY <1>2
<1> QED BY <1>1, <1>3 DEF n

\* Every step of the loop keeps them, and demotes only what really runs.
LEMMA CoreStep ==
    ASSUME IInv, Embedded, [CoreNext]_vars
    PROVE  /\ Embedded'
           /\ MaxDepth <= StackCap /\ Recorded => Recorded'
           /\ \A f \in DllFns : cand'[f].state = "blacklist" /\ cand[f].state # "blacklist"
                                  => \E i \in 1..Len(frames) : frames[i] = f
<1>0. /\ active \in Seq(Fns) /\ frames \in Seq(Fns) /\ DllFns \subseteq Fns
      /\ MaxDepth \in Nat /\ StackCap \in Nat
  BY BoundAssumption DEF IInv, TypeOK, DllFns
<1>1. ASSUME NEW a \in Cells, Dispatch(a)
      PROVE  /\ Embedded'
             /\ MaxDepth <= StackCap /\ Recorded => Recorded'
             /\ \A f \in DllFns : cand'[f].state = "blacklist" => cand[f].state = "blacklist"
  <2>1. \A f \in DllFns : cand'[f].state = "blacklist" => cand[f].state = "blacklist"
    BY <1>0, <1>1, DispatchIInv DEF Evolves
  <2>2. CASE UNCHANGED <<active, frames>>
    BY <2>1, <2>2 DEF Embedded, Recorded
  <2>3. ASSUME NEW f \in Fns, active' = Push(active, f), frames' = Append(frames, f)
        PROVE  Embedded' /\ (MaxDepth <= StackCap /\ Recorded => Recorded')
    <3>1. Len(frames) < MaxDepth
      BY <1>1 DEF Dispatch
    <3>2. /\ Len(frames') = Len(frames) + 1 /\ frames'[Len(frames) + 1] = f
          /\ \A k \in 1..Len(frames) : frames'[k] = frames[k]
      BY <1>0, <2>3
    <3>3. CASE Len(active) < StackCap
      <4>1. /\ Len(active') = Len(active) + 1 /\ active'[Len(active) + 1] = f
            /\ \A i \in 1..Len(active) : active'[i] = active[i]
            /\ active' = Append(active, f)
        BY <1>0, <2>3, <3>3 DEF Push
      <4>2. ASSUME NEW i \in 1..Len(active')
            PROVE  \E k \in 1..(Len(frames') - (Len(active') - i)) : frames'[k] = active'[i]
        <5>1. CASE i = Len(active) + 1
          <6>1. Len(frames') \in 1..(Len(frames') - (Len(active') - i))
            BY <1>0, <3>2, <4>1, <5>1
          <6> QED BY <6>1, <3>2, <4>1, <5>1
        <5>2. CASE i \in 1..Len(active)
          <6>1. PICK k \in 1..(Len(frames) - (Len(active) - i)) : frames[k] = active[i]
            BY <5>2 DEF Embedded
          <6>2. k \in 1..Len(frames) /\ k \in 1..(Len(frames') - (Len(active') - i))
            BY <1>0, <3>2, <4>1, <5>2, <6>1
          <6> QED BY <6>1, <6>2, <3>2, <4>1, <5>2
        <5> QED BY <1>0, <4>1, <5>1, <5>2
      <4>3. Len(active') <= Len(frames')
        BY <1>0, <3>2, <4>1 DEF Embedded
      <4>4. Recorded => Recorded'
        BY <1>0, <2>3, <3>1, <3>2, <4>1 DEF Recorded
      <4> QED BY <4>2, <4>3, <4>4 DEF Embedded
    <3>4. CASE ~ (Len(active) < StackCap)
      <4>1. active' = active
        BY <2>3, <3>4 DEF Push
      <4>2. ASSUME NEW i \in 1..Len(active')
            PROVE  \E k \in 1..(Len(frames') - (Len(active') - i)) : frames'[k] = active'[i]
        <5>1. PICK k \in 1..(Len(frames) - (Len(active) - i)) : frames[k] = active[i]
          BY <4>1 DEF Embedded
        <5>2. k \in 1..Len(frames) /\ k \in 1..(Len(frames') - (Len(active') - i))
          BY <1>0, <3>2, <4>1, <5>1
        <5> QED BY <5>1, <5>2, <3>2, <4>1
      <4>3. Len(active') <= Len(frames')
        BY <1>0, <3>2, <4>1 DEF Embedded
      <4>4. ~ (MaxDepth <= StackCap /\ Recorded)
        BY <1>0, <3>1, <3>4 DEF Recorded
      <4> QED BY <4>2, <4>3, <4>4 DEF Embedded
    <3> QED BY <3>3, <3>4
  <2>4. \/ UNCHANGED <<active, frames>>
        \/ \E f \in Fns : active' = Push(active, f) /\ frames' = Append(frames, f)
    <3>1. PICK got \in Readable(a) :
            LET out == Outcome(a, got)
            IN  IF out.run = NoFn THEN Interpreted(out.tables, a)
                ELSE IF Gated(out.run, a, out.tables.cand[out.run].diff_passes)
                THEN GatedRun(out.tables, a, out.run)
                ELSE NativeRun(out.tables, a, out.run)
      BY <1>1 DEF Dispatch
    <3>2. OutcomeGood(a, got, Outcome(a, got))
      BY OutcomeOK
    <3>3. Outcome(a, got).run # NoFn => Outcome(a, got).run \in Fns
      BY <3>2 DEF OutcomeGood
    <3> QED BY <3>1, <3>3 DEF Interpreted, GatedRun, NativeRun
  <2> QED BY <2>1, <2>2, <2>3, <2>4
<1>2. CASE Return
  <2>1. /\ frames' = SubSeq(frames, 1, Len(frames) - 1) /\ active' = Pop(active)
        /\ cand' = cand /\ frames # <<>>
    BY <1>2 DEF Return, tableVars
  <2>2. /\ Len(frames') = Len(frames) - 1
        /\ \A k \in 1..(Len(frames) - 1) : frames'[k] = frames[k]
    BY <1>0, <2>1, DropLast
  <2>3. CASE active = <<>>
    <3>1. active' = <<>> /\ Len(active') = 0
      BY <2>1, <2>3 DEF Pop
    <3>2. ~ Recorded
      BY <2>1, <2>3 DEF Recorded
    <3>3. Len(frames') \in Nat
      BY <1>0, <2>1, <2>2
    <3> QED BY <2>1, <3>1, <3>2, <3>3 DEF Embedded
  <2>4. CASE active # <<>>
    <3>1. /\ Len(active') = Len(active) - 1 /\ active' = SubSeq(active, 1, Len(active) - 1)
          /\ \A i \in 1..(Len(active) - 1) : active'[i] = active[i]
      BY <1>0, <2>1, <2>4, DropLast DEF Pop
    <3>2. ASSUME NEW i \in 1..Len(active')
          PROVE  \E k \in 1..(Len(frames') - (Len(active') - i)) : frames'[k] = active'[i]
      <4>1. i \in 1..Len(active) /\ i \in 1..(Len(active) - 1)
        BY <1>0, <3>1
      <4>2. PICK k \in 1..(Len(frames) - (Len(active) - i)) : frames[k] = active[i]
        BY <4>1 DEF Embedded
      <4>3. k \in 1..(Len(frames) - 1) /\ k \in 1..(Len(frames') - (Len(active') - i))
        BY <1>0, <2>2, <3>1, <4>1, <4>2
      <4> QED BY <2>2, <3>1, <4>1, <4>2, <4>3
    <3>3. Len(active') <= Len(frames')
      BY <1>0, <2>2, <3>1 DEF Embedded
    <3>4. Recorded => Recorded'
      BY <1>0, <2>1, <2>2, <3>1 DEF Recorded
    <3> QED BY <2>1, <3>2, <3>3, <3>4 DEF Embedded
  <2> QED BY <2>3, <2>4
<1>3. ASSUME NEW x \in Cells, NEW v \in Values, Store(x, v)
      PROVE  /\ Embedded'
             /\ Recorded => Recorded'
             /\ \A f \in DllFns : cand'[f].state = "blacklist" /\ cand[f].state # "blacklist"
                                    => \E i \in 1..Len(frames) : frames[i] = f
  <2>1. UNCHANGED <<active, frames>>
    BY <1>3 DEF Store
  <2>2. \A f \in Fns : cand'[f].state = "blacklist" /\ cand[f].state # "blacklist"
                          => \E i \in 1..Len(active) : active[i] = f
    BY <1>3, StoreIInv
  <2>3. \A i \in 1..Len(active) : \E k \in 1..Len(frames) : frames[k] = active[i]
    <3>1. TAKE i \in 1..Len(active)
    <3>2. PICK k \in 1..(Len(frames) - (Len(active) - i)) : frames[k] = active[i]
      BY DEF Embedded
    <3>3. k \in 1..Len(frames)
      BY <1>0, <3>2
    <3> QED BY <3>2, <3>3
  <2>4. \A f \in DllFns : cand'[f].state = "blacklist" /\ cand[f].state # "blacklist"
                            => \E i \in 1..Len(frames) : frames[i] = f
    BY <1>0, <2>2, <2>3
  <2> QED BY <2>1, <2>4 DEF Embedded, Recorded
<1>4. CASE Rescan \/ UNCHANGED vars
  <2>1. UNCHANGED <<active, frames, cand>>
    BY <1>4 DEF Rescan, vars
  <2> QED BY <2>1 DEF Embedded, Recorded
<1> QED BY <1>1, <1>2, <1>3, <1>4 DEF CoreNext

\* The invariant of the dispatch loop by itself.
LEMMA CoreInvariant ==
    CoreSpec => [](IInv /\ Embedded)
<1>1. Init => IInv /\ Embedded
  <2>1. Init => Embedded
    BY DEF Init, Embedded
  <2> QED BY <2>1, InitIInv
<1>2. IInv /\ Embedded /\ [CoreNext]_vars => (IInv /\ Embedded)'
  <2>1. [CoreNext]_vars => [ShardNext]_vars
    BY DEF GuestNext, ShardNext
  <2> QED BY <2>1, StepIInv, CoreStep
<1> QED BY <1>1, <1>2, PTL DEF CoreSpec

\* A DLL function is demoted only for modifying itself: it really was on the
\* host stack when its code was written, also when more activations are nested
\* than s_active_stack can hold.
THEOREM CoreDemotedOnlyIfRunning ==
    CoreSpec => DemotedOnlyIfRunning
<1>1. IInv /\ Embedded /\ [CoreNext]_vars =>
        [\A f \in DllFns : cand'[f].state = "blacklist" /\ cand[f].state # "blacklist"
            => \E i \in 1..Len(frames) : frames[i] = f]_vars
  BY CoreStep
<1> QED BY <1>1, CoreInvariant, PTL DEF CoreSpec, DemotedOnlyIfRunning

\* Self-modifying code is caught: as long as the nesting stays within
\* s_active_stack, everything on the host stack still has the bytes it was
\* compiled from or has been taken out of use.
THEOREM CoreSelfModDemoted ==
    ASSUME Shards = {}, MaxDepth <= StackCap
    PROVE  CoreSpec => []SelfModDemoted
<1>1. Init => Recorded
  BY BoundAssumption DEF Init, Recorded
<1>2. IInv /\ Embedded /\ Recorded /\ [CoreNext]_vars => Recorded'
  BY CoreStep
<1>3. IInv /\ Recorded => SelfModDemoted
  BY DEF IInv, ActiveOK, RunningOK, Recorded, SelfModDemoted
<1> QED BY <1>1, <1>2, <1>3, CoreInvariant, PTL DEF CoreSpec
=============================================================================
