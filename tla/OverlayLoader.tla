--------------------------- MODULE OverlayLoader ---------------------------
(***************************************************************************)
(* The native-overlay dispatcher of the runtime (overlay_loader.c) over    *)
(* the guest RAM whose code it runs, with the page-generation watch of     *)
(* memory.c that tells it when that code may have changed.                 *)
(*                                                                         *)
(* A compiled overlay function may run only while the live guest bytes are *)
(* the bytes it was compiled from.  Hashing them at every dispatch is too  *)
(* slow, so a verdict (VALID / INVALID) is cached together with the sum of *)
(* the generation counters of the pages the code lies in, and is trusted   *)
(* while that sum stands still.                                            *)
(*                                                                         *)
(* Data abstraction.  A Cell is a code byte range that lies in one page; a *)
(* function has two of them (possibly the same one).  A content hash is    *)
(* the content itself: CRC collisions are outside the model.               *)
(***************************************************************************)
EXTENDS Integers, Sequences, FiniteSets

CONSTANTS
    Cells,       \* code ranges of guest RAM
    Values,      \* what a cell may hold
    Pages,       \* 4 KiB pages
    PageOf,      \* [Cells -> Pages]
    Fns,         \* compiled functions, numbered in manifest order (ManFn)
    Entry,       \* [Fns -> Cells]: the cell that holds the entry point
    R1, R2,      \* [Fns -> Cells]: the code ranges of the function
    C1, C2,      \* [Fns -> Values]: the bytes it was compiled from
    Bundles,     \* overlay DLLs of the cache directory
    Bundle,      \* [Fns \ Shards -> Bundles]
    Unloadable,  \* the DLLs LoadLibrary or the ABI gate turns down
    Shards,      \* the functions that are sljit blobs, not DLL exports
    Low,         \* the cells called by an address below 0x10000
    LiveJit,     \* s_sljit_live: shards are compiled on a miss, and diffed
    DiffBudget,  \* OVERLAY_DIFF_BUDGET
    NoFn,        \* no candidate (-1 in the code)
    InitRam,     \* RAM content when the loader is initialised
    InitCache,   \* the DLLs the first scan_cache_dir finds
    InitBlobs,   \* the shards an earlier session left on disk
    CandCap,     \* CAND_CAP
    StackCap,    \* capacity of s_active_stack
    MaxDepth,    \* bound: nesting of native activations explored
    MaxGen       \* bound: a page generation stops growing in the model here

VARIABLES
    ram,         \* [Cells -> Values]
    page_gen,    \* overlay_page_gen
    watched,     \* overlay_watch_bitmap
    cand,        \* s_cand, by function: idx (0 = unregistered), state,
                 \* val_gen and diff_passes
    s_cand_n,    \* candidates registered so far
    s_valid_count,
    indexed,     \* s_cache_idx: the DLLs the last scan found
    loaded,      \* s_loaded_paths
    lazy,        \* s_lazy_man: state and val_gen by function
    pc_cache,    \* s_range_pc_cache
    tried,       \* s_sljit_tried
    requested,   \* shards the compile worker was asked for
    blobs,       \* .sljit files on disk
    blobs_loaded,\* s_loaded_blobs
    cache_dirty, \* s_async_cache_dirty
    active,      \* s_active_stack[0 .. s_active_depth)
    frames,      \* the native activations really on the host stack
    last,        \* the latest dispatch: entry address and the tier that ran it
    touched      \* history: the registered functions whose code was stored to

vars == <<ram, page_gen, watched, cand, s_cand_n, s_valid_count, indexed,
          loaded, lazy, pc_cache, tried, requested, blobs, blobs_loaded,
          cache_dirty, active, frames, last, touched>>

\* What only a dispatch changes, and what only the outside world changes.
tableVars == <<cand, s_cand_n, s_valid_count, watched, loaded, lazy, pc_cache>>
worldVars == <<indexed, tried, requested, blobs, blobs_loaded, cache_dirty>>

DllFns == Fns \ Shards

ASSUME LayoutAssumption ==
    /\ Fns \subseteq Nat \ {0} /\ IsFiniteSet(Fns) /\ NoFn \notin Fns
    /\ Shards \subseteq Fns /\ Low \subseteq Cells
    /\ PageOf \in [Cells -> Pages]
    /\ Entry \in [Fns -> Cells]
    /\ R1 \in [Fns -> Cells] /\ R2 \in [Fns -> Cells]
    /\ C1 \in [Fns -> Values] /\ C2 \in [Fns -> Values]
    /\ Bundle \in [DllFns -> Bundles] /\ Unloadable \subseteq Bundles

ASSUME InitAssumption ==
    /\ InitRam \in [Cells -> Values]
    /\ InitCache \subseteq Bundles /\ InitBlobs \subseteq Shards

ASSUME BoundAssumption ==
    /\ CandCap \in Nat /\ StackCap \in Nat /\ MaxDepth \in Nat
    /\ MaxGen \in Nat /\ DiffBudget \in Nat /\ LiveJit \in BOOLEAN

----------------------------------------------------------------------------
(* The records. *)

EntryState == {"valid", "invalid", "blacklist"}
Candidate == [idx : Nat, state : EntryState \cup {"absent"}, val_gen : Nat,
              diff_passes : Nat]
LazyMan   == [state : {"unknown", "valid", "invalid"}, val_gen : Nat]
Dispatched == [addr : Cells, tier : {"native", "interp", "gated"}]
NoDispatch == [addr |-> NoFn, tier |-> "none"]

Absent    == [idx |-> 0, state |-> "absent", val_gen |-> 0, diff_passes |-> 0]
Unknown   == [state |-> "unknown", val_gen |-> 0]

\* The cells of a function, and cand_crc(c) == c->crc_code.
Code(f) == {R1[f], R2[f]}
Matches(f) == ram[R1[f]] = C1[f] /\ ram[R2[f]] = C2[f]

\* Mutant of GenSum: only the first code range is watched.
GenSumFirstRange(f) == page_gen[PageOf[R1[f]]]

\* cand_gensum: the generations of the pages of the ranges, summed.
GenSum(f) == page_gen[PageOf[R1[f]]]
             + (IF R2[f] = R1[f] THEN 0 ELSE page_gen[PageOf[R2[f]]])

CodePages(f) == {PageOf[R1[f]], PageOf[R2[f]]}

Registered(c, f) == c[f].idx > 0

\* Mutant of Live: the walk does not skip blacklisted candidates.
LiveOrBlacklisted(c, f) == Registered(c, f)

Live(c, f) == Registered(c, f) /\ c[f].state # "blacklist"

\* Mutant of Less: whoever leaves VALID is not counted down.
LessNot(n, k) == n

\* `if (s_valid_count > 0) s_valid_count--;`, k times.
Less(n, k) == IF n > k THEN n - k ELSE 0

----------------------------------------------------------------------------
(* Validation of one candidate.  A verdict is trusted while the generation *)
(* sum stands still; otherwise the bytes are hashed and the sum recorded.  *)

Fresh(v, f) == v.val_gen = GenSum(f)

\* Mutant of Accepts: an INVALID candidate is never hashed again.
AcceptsOnce(c, f) ==
    IF Fresh(c[f], f) \/ c[f].state = "invalid" THEN c[f].state = "valid" ELSE Matches(f)

\* Mutant of Accepts: a verdict VALID is trusted whatever the generations say.
AcceptsStale(c, f) ==
    IF Fresh(c[f], f) \/ c[f].state = "valid" THEN c[f].state = "valid" ELSE Matches(f)

\* What the walk decides about a candidate it visits.
Accepts(c, f) == IF Fresh(c[f], f) THEN c[f].state = "valid" ELSE Matches(f)

Revalidate(c, f) ==
    IF Fresh(c[f], f) THEN c[f]
    ELSE [c[f] EXCEPT !.state = IF Matches(f) THEN "valid" ELSE "invalid",
                      !.val_gen = GenSum(f)]

RevalidateAll(c, V) == [f \in Fns |-> IF f \in V THEN Revalidate(c, f) ELSE c[f]]

\* Mutant of CountAfter: a revalidation is not counted.
CountAfterDownOnly(n, c, V) ==
    Less(n, Cardinality({f \in V : c[f].state = "valid" /\ Revalidate(c, f).state # "valid"}))

\* The change to s_valid_count when the candidates of V are revalidated: the
\* ones turned down come first, the one that is run, if any, last.
CountAfter(n, c, V) ==
    LET up   == {f \in V : c[f].state # "valid" /\ Revalidate(c, f).state = "valid"}
        down == {f \in V : c[f].state = "valid" /\ Revalidate(c, f).state # "valid"}
    IN  Less(n, Cardinality(down)) + Cardinality(up)

----------------------------------------------------------------------------
(* The loader tables as one record, so that the phases of a dispatch can be *)
(* composed, and what a phase returns: the tables and the function to run.  *)

Tables == [cand |-> cand, n |-> s_cand_n, count |-> s_valid_count,
           watched |-> watched, loaded |-> loaded, lazy |-> lazy,
           pc_cache |-> pc_cache]

Visited(T, V) == [T EXCEPT !.cand = RevalidateAll(T.cand, V),
                           !.count = CountAfter(T.count, T.cand, V)]

\* idx_head(phys) >= 0, and the chain it heads: newest registration first.
Chain(T, a) == {f \in Fns : Registered(T.cand, f) /\ Entry[f] = a}

Newest(T, F) == {f \in F : \A g \in F : T.cand[g].idx <= T.cand[f].idx}
Oldest(T, F) == {f \in F : \A g \in F : T.cand[f].idx <= T.cand[g].idx}
Pick(F) == IF F = {} THEN NoFn ELSE CHOOSE f \in F : TRUE

\* The candidate loop: run the newest accepted one; the ones in front of it
\* were visited and turned down.
ChainWalk(T, a) ==
    LET live == {f \in Chain(T, a) : Live(T.cand, f)}
        hits == {f \in live : Accepts(T.cand, f)}
        run  == Pick(Newest(T, hits))
        seen == IF run = NoFn THEN live
                ELSE {f \in live : T.cand[f].idx >= T.cand[run].idx}
    IN  [tables |-> Visited(T, seen), run |-> run]

\* overlay_find_by_range: the owner of a continuation inside a function, the
\* cached owner first, then the candidates of the page, oldest first.
RangeWalk(T, a) ==
    LET live   == {f \in Fns : Live(T.cand, f) /\ a \in Code(f)}
        cached == {f \in live : f = T.pc_cache[a]}
        hit    == {f \in cached : Accepts(T.cand, f)}
        hits   == {f \in live : Accepts(T.cand, f)}
        run    == IF hit # {} THEN T.pc_cache[a]
                  ELSE Pick(Oldest(T, hits))
        seen   == IF hit # {} THEN hit
                  ELSE IF run = NoFn THEN live
                  ELSE cached \cup {f \in live : T.cand[f].idx <= T.cand[run].idx}
    IN  [tables |-> [Visited(T, seen) EXCEPT
                        !.pc_cache = IF run = NoFn THEN @ ELSE [@ EXCEPT ![a] = run]],
         run |-> run]

\* The lookup of overlay_loader_dispatch in continuation-passing builds.
Lookup(T, a) == IF Chain(T, a) # {} THEN ChainWalk(T, a) ELSE RangeWalk(T, a)

----------------------------------------------------------------------------
(* Registration.  Functions get consecutive candidate numbers until the     *)
(* table is full; the pages of a registered function are watched from then  *)
(* on.  A DLL export starts with the verdict of its hash, a shard starts    *)
(* VALID whatever RAM holds.                                                *)

NewIdx(T, F, f) == T.n + Cardinality({g \in F : g <= f})

Admitted(T, F) == {f \in F : NewIdx(T, F, f) <= CandCap}

FirstVerdict(f) == IF f \in Shards \/ Matches(f) THEN "valid" ELSE "invalid"

NewCandidate(T, F, f) == [idx |-> NewIdx(T, F, f), state |-> FirstVerdict(f),
                          val_gen |-> GenSum(f), diff_passes |-> 0]

\* The shards a valid DLL function at the same entry makes obsolete.
Obsoleted(T, A) ==
    {o \in Shards : /\ Live(T.cand, o) /\ Matches(o)
                    /\ \E f \in A \ Shards : Entry[f] = Entry[o] /\ Matches(f)}

\* cand_register / register_sljit_candidate for every function of F.
Register(T, F) ==
    LET A    == Admitted(T, F)
        obs  == Obsoleted(T, A)
        up   == {f \in A : FirstVerdict(f) = "valid"}
        down == {o \in obs : T.cand[o].state = "valid"}
    IN  [T EXCEPT
           !.cand = [f \in Fns |-> IF f \in A THEN NewCandidate(T, F, f)
                                   ELSE IF f \in obs
                                        THEN [T.cand[f] EXCEPT !.state = "blacklist"]
                                        ELSE T.cand[f]],
           !.n = @ + Cardinality(A),
           !.count = Less(@ + Cardinality(up), Cardinality(down)),
           !.watched = @ \cup UNION {CodePages(f) : f \in A}]

----------------------------------------------------------------------------
(* The lazy manifest index and try_load_region.                             *)

\* lazy_man_matches: the answer, and the verdict it leaves behind.
LazyAccepts(l, f) ==
    IF l[f].state # "unknown" /\ Fresh(l[f], f) THEN l[f].state = "valid"
    ELSE Matches(f)

LazyVerdict(l, f) ==
    [state |-> IF LazyAccepts(l, f) THEN "valid" ELSE "invalid",
     val_gen |-> GenSum(f)]

\* The functions of a DLL, and the ones lazy_bundle_matches gets to see: it
\* walks the manifest from its end and stops at the first mismatch.
FnsOf(b) == {f \in DllFns : Bundle[f] = b}
BundleAccepts(l, b) == \A f \in FnsOf(b) : LazyAccepts(l, f)
BundleSeen(l, b) ==
    {f \in FnsOf(b) : \A g \in FnsOf(b) : g > f => LazyAccepts(l, g)}

Loadable(T, f) == Bundle[f] \in indexed /\ Bundle[f] \notin T.loaded

\* The manifests try_load_region asks: those whose entry is a and, when none
\* of them matches live RAM, those with a code range that holds a.
ExactAsked(T, a) == {f \in DllFns : Loadable(T, f) /\ Entry[f] = a}
RangeAsked(T, a) ==
    {f \in DllFns : Loadable(T, f) /\ Entry[f] # a /\ a \in Code(f)}

ExactHits(T, a) == {f \in ExactAsked(T, a) : LazyAccepts(T.lazy, f)}
Asked(T, a) ==
    ExactAsked(T, a) \cup (IF ExactHits(T, a) = {} THEN RangeAsked(T, a) ELSE {})
Found(T, a) == {f \in Asked(T, a) : LazyAccepts(T.lazy, f)}

\* The order the manifests are met in: the entry chain is newest first, the
\* range scan goes through the index.
MetBefore(T, a, f, g) == IF ExactHits(T, a) # {} THEN f > g ELSE f < g

FirstFound(T, a) == {f \in Found(T, a) : \A g \in Found(T, a) \ {f} : MetBefore(T, a, f, g)}

\* The broadest DLL all of whose functions are live, ties to the first one met.
Broadest(T, a) ==
    LET coherent == {f \in Found(T, a) : BundleAccepts(T.lazy, Bundle[f])}
        size(f) == Cardinality(FnsOf(Bundle[f]))
    IN  {f \in coherent : \A g \in coherent \ {f} :
            size(g) < size(f) \/ (size(g) = size(f) /\ MetBefore(T, a, f, g))}

\* The function whose DLL is loaded, if any: the broadest one, and when
\* LoadLibrary turns that down the first one found.
Selected(T, a) ==
    LET good(F) == {f \in F : Bundle[f] \notin Unloadable}
    IN  IF good(Broadest(T, a)) # {} THEN good(Broadest(T, a)) ELSE good(FirstFound(T, a))

\* The manifests hashed on the way keep their verdicts.
Consulted(T, a) ==
    Asked(T, a) \cup UNION {BundleSeen(T.lazy, Bundle[f]) : f \in Found(T, a)}

Told(T, S) ==
    [T EXCEPT !.lazy = [f \in DllFns |-> IF f \in S THEN LazyVerdict(T.lazy, f)
                                         ELSE T.lazy[f]]]

TryLoad(T, a) ==
    LET dlls == {Bundle[f] : f \in Selected(T, a)}
        told == Told(T, Consulted(T, a))
    IN  [ok |-> dlls # {},
         tables |-> IF dlls = {} THEN told
                    ELSE [Register(told, UNION {FnsOf(b) : b \in dlls})
                            EXCEPT !.loaded = @ \cup dlls]]

----------------------------------------------------------------------------
(* Actions of the guest and of the runtime thread it runs on.               *)

SetTables(T) ==
    /\ cand' = T.cand /\ s_cand_n' = T.n /\ s_valid_count' = T.count
    /\ watched' = T.watched /\ loaded' = T.loaded /\ lazy' = T.lazy
    /\ pc_cache' = T.pc_cache

\* s_active_stack: an activation beyond its capacity is not recorded, but its
\* end pops all the same.
Push(s, f) == IF Len(s) < StackCap THEN Append(s, f) ELSE s
Pop(s) == IF s = <<>> THEN s ELSE SubSeq(s, 1, Len(s) - 1)

\* scan_sljit_cache_dir on a miss after the worker flagged the cache: the files
\* that are not on the loaded list, those apart that cannot be opened, read or
\* deserialized at that moment.
MissRescan(a) == cache_dirty /\ Chain(Tables, a) = {}
Readable(a) == IF MissRescan(a) THEN SUBSET (blobs \ blobs_loaded) ELSE {{}}

\* What a dispatch to a does to the tables after the rescan took in the shards
\* of got, and the function it runs: look up, and if nothing is accepted load at
\* most one DLL and look up once more.
Outcome(a, got) ==
    LET first == Lookup(Register(Tables, got), a)
        load  == TryLoad(first.tables, a)
    IN  IF first.run # NoFn THEN first
        ELSE IF load.ok THEN Lookup(load.tables, a)
        ELSE [tables |-> load.tables, run |-> NoFn]

\* A shard of a live JIT, entered by an address outside the kernel window,
\* runs for real only after DiffBudget clean differential runs in a row.  Every
\* other candidate is trusted.
Gated(f, a, passes) == f \in Shards /\ LiveJit /\ a \notin Low /\ passes < DiffBudget

\* run_shadow_diff: the interpreter's result is kept, and a clean comparison
\* counts.  It compares the one path that was executed: a shard compiled from
\* other bytes may come out clean, and one compiled from the live bytes may
\* diverge (the emitter is not trusted).  By range, or inside an exception, the
\* candidate is interpreted without a comparison.
Diffed(c, f) == {[c EXCEPT ![f].diff_passes = n] : n \in {0, c[f].diff_passes + 1}}

GatedRun(T, a, f) ==
    /\ \E c \in {T.cand} \cup (IF Chain(T, a) = {} THEN {} ELSE Diffed(T.cand, f)) :
          SetTables([T EXCEPT !.cand = c])
    /\ last' = [addr |-> a, tier |-> "gated"]
    /\ UNCHANGED <<active, frames>>

NativeRun(T, a, f) ==
    /\ SetTables(T)
    /\ last' = [addr |-> a, tier |-> "native"]
    /\ active' = Push(active, f)
    /\ frames' = Append(frames, f)

Interpreted(T, a) ==
    /\ SetTables(T)
    /\ last' = [addr |-> a, tier |-> "interp"]
    /\ UNCHANGED <<active, frames>>

\* The miss path asks the compile worker, once per entry address.
Request(T, a) ==
    IF LiveJit /\ Chain(T, a) = {} /\ a \notin tried
    THEN /\ tried' = tried \cup {a}
         /\ requested' = requested \cup {f \in Shards : Entry[f] = a /\ Matches(f)}
    ELSE UNCHANGED <<tried, requested>>

\* overlay_loader_dispatch, up to the call of the native function.
Dispatch(a) ==
    \E got \in Readable(a) :
        LET out == Outcome(a, got)
        IN  /\ Len(frames) < MaxDepth
            /\ IF out.run = NoFn THEN Interpreted(out.tables, a)
               ELSE IF Gated(out.run, a, out.tables.cand[out.run].diff_passes)
               THEN GatedRun(out.tables, a, out.run)
               ELSE NativeRun(out.tables, a, out.run)
            /\ Request(out.tables, a)
            /\ cache_dirty' = (cache_dirty /\ ~ MissRescan(a))
            /\ blobs_loaded' = blobs_loaded \cup got
            /\ UNCHANGED <<ram, page_gen, indexed, blobs, touched>>

\* The native function returns to the dispatcher.
Return ==
    /\ frames # <<>>
    /\ frames' = SubSeq(frames, 1, Len(frames) - 1)
    /\ active' = Pop(active)
    /\ last' = NoDispatch
    /\ UNCHANGED <<ram, page_gen, touched, tableVars, worldVars>>

\* Mutants of Demoted: only the innermost activation is looked at; every
\* candidate is, whether active or not.
DemotedTop(x) == {f \in Fns : /\ x \in Code(f) /\ cand[f].state # "blacklist"
                              /\ active # <<>> /\ active[Len(active)] = f}
DemotedAny(x) == {f \in Fns : x \in Code(f) /\ Live(cand, f)}

\* overlay_loader_active_write_check: the recorded activations whose code
\* covers the stored cell are demoted for good.
Demoted(x) == {f \in Fns : /\ x \in Code(f) /\ cand[f].state # "blacklist"
                           /\ \E i \in 1..Len(active) : active[i] = f}

\* A CPU or DMA store (psx_write_* with overlay_watch_note_write).
Store(x, v) ==
    LET p == PageOf[x]
        hit == p \in watched
        dem == IF hit THEN Demoted(x) ELSE {}
    IN  /\ hit => page_gen[p] < MaxGen
        /\ ram' = [ram EXCEPT ![x] = v]
        /\ page_gen' = IF hit THEN [page_gen EXCEPT ![p] = @ + 1] ELSE page_gen
        /\ cand' = [f \in Fns |-> IF f \in dem THEN [cand[f] EXCEPT !.state = "blacklist"]
                                  ELSE cand[f]]
        /\ s_valid_count' = Less(s_valid_count, Cardinality(dem))
        /\ last' = NoDispatch
        /\ touched' = touched \cup {f \in Fns : Registered(cand, f) /\ x \in Code(f)}
        /\ UNCHANGED <<watched, s_cand_n, loaded, lazy, pc_cache, active,
                       frames, worldVars>>

\* overlay_loader_rescan after a background compile: the DLLs on disk are
\* indexed anew and every manifest verdict is forgotten.
Rescan ==
    /\ \E found \in SUBSET Bundles : indexed \subseteq found /\ indexed' = found
    /\ lazy' = [f \in DllFns |-> Unknown]
    /\ last' = NoDispatch
    /\ UNCHANGED <<ram, page_gen, watched, cand, s_cand_n, s_valid_count, loaded,
                   pc_cache, tried, requested, blobs, blobs_loaded, cache_dirty,
                   active, frames, touched>>

----------------------------------------------------------------------------
(* Actions from outside the dispatch loop.                                  *)

\* The compile worker publishes a shard (overlay_loader_async_publish).
Publish(f) ==
    /\ f \in requested
    /\ requested' = requested \ {f}
    /\ blobs' = blobs \cup {f}
    /\ cache_dirty' = TRUE
    /\ last' = NoDispatch
    /\ UNCHANGED <<ram, page_gen, active, frames, tableVars, indexed,
                   tried, blobs_loaded, touched>>

\* A longjmp to the scheduler or to the exception frame drops the native
\* activations above its target; s_active_depth is left alone.
Unwind(k) ==
    /\ k < Len(frames)
    /\ frames' = SubSeq(frames, 1, k)
    /\ last' = NoDispatch
    /\ UNCHANGED <<ram, page_gen, active, touched, tableVars, worldVars>>

\* A save state is loaded: RAM is copied wholesale, past the store hook, and
\* psx_scheduler_resume_at drops every activation.
Restore(image) ==
    /\ ram' = image
    /\ frames' = <<>>
    /\ last' = NoDispatch
    /\ UNCHANGED <<page_gen, active, touched, tableVars, worldVars>>

\* The tables at overlay_loader_init, before the shards on disk are reloaded.
EmptyTables ==
    [cand |-> [f \in Fns |-> Absent], n |-> 0, count |-> 0, watched |-> {},
     loaded |-> {}, lazy |-> [f \in DllFns |-> Unknown],
     pc_cache |-> [a \in Cells |-> NoFn]]

Init ==
    \E got \in SUBSET InitBlobs :
        LET T == Register(EmptyTables, got)
        IN  /\ ram = InitRam
            /\ page_gen = [p \in Pages |-> 0]
            /\ cand = T.cand /\ s_cand_n = T.n /\ s_valid_count = T.count
            /\ watched = T.watched /\ loaded = T.loaded /\ lazy = T.lazy
            /\ pc_cache = T.pc_cache
            /\ indexed = InitCache
            /\ tried = {} /\ requested = {}
            /\ blobs = InitBlobs /\ blobs_loaded = got /\ cache_dirty = FALSE
            /\ active = <<>> /\ frames = <<>>
            /\ last = NoDispatch /\ touched = {}

\* The dispatch loop by itself, and with the unwinding the runtime does.
CoreNext ==
    \/ \E a \in Cells : Dispatch(a)
    \/ Return
    \/ \E x \in Cells, v \in Values : Store(x, v)
    \/ Rescan

GuestNext == CoreNext \/ \E k \in 0..MaxDepth : Unwind(k)

\* With the compile worker and its shards; with save states.
ShardNext == GuestNext \/ \E f \in Shards : Publish(f)
RestoreNext == GuestNext \/ \E image \in [Cells -> Values] : Restore(image)

CoreSpec    == Init /\ [][CoreNext]_vars
GuestSpec   == Init /\ [][GuestNext]_vars
ShardSpec   == Init /\ [][ShardNext]_vars
RestoreSpec == Init /\ [][RestoreNext]_vars

----------------------------------------------------------------------------
(* Properties.                                                              *)

\* Type correctness of the loader's tables.
TypeOK ==
    /\ ram \in [Cells -> Values]
    /\ page_gen \in [Pages -> Nat]
    /\ watched \subseteq Pages
    /\ cand \in [Fns -> Candidate]
    /\ s_cand_n \in Nat /\ s_valid_count \in Nat
    /\ indexed \subseteq Bundles /\ loaded \subseteq Bundles
    /\ lazy \in [DllFns -> LazyMan]
    /\ pc_cache \in [Cells -> Fns \cup {NoFn}]
    /\ tried \subseteq Cells /\ requested \subseteq Shards
    /\ blobs \subseteq Shards /\ blobs_loaded \subseteq blobs
    /\ cache_dirty \in BOOLEAN
    /\ active \in Seq(Fns) /\ frames \in Seq(Fns)
    /\ last \in Dispatched \cup {NoDispatch}
    /\ touched \subseteq Fns

\* Native code never runs over other bytes: an activation starts only when
\* live RAM holds exactly the code the function was compiled from, although
\* overlay_loader_dispatch mostly decides from cached verdicts.
NativeRunsLiveCode ==
    [][Len(frames') > Len(frames) => Matches(frames'[Len(frames')])]_vars

\* Once the guest has stored to the code of a registered function, the function
\* is not entered before its bytes were hashed and found right: the only native
\* code that ever runs over other bytes is a shard whose code nobody stored to
\* since register_sljit_candidate made it VALID without a hash.
StoredCodeIsHashed ==
    [][Len(frames') > Len(frames) =>
         LET f == frames'[Len(frames')]
         IN  Matches(f) \/ (f \in Shards /\ f \notin touched)]_vars

\* Reload on return: a dispatch falls to the interpreter only if no candidate
\* registered at that entry, self-modifying ones apart, matches live RAM; a
\* verdict INVALID never outlives the bytes it was about.
ReloadOnReturn ==
    [][last'.tier = "interp" =>
         ~ \E f \in Fns : Live(cand', f) /\ Entry[f] = last'.addr /\ Matches(f)]_vars

\* A native activation whose own code was overwritten while it ran has been
\* demoted (overlay_loader_active_write_check): everything on the host stack
\* either still matches live RAM or will never be entered again.
SelfModDemoted ==
    \A i \in 1..Len(frames) :
        Matches(frames[i]) \/ cand[frames[i]].state = "blacklist"

\* A DLL function is demoted for good only for modifying itself: it was on
\* the host stack when its code was written.
DemotedOnlyIfRunning ==
    [][\A f \in DllFns :
         cand'[f].state = "blacklist" /\ cand[f].state # "blacklist"
            => \E i \in 1..Len(frames) : frames[i] = f]_vars

\* s_valid_count, which the autocapture reads to tell whether a compile was
\* futile, counts the candidates whose state is VALID.
ValidCountExact ==
    s_valid_count = Cardinality({f \in Fns : cand[f].state = "valid"})

\* With shards the count may be too small, never too large: it cannot hold the
\* autocapture's futility test off by counting candidates that are not VALID.
\* (A shard that runs over other bytes can be found INVALID while it is still
\* on s_active_stack, and its demotion then counts it down a second time.)
ValidCountNotAbove ==
    s_valid_count <= Cardinality({f \in Fns : cand[f].state = "valid"})

\* Demotion is permanent: a candidate taken out of use, for modifying itself
\* or because a DLL function replaced the shard, is never entered again.
DemotionPermanent ==
    [][\A f \in Fns : cand[f].state = "blacklist" =>
         /\ cand'[f].state = "blacklist"
         /\ Len(frames') > Len(frames) => frames'[Len(frames')] # f]_vars

=============================================================================
