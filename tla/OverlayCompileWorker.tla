------------------------ MODULE OverlayCompileWorker ------------------------
(***************************************************************************)
(* The off-thread JIT (overlay_compile_worker.c) and the file hand-off that *)
(* brings its shards to the dispatch thread (overlay_loader_async_publish,  *)
(* async_cache_dirty_exchange, scan_sljit_cache_dir of overlay_loader.c).   *)
(*                                                                         *)
(* Two threads share a bounded queue and a bounded dedup map under s_mtx,   *)
(* a condition variable, the cache directory and one atomic flag.  What is  *)
(* done under one hold of s_mtx is one step.                                *)
(*                                                                         *)
(* A Key is a (phys, crc) pair; its snapshot is the region content itself,  *)
(* copied at enqueue, so a work item is its key.  A shard file is named by  *)
(* the entry and the hash of the compiled range, so two keys that differ    *)
(* only behind the compiled code give the same file.                        *)
(***************************************************************************)
EXTENDS Integers, Sequences, FiniteSets

CONSTANTS
    Keys,        \* (phys, crc) of the regions the dispatcher may send
    NoKey,       \* no item in the worker's hands
    Blobs,       \* .sljit file names
    BlobOf,      \* [Keys -> Blobs]
    QueueCap,    \* WQ_CAP
    StateCap,    \* STATE_CAP
    LoadedCap,   \* MAX_LOADED_BLOBS
    MaxEnq       \* bound: requests accepted in the model

ASSUME KeysAssumption == NoKey \notin Keys /\ BlobOf \in [Keys -> Blobs]
ASSUME CapAssumption ==
    /\ QueueCap \in Nat \ {0} /\ StateCap \in Nat \ {0}
    /\ LoadedCap \in Nat /\ MaxEnq \in Nat

VARIABLES
    s_q,         \* the work queue, oldest first
    s_state,     \* the dedup map: an array of [key, st]
    s_running,
    s_thread,    \* s_thread # NULL
    worker,      \* where worker_main is
    it, ok,      \* its locals: the popped item and its result
    s_enq, s_done, s_failed,
    main,        \* where the dispatch thread is
    dirty,       \* s_async_cache_dirty
    blobs,       \* files of the cache directory
    listed,      \* the files there when the directory listing was opened
    loaded,      \* s_loaded_blobs
    examined     \* history: the files a scan met since they were last put in place

queueVars  == <<s_q, s_state, s_enq, s_done, s_failed>>
workerVars == <<worker, it, ok>>
cacheVars  == <<dirty, blobs, listed, loaded, examined>>
vars == <<queueVars, workerVars, cacheVars, s_running, s_thread, main>>

States   == {"queued", "compiling", "done", "failed"}
Finished == {"done", "failed"}
StateEnt == [key : Keys, st : States]

----------------------------------------------------------------------------
(* The dedup map. *)

First(I) == CHOOSE i \in I : \A j \in I : i <= j

\* state_find: the places of a key (the code takes the first).
Places(s, k) == {i \in DOMAIN s : s[i].key = k}
Known(s, k) == Places(s, k) # {}

SetState(s, k, st) ==
    IF Known(s, k) THEN [s EXCEPT ![First(Places(s, k))].st = st] ELSE s

\* Mutant of Evictable: any entry may be evicted.
EvictableAny(s) == DOMAIN s

Evictable(s) == {i \in DOMAIN s : s[i].st \in Finished}

\* s_state[i] = s_state[--s_state_n]
Drop(s, i) == [j \in 1..(Len(s) - 1) |-> IF j = i THEN s[Len(s)] ELSE s[j]]

\* What state_add appends to: the first finished entry makes room when full.
Room(s) == IF Len(s) >= StateCap /\ Evictable(s) # {} THEN Drop(s, First(Evictable(s))) ELSE s

----------------------------------------------------------------------------
(* The dispatch thread. *)

\* Mutant of Signalled: the condition variable is not signalled.
NeverSignalled == worker

\* SDL_CondSignal(s_cv): a waiting worker will run again.
Signalled == IF worker = "waiting" THEN "woken" ELSE worker

\* Mutant of Acceptable: the dedup map is not asked.
AcceptableAlways(k) == Len(s_q) < QueueCap /\ Len(Room(s_state)) < StateCap

\* overlay_compile_worker_enqueue drops a request silently when its key is
\* known, the queue is full, or every entry of the map is in flight.
Acceptable(k) == /\ ~ Known(s_state, k)
                 /\ Len(s_q) < QueueCap
                 /\ Len(Room(s_state)) < StateCap

overlay_compile_worker_enqueue(k) ==
    /\ main = "run" /\ s_thread
    /\ s_enq < MaxEnq
    /\ Acceptable(k)
    /\ s_state' = Append(Room(s_state), [key |-> k, st |-> "queued"])
    /\ s_q' = Append(s_q, k)
    /\ s_enq' = s_enq + 1
    /\ worker' = Signalled
    /\ UNCHANGED <<s_done, s_failed, it, ok, cacheVars, s_running, s_thread, main>>

\* SDL_CreateThread may fail.
overlay_compile_worker_start ==
    /\ main = "run" /\ ~ s_thread
    /\ \E created \in BOOLEAN :
          /\ s_running' = created /\ s_thread' = created
          /\ worker' = IF created THEN "woken" ELSE worker
    /\ UNCHANGED <<queueVars, it, ok, cacheVars, main>>

\* overlay_compile_worker_stop, up to SDL_WaitThread ...
StopSignal ==
    /\ main = "run" /\ s_thread
    /\ s_running' = FALSE
    /\ worker' = Signalled
    /\ main' = "joining"
    /\ UNCHANGED <<queueVars, it, ok, cacheVars, s_thread>>

\* ... and from its return on: what is still queued is thrown away.
StopJoin ==
    /\ main = "joining" /\ worker = "exited"
    /\ s_thread' = FALSE
    /\ s_q' = <<>>
    /\ worker' = "off"
    /\ main' = "run"
    /\ UNCHANGED <<s_state, s_enq, s_done, s_failed, it, ok, cacheVars, s_running>>

\* A dispatch miss takes the flag and opens the directory listing.
MissRescan ==
    /\ main = "run" /\ dirty
    /\ dirty' = FALSE
    /\ listed' = blobs
    /\ main' = "scanning"
    /\ UNCHANGED <<queueVars, workerVars, blobs, loaded, examined, s_running, s_thread>>

\* The names blob_mark_loaded remembers of the files a scan took in: all of
\* them, until s_loaded_blobs is full.
Marked(taken) ==
    {loaded \cup kept : kept \in {K \in SUBSET taken :
        /\ Cardinality(loaded \cup K) <= LoadedCap
        /\ K # taken => Cardinality(loaded \cup K) = LoadedCap}}

\* Mutant of Scan: the flag is cleared again when the scan is done.
ScanClears ==
    /\ main = "scanning"
    /\ \E seen \in SUBSET blobs :
          /\ listed \subseteq seen
          /\ examined' = examined \cup seen
          /\ \E taken \in SUBSET (seen \ loaded) : loaded' \in Marked(taken)
    /\ listed' = {}
    /\ main' = "run"
    /\ dirty' = FALSE
    /\ UNCHANGED <<queueVars, workerVars, blobs, s_running, s_thread>>

\* scan_sljit_cache_dir: a listing returns the files that were there when it
\* was opened and any of the later ones.  A file that is not on the loaded list
\* is taken in, or skipped because it cannot be opened, its header is refused,
\* memory is short, it is too short or it does not deserialize: then it stays
\* off the list.  Whether s_cand has room for one that is taken in is not seen
\* here: register_sljit_candidate drops it silently and it is marked all the same.
Scan ==
    /\ main = "scanning"
    /\ \E seen \in SUBSET blobs :
          /\ listed \subseteq seen
          /\ examined' = examined \cup seen
          /\ \E taken \in SUBSET (seen \ loaded) : loaded' \in Marked(taken)
    /\ listed' = {}
    /\ main' = "run"
    /\ UNCHANGED <<queueVars, workerVars, dirty, blobs, s_running, s_thread>>

----------------------------------------------------------------------------
(* worker_main. *)

\* Mutant of LoopHead: a stopped worker leaves at once.
LoopHeadQuits(s) ==
    /\ s_state' = IF s_running /\ s_q # <<>> THEN SetState(s, Head(s_q), "compiling") ELSE s
    /\ worker' = IF ~ s_running THEN "exited" ELSE IF s_q = <<>> THEN "waiting" ELSE "compiling"
    /\ it' = IF s_running /\ s_q # <<>> THEN Head(s_q) ELSE NoKey
    /\ s_q' = IF s_running /\ s_q # <<>> THEN Tail(s_q) ELSE s_q

\* The head of the loop, under s_mtx, with the dedup map as s: sleep on an
\* empty queue, leave if also stopped, otherwise pop.
LoopHead(s) ==
    IF s_q = <<>>
    THEN /\ worker' = IF s_running THEN "waiting" ELSE "exited"
         /\ it' = NoKey
         /\ s_state' = s
         /\ s_q' = s_q
    ELSE /\ worker' = "compiling"
         /\ it' = Head(s_q)
         /\ s_state' = SetState(s, Head(s_q), "compiling")
         /\ s_q' = Tail(s_q)

\* SDL_CondWait may return without a signal.
SpuriousWake ==
    /\ worker = "waiting"
    /\ worker' = "woken"
    /\ UNCHANGED <<queueVars, it, ok, cacheVars, s_running, s_thread, main>>

Awake ==
    /\ worker = "woken"
    /\ LoopHead(s_state)
    /\ ok' = FALSE
    /\ UNCHANGED <<s_enq, s_done, s_failed, cacheVars, s_running, s_thread, main>>

\* compile_fragment declines.
Decline ==
    /\ worker = "compiling"
    /\ worker' = "judged" /\ ok' = FALSE
    /\ UNCHANGED <<queueVars, it, cacheVars, s_running, s_thread, main>>

\* It delivers a fragment and the file is moved into place ...
Rename ==
    /\ worker = "compiling"
    /\ worker' = "renamed" /\ ok' = TRUE
    /\ blobs' = blobs \cup {BlobOf[it]}
    /\ examined' = examined \ {BlobOf[it]}
    /\ UNCHANGED <<queueVars, it, dirty, listed, loaded, s_running, s_thread, main>>

\* ... or it cannot be opened, written or moved, which is not reported.
PublishFails ==
    /\ worker = "compiling"
    /\ worker' = "judged" /\ ok' = TRUE
    /\ UNCHANGED <<queueVars, it, cacheVars, s_running, s_thread, main>>

\* async_cache_dirty_exchange(1)
Flag ==
    /\ worker = "renamed"
    /\ worker' = "judged"
    /\ dirty' = TRUE
    /\ UNCHANGED <<queueVars, it, ok, blobs, listed, loaded, examined, s_running, s_thread, main>>

\* The result is recorded and, without releasing s_mtx, the loop goes on.
Record ==
    /\ worker = "judged"
    /\ LoopHead(SetState(s_state, it, IF ok THEN "done" ELSE "failed"))
    /\ s_done' = IF ok THEN s_done + 1 ELSE s_done
    /\ s_failed' = IF ok THEN s_failed ELSE s_failed + 1
    /\ ok' = FALSE
    /\ UNCHANGED <<s_enq, cacheVars, s_running, s_thread, main>>

Init ==
    /\ s_q = <<>> /\ s_state = <<>>
    /\ s_running = FALSE /\ s_thread = FALSE
    /\ worker = "off" /\ it = NoKey /\ ok = FALSE
    /\ s_enq = 0 /\ s_done = 0 /\ s_failed = 0
    /\ main = "run"
    /\ dirty = FALSE /\ blobs = {} /\ listed = {} /\ loaded = {}
    /\ examined = {}

Compile == Decline \/ Rename \/ PublishFails

Next ==
    \/ \E k \in Keys : overlay_compile_worker_enqueue(k)
    \/ overlay_compile_worker_start \/ StopSignal \/ StopJoin
    \/ MissRescan \/ Scan
    \/ SpuriousWake \/ Awake \/ Decline \/ Rename \/ PublishFails \/ Flag \/ Record

\* The worker thread is scheduled, the emitter terminates, a join returns.
Fairness == WF_vars(Awake) /\ WF_vars(Compile) /\ WF_vars(Flag) /\ WF_vars(Record)
            /\ WF_vars(StopJoin)

Spec == Init /\ [][Next]_vars
LiveSpec == Spec /\ Fairness

----------------------------------------------------------------------------
(* Properties. *)

TypeOK ==
    /\ s_q \in Seq(Keys) /\ s_state \in Seq(StateEnt)
    /\ s_running \in BOOLEAN /\ s_thread \in BOOLEAN
    /\ worker \in {"off", "waiting", "woken", "compiling", "renamed", "judged", "exited"}
    /\ it \in Keys \cup {NoKey} /\ ok \in BOOLEAN
    /\ s_enq \in Nat /\ s_done \in Nat /\ s_failed \in Nat
    /\ main \in {"run", "joining", "scanning"}
    /\ dirty \in BOOLEAN
    /\ blobs \subseteq Blobs /\ listed \subseteq blobs /\ loaded \subseteq blobs
    /\ examined \subseteq blobs

\* The keys in a state of the dedup map.
InState(st) == {s_state[i].key : i \in {j \in DOMAIN s_state : s_state[j].st = st}}

Busy == worker \in {"compiling", "renamed", "judged"}
Items == {s_q[i] : i \in DOMAIN s_q}

\* Eviction never loses track of work in flight: whatever is queued or being
\* compiled has exactly one entry in the dedup map, in the matching state, so
\* no region is ever compiled twice at the same time (state_add's claim that
\* COMPILING/QUEUED entries are never evicted, and state_find's dedup).
InFlightTracked ==
    /\ \A i, j \in DOMAIN s_state : s_state[i].key = s_state[j].key => i = j
    /\ \A i, j \in DOMAIN s_q : s_q[i] = s_q[j] => i = j
    /\ InState("queued") = Items
    /\ InState("compiling") = (IF Busy THEN {it} ELSE {})

\* The statistics the debug server shows add up at every moment: a request
\* that was accepted is queued, in the worker's hands, or counted as done or
\* failed, across any number of stops and restarts.
CountsBalance == s_enq = s_done + s_failed + Len(s_q) + (IF Busy THEN 1 ELSE 0)

\* overlay_compile_worker_stop joins a worker that has emptied the queue, so
\* nothing accepted is ever thrown away by the drain loop behind the join.
StopLosesNothing == [][s_thread /\ ~ s_thread' => s_q = <<>> /\ ~ Busy]_vars

\* No publish goes unnoticed between the two threads: a shard file that no
\* scan of the dispatcher has met since it was put in place is announced by the
\* flag, or about to be, or about to be met by a listing in progress.  (What a
\* scan makes of the file is another matter: one it skips on an error waits for
\* the next publish, one it finds no candidate slot for is never tried again.)
EveryPublishExamined ==
    \A b \in blobs : \/ b \in examined
                     \/ dirty
                     \/ worker = "renamed"
                     \/ main = "scanning" /\ b \in listed

\* The worker as a CompileService: what the dedup map says of each key.
StatusOf(k) == IF ~ Known(s_state, k) THEN "idle"
               ELSE IF k \in InState("queued") \cup InState("compiling") THEN "pending"
               ELSE "finished"

Service == INSTANCE CompileService WITH status <- [k \in Keys |-> StatusOf(k)]

\* The threads, queue and bounded map implement the service: nothing in
\* flight is forgotten or taken on twice, nothing is finished twice, and what
\* is accepted does get finished, also across a stop.
ImplementsService == Service!LiveSpec

\* Shutdown does not hang: the join of overlay_compile_worker_stop returns.
StopReturns == main = "joining" ~> main = "run"

=============================================================================
