--------------------- MODULE OverlayCompileWorkerProofs ---------------------
(***************************************************************************)
(* Safety of the off-thread JIT for every set of regions and every capacity *)
(* of its queue and tables, and the proof that it implements CompileService.*)
(***************************************************************************)
EXTENDS OverlayCompileWorker, NaturalsInduction, WellFoundedInduction, TLAPS

\* Some entry of the map s has key k and state st.
Holds(s, k, st) == \E i \in DOMAIN s : s[i].key = k /\ s[i].st = st

Unique(s) == \A i, j \in DOMAIN s : s[i].key = s[j].key => i = j

Queued(q, k) == \E i \in DOMAIN q : q[i] = k

----------------------------------------------------------------------------
(* The operations on the dedup map. *)

\* A non-empty set of naturals has a first element, so state_add's search for
\* an entry to evict and state_find find one.
LEMMA FirstOK ==
    ASSUME NEW I \in SUBSET Nat, I # {}
    PROVE  First(I) \in I /\ \A j \in I : First(I) <= j
<1>. DEFINE R == {ss \in Nat \X Nat : ss[1] < ss[2]}
<1>1. IsWellFoundedOn(R, Nat)
  BY NatLessThanWellFounded DEF OpToRel
<1>. HIDE DEF R
<1>2. PICK x \in I : \A y \in I : <<y, x>> \notin R
  BY <1>1, WFMin
<1>3. \A y \in I : <<y, x>> \in R <=> y < x
  BY DEF R
<1>4. ASSUME NEW y \in I
      PROVE  x <= y
  <2>1. x \in Nat /\ y \in Nat
    OBVIOUS
  <2>2. ~ (y < x)
    BY <1>2, <1>3
  <2>. QED
    BY <2>1, <2>2
<1>. QED
  BY <1>4 DEF First

\* An entry is in one state.
LEMMA HoldsUnique ==
    ASSUME NEW s \in Seq(StateEnt), Unique(s), NEW k, NEW t, NEW u,
           Holds(s, k, t), Holds(s, k, u)
    PROVE  t = u
BY DEF Holds, Unique

\* Changing the state of a key touches no other key.
LEMMA SetStateOK ==
    ASSUME NEW s \in Seq(StateEnt), Unique(s), NEW k \in Keys, NEW st \in States,
           Known(s, k)
    PROVE  /\ SetState(s, k, st) \in Seq(StateEnt)
           /\ Unique(SetState(s, k, st))
           /\ \A j \in Keys, t \in States :
                 Holds(SetState(s, k, st), j, t) <=> IF j = k THEN t = st ELSE Holds(s, j, t)
<1>. DEFINE p == First(Places(s, k))
<1>0. Places(s, k) \in SUBSET Nat /\ Places(s, k) # {}
  BY DEF Known, Places
<1>1. p \in Places(s, k)
  BY <1>0, FirstOK
<1>2. p \in DOMAIN s /\ s[p].key = k
  BY <1>1 DEF Places
<1>3. SetState(s, k, st) = [s EXCEPT ![p].st = st]
  BY DEF SetState
<1>. DEFINE r == SetState(s, k, st)
<1>. HIDE DEF p
<1>4. /\ r \in Seq(StateEnt) /\ DOMAIN r = DOMAIN s
      /\ \A i \in DOMAIN s : r[i] = IF i = p THEN [key |-> k, st |-> st] ELSE s[i]
  <2>1. s[p] \in StateEnt
    BY <1>2
  <2>2. [s[p] EXCEPT !.st = st] = [key |-> k, st |-> st] /\ [key |-> k, st |-> st] \in StateEnt
    BY <2>1, <1>2 DEF StateEnt
  <2>3. r = [s EXCEPT ![p] = [key |-> k, st |-> st]]
    BY <1>3, <2>2
  <2>. QED
    BY <1>2, <2>2, <2>3
<1>5. \A i \in DOMAIN s : s[i].key = k => i = p
  BY <1>2 DEF Unique
<1>6. Unique(r)
  BY <1>2, <1>4 DEF Unique
<1>7. ASSUME NEW j \in Keys, NEW t \in States
      PROVE  Holds(r, j, t) <=> IF j = k THEN t = st ELSE Holds(s, j, t)
  <2>1. CASE j = k
    BY <2>1, <1>2, <1>4, <1>5 DEF Holds
  <2>2. CASE j # k
    BY <2>2, <1>2, <1>4 DEF Holds
  <2>. QED
    BY <2>1, <2>2
<1>. QED
  BY <1>4, <1>6, <1>7

\* Eviction keeps everything that is not finished, and adds nothing.
LEMMA RoomOK ==
    ASSUME NEW s \in Seq(StateEnt), Unique(s)
    PROVE  /\ Room(s) \in Seq(StateEnt)
           /\ Unique(Room(s))
           /\ \A j \in Keys, t \in States : Holds(Room(s), j, t) => Holds(s, j, t)
           /\ \A j \in Keys, t \in States \ Finished : Holds(s, j, t) => Holds(Room(s), j, t)
<1>1. CASE Len(s) >= StateCap /\ Evictable(s) # {}
  <2>. DEFINE p == First(Evictable(s))
              r == Drop(s, p)
  <2>0. Evictable(s) \in SUBSET Nat
    BY DEF Evictable
  <2>1. p \in DOMAIN s /\ s[p].st \in Finished
    <3>1. p \in Evictable(s)
      BY <1>1, <2>0, FirstOK
    <3>. QED
      BY <3>1 DEF Evictable
  <2>2. Room(s) = r
    BY <1>1 DEF Room
  <2>3. Len(s) \in Nat /\ DOMAIN s = 1..Len(s) /\ \A i \in DOMAIN s : s[i] \in StateEnt
    OBVIOUS
  <2>4. DOMAIN r = 1..(Len(s) - 1)
        /\ \A i \in 1..(Len(s) - 1) : r[i] = IF i = p THEN s[Len(s)] ELSE s[i]
    BY DEF Drop
  <2>5. r \in Seq(StateEnt)
    <3>1. r \in [1..(Len(s) - 1) -> StateEnt]
      BY <2>1, <2>3 DEF Drop
    <3>2. Len(s) - 1 \in Nat
      BY <2>1, <2>3
    <3>. QED
      BY <3>1, <3>2
  <2>6. Unique(r)
    BY <2>1, <2>3, <2>4 DEF Unique
  <2>7. ASSUME NEW j \in Keys, NEW t \in States, Holds(r, j, t)
        PROVE  Holds(s, j, t)
    BY <2>1, <2>3, <2>4, <2>7 DEF Holds
  <2>8. ASSUME NEW j \in Keys, NEW t \in States \ Finished, Holds(s, j, t)
        PROVE  Holds(r, j, t)
    <3>1. PICK i \in DOMAIN s : s[i].key = j /\ s[i].st = t
      BY <2>8 DEF Holds
    <3>2. i # p
      BY <3>1, <2>1
    <3>3. CASE i = Len(s)
      BY <3>1, <3>2, <3>3, <2>1, <2>3, <2>4 DEF Holds
    <3>4. CASE i # Len(s)
      BY <3>1, <3>2, <3>4, <2>3, <2>4 DEF Holds
    <3>. QED
      BY <3>3, <3>4
  <2>. QED
    BY <2>2, <2>5, <2>6, <2>7, <2>8
<1>2. CASE ~ (Len(s) >= StateCap /\ Evictable(s) # {})
  BY <1>2 DEF Room
<1>. QED
  BY <1>1, <1>2

\* state_add adds the key in its state, and evicts at most a finished one.
LEMMA AddOK ==
    ASSUME NEW s \in Seq(StateEnt), Unique(s), NEW k \in Keys, ~ Known(s, k),
           NEW st \in States
    PROVE  LET r == Append(Room(s), [key |-> k, st |-> st])
           IN  /\ r \in Seq(StateEnt) /\ Unique(r)
               /\ \A j \in Keys, t \in States : Holds(r, j, t) => Holds(s, j, t) \/ (j = k /\ t = st)
               /\ \A j \in Keys, t \in States \ Finished : Holds(s, j, t) => Holds(r, j, t)
               /\ Holds(r, k, st)
<1>. DEFINE m == Room(s)
            e == [key |-> k, st |-> st]
            r == Append(m, e)
<1>1. /\ m \in Seq(StateEnt) /\ Unique(m)
      /\ \A j \in Keys, t \in States : Holds(m, j, t) => Holds(s, j, t)
      /\ \A j \in Keys, t \in States \ Finished : Holds(s, j, t) => Holds(m, j, t)
  BY RoomOK
<1>. HIDE DEF m
<1>2. e \in StateEnt
  BY DEF StateEnt
<1>3. /\ r \in Seq(StateEnt) /\ Len(r) = Len(m) + 1 /\ DOMAIN r = 1..(Len(m) + 1)
      /\ r[Len(m) + 1] = e /\ \A i \in DOMAIN m : r[i] = m[i]
  BY <1>1, <1>2
<1>4. DOMAIN m = 1..Len(m) /\ Len(m) \in Nat /\ \A i \in DOMAIN m : m[i] \in StateEnt
  BY <1>1
<1>5. \A i \in DOMAIN m : m[i].key # k
  <2>1. ASSUME NEW i \in DOMAIN m, m[i].key = k
        PROVE  FALSE
    <3>1. Holds(m, k, m[i].st) /\ m[i].st \in States
      BY <2>1, <1>4 DEF Holds, StateEnt
    <3>2. Holds(s, k, m[i].st)
      BY <3>1, <1>1
    <3>. QED
      BY <3>2 DEF Holds, Known, Places
  <2>. QED
    BY <2>1
<1>6. Unique(r)
  BY <1>1, <1>3, <1>4, <1>5 DEF Unique
<1>7. \A j \in Keys, t \in States : Holds(r, j, t) <=> Holds(m, j, t) \/ (j = k /\ t = st)
  BY <1>3, <1>4 DEF Holds
<1>. QED
  BY <1>1, <1>3, <1>6, <1>7 DEF m

----------------------------------------------------------------------------
(* The inductive invariant. *)

\* Queue, map and the worker's item agree.
MapOK ==
    /\ Unique(s_state)
    /\ \A i, j \in DOMAIN s_q : s_q[i] = s_q[j] => i = j
    /\ \A k \in Keys : Holds(s_state, k, "queued") <=> Queued(s_q, k)
    /\ \A k \in Keys : Holds(s_state, k, "compiling") <=> Busy /\ it = k

\* Where the two threads can be at the same time.
ThreadsOK ==
    /\ Busy => it \in Keys
    /\ s_thread <=> worker # "off"
    /\ worker \in {"off", "exited"} => s_q = <<>>
    /\ worker = "exited" => ~ s_running
    /\ main = "joining" => s_thread
    /\ s_thread /\ ~ s_running => main = "joining"

IInv == TypeOK /\ MapOK /\ ThreadsOK /\ CountsBalance /\ EveryPublishExamined

\* Popping from a queue without duplicates.
LEMMA TailOK ==
    ASSUME NEW q \in Seq(Keys), q # <<>>,
           \A i, j \in DOMAIN q : q[i] = q[j] => i = j
    PROVE  /\ Head(q) \in Keys /\ Queued(q, Head(q))
           /\ Tail(q) \in Seq(Keys) /\ Len(Tail(q)) + 1 = Len(q)
           /\ \A i, j \in DOMAIN Tail(q) : Tail(q)[i] = Tail(q)[j] => i = j
           /\ \A k \in Keys : Queued(Tail(q), k) <=> Queued(q, k) /\ k # Head(q)
<1>1. /\ Len(q) \in Nat \ {0} /\ DOMAIN q = 1..Len(q) /\ Head(q) = q[1]
      /\ Tail(q) \in Seq(Keys) /\ Len(Tail(q)) = Len(q) - 1
      /\ DOMAIN Tail(q) = 1..(Len(q) - 1)
      /\ \A i \in 1..(Len(q) - 1) : Tail(q)[i] = q[i + 1]
  OBVIOUS
<1>2. \A i, j \in DOMAIN Tail(q) : Tail(q)[i] = Tail(q)[j] => i = j
  BY <1>1
<1>3. ASSUME NEW k \in Keys
      PROVE  Queued(Tail(q), k) <=> Queued(q, k) /\ k # Head(q)
  <2>1. ASSUME Queued(Tail(q), k)
        PROVE  Queued(q, k) /\ k # Head(q)
    BY <2>1, <1>1 DEF Queued
  <2>2. ASSUME Queued(q, k), k # Head(q)
        PROVE  Queued(Tail(q), k)
    <3>1. PICK i \in 1..Len(q) : q[i] = k /\ i # 1
      BY <2>2, <1>1 DEF Queued
    <3>2. i - 1 \in 1..(Len(q) - 1) /\ Tail(q)[i - 1] = k
      BY <3>1, <1>1
    <3>. QED
      BY <3>2, <1>1 DEF Queued
  <2>. QED
    BY <2>1, <2>2
<1>. QED
  BY <1>1, <1>2, <1>3 DEF Queued

\* The loop head marks what it pops as being compiled, or leaves all as it was.
LEMMA LoopHeadOK ==
    ASSUME s_q \in Seq(Keys), s_running \in BOOLEAN,
           \A i, j \in DOMAIN s_q : s_q[i] = s_q[j] => i = j,
           NEW s \in Seq(StateEnt), Unique(s),
           \A k \in Keys : Holds(s, k, "queued") <=> Queued(s_q, k),
           \A k \in Keys : ~ Holds(s, k, "compiling"),
           LoopHead(s)
    PROVE  /\ s_q' \in Seq(Keys) /\ s_state' \in Seq(StateEnt) /\ MapOK'
           /\ it' \in Keys \cup {NoKey} /\ (Busy' => it' \in Keys)
           /\ worker' \in {"waiting", "exited", "compiling"}
           /\ worker' = "exited" => s_q' = <<>> /\ ~ s_running
           /\ Len(s_q) = Len(s_q') + (IF Busy' THEN 1 ELSE 0)
<1>1. CASE s_q = <<>>
  <2>1. /\ worker' = (IF s_running THEN "waiting" ELSE "exited") /\ it' = NoKey
        /\ s_state' = s /\ s_q' = s_q
    BY <1>1 DEF LoopHead
  <2>2. ~ Busy'
    BY <2>1 DEF Busy
  <2>3. MapOK'
    BY <2>1, <2>2 DEF MapOK
  <2>. QED
    BY <1>1, <2>1, <2>2, <2>3
<1>2. CASE s_q # <<>>
  <2>. DEFINE h == Head(s_q)
  <2>1. /\ worker' = "compiling" /\ it' = h
        /\ s_state' = SetState(s, h, "compiling") /\ s_q' = Tail(s_q)
    BY <1>2 DEF LoopHead
  <2>2. Busy'
    BY <2>1 DEF Busy
  <2>3. /\ h \in Keys /\ Queued(s_q, h)
        /\ Tail(s_q) \in Seq(Keys) /\ Len(Tail(s_q)) + 1 = Len(s_q)
        /\ \A i, j \in DOMAIN Tail(s_q) : Tail(s_q)[i] = Tail(s_q)[j] => i = j
        /\ \A k \in Keys : Queued(Tail(s_q), k) <=> Queued(s_q, k) /\ k # h
    BY <1>2, TailOK
  <2>4. Known(s, h)
    BY <2>3 DEF Holds, Known, Places
  <2>. HIDE DEF h
  <2>5. /\ s_state' \in Seq(StateEnt) /\ Unique(s_state')
        /\ \A j \in Keys, t \in States :
              Holds(s_state', j, t) <=> IF j = h THEN t = "compiling" ELSE Holds(s, j, t)
    BY <2>1, <2>3, <2>4, SetStateOK, "compiling" \in States DEF States
  <2>6. "queued" \in States /\ "compiling" \in States
    BY DEF States
  <2>7. MapOK'
    <3>1. \A i, j \in DOMAIN s_q' : s_q'[i] = s_q'[j] => i = j
      BY <2>1, <2>3
    <3>2. \A k \in Keys : Holds(s_state', k, "queued") <=> Queued(s_q', k)
      BY <2>1, <2>3, <2>5, <2>6
    <3>3. \A k \in Keys : Holds(s_state', k, "compiling") <=> Busy' /\ it' = k
      BY <2>1, <2>2, <2>5, <2>6
    <3>. QED
      BY <2>5, <3>1, <3>2, <3>3 DEF MapOK
  <2>. QED
    BY <2>1, <2>2, <2>3, <2>5, <2>7
<1>. QED
  BY <1>1, <1>2

----------------------------------------------------------------------------
(* Every step preserves the invariant. *)

\* The module starts with an empty map and no thread.
LEMMA InitIInv == Init => IInv
<1>. SUFFICES ASSUME Init PROVE IInv
  OBVIOUS
<1>. USE DEF Init
<1>1. TypeOK
  <2>1. s_running \in BOOLEAN /\ s_thread \in BOOLEAN /\ ok \in BOOLEAN /\ dirty \in BOOLEAN
    BY Zenon
  <2>2. s_q \in Seq(Keys) /\ s_state \in Seq(StateEnt) /\ examined \subseteq blobs
    OBVIOUS
  <2>3. s_enq \in Nat /\ s_done \in Nat /\ s_failed \in Nat
    OBVIOUS
  <2>. QED
    BY <2>1, <2>2, <2>3, Zenon DEF TypeOK
<1>2. MapOK
  BY DEF MapOK, Unique, Holds, Queued, Busy
<1>3. ThreadsOK /\ CountsBalance
  BY DEF ThreadsOK, CountsBalance, Busy
<1>4. EveryPublishExamined
  BY DEF EveryPublishExamined
<1>. QED
  BY <1>1, <1>2, <1>3, <1>4 DEF IInv

\* A request that is refused, dropped or accepted.
LEMMA EnqueueIInv ==
    ASSUME IInv, NEW k \in Keys, overlay_compile_worker_enqueue(k)
    PROVE  IInv'
<1>. USE DEF IInv
<1>0. /\ s_state \in Seq(StateEnt) /\ s_q \in Seq(Keys) /\ Unique(s_state)
      /\ ~ Known(s_state, k) /\ "queued" \in States /\ "compiling" \in States
      /\ "queued" \notin Finished /\ "compiling" \notin Finished
  BY DEF TypeOK, MapOK, overlay_compile_worker_enqueue, Acceptable, States, Finished
<1>1. /\ s_state' \in Seq(StateEnt) /\ Unique(s_state')
      /\ \A j \in Keys, t \in States : Holds(s_state', j, t) => Holds(s_state, j, t) \/ (j = k /\ t = "queued")
      /\ \A j \in Keys, t \in States \ Finished : Holds(s_state, j, t) => Holds(s_state', j, t)
      /\ Holds(s_state', k, "queued")
  BY <1>0, AddOK DEF overlay_compile_worker_enqueue
<1>2. /\ s_q' \in Seq(Keys) /\ Len(s_q') = Len(s_q) + 1 /\ Len(s_q) \in Nat
      /\ DOMAIN s_q = 1..Len(s_q) /\ DOMAIN s_q' = 1..(Len(s_q) + 1)
      /\ s_q'[Len(s_q) + 1] = k /\ \A i \in 1..Len(s_q) : s_q'[i] = s_q[i]
  BY <1>0 DEF overlay_compile_worker_enqueue
<1>3. \A j \in Keys : Queued(s_q', j) <=> Queued(s_q, j) \/ j = k
  BY <1>2 DEF Queued
<1>4. ~ Queued(s_q, k) /\ ~ Holds(s_state, k, "compiling")
  BY <1>0 DEF MapOK, Known, Places, Holds
<1>5. /\ it' = it /\ worker # "exited" /\ worker # "off"
      /\ worker' = worker \/ (worker = "waiting" /\ worker' = "woken")
  BY DEF overlay_compile_worker_enqueue, Signalled, ThreadsOK
<1>6. Busy' <=> Busy
  BY <1>5 DEF Busy
<1>7. MapOK'
  <2>1. \A i, j \in DOMAIN s_q' : s_q'[i] = s_q'[j] => i = j
    BY <1>2, <1>4 DEF MapOK, Queued
  <2>2. \A j \in Keys : Holds(s_state', j, "queued") <=> Queued(s_q', j)
    BY <1>0, <1>1, <1>3 DEF MapOK
  <2>3. \A j \in Keys : Holds(s_state', j, "compiling") <=> Busy' /\ it' = j
    BY <1>0, <1>1, <1>5, <1>6 DEF MapOK
  <2>. QED
    BY <1>1, <2>1, <2>2, <2>3 DEF MapOK
<1>8. ThreadsOK'
  BY <1>5, <1>6 DEF ThreadsOK, overlay_compile_worker_enqueue
<1>9. TypeOK'
  <2>1. UNCHANGED <<s_running, s_thread, ok, main, s_done, s_failed, cacheVars>> /\ s_enq' = s_enq + 1
    BY DEF overlay_compile_worker_enqueue
  <2>2. s_enq' \in Nat
    BY <2>1 DEF TypeOK
  <2>. QED
    BY <1>1, <1>2, <1>5, <2>1, <2>2, Zenon DEF TypeOK, cacheVars
<1>10. CountsBalance'
  BY <1>2, <1>6 DEF CountsBalance, overlay_compile_worker_enqueue, TypeOK
<1>11. EveryPublishExamined'
  BY <1>5 DEF EveryPublishExamined, overlay_compile_worker_enqueue, cacheVars
<1>. QED
  BY <1>7, <1>8, <1>9, <1>10, <1>11

\* The loop head after a wake-up, and after a result was recorded.
LEMMA AwakeIInv ==
    ASSUME IInv, Awake
    PROVE  IInv'
<1>. USE DEF IInv
<1>1. /\ s_state \in Seq(StateEnt) /\ s_q \in Seq(Keys) /\ Unique(s_state)
      /\ s_running \in BOOLEAN /\ ~ Busy /\ LoopHead(s_state)
      /\ \A i, j \in DOMAIN s_q : s_q[i] = s_q[j] => i = j
  BY DEF TypeOK, MapOK, Awake, Busy
<1>2. \A k \in Keys : Holds(s_state, k, "queued") <=> Queued(s_q, k)
  BY DEF MapOK
<1>3. \A k \in Keys : ~ Holds(s_state, k, "compiling")
  BY <1>1 DEF MapOK
<1>4. /\ s_q' \in Seq(Keys) /\ s_state' \in Seq(StateEnt) /\ MapOK'
      /\ it' \in Keys \cup {NoKey} /\ (Busy' => it' \in Keys)
      /\ worker' \in {"waiting", "exited", "compiling"}
      /\ worker' = "exited" => s_q' = <<>> /\ ~ s_running
      /\ Len(s_q) = Len(s_q') + (IF Busy' THEN 1 ELSE 0)
  BY <1>1, <1>2, <1>3, LoopHeadOK
<1>5. ThreadsOK'
  BY <1>4 DEF ThreadsOK, Awake
<1>6. TypeOK'
  BY <1>4 DEF TypeOK, Awake, cacheVars
<1>7. CountsBalance'
  <2>1. /\ s_enq' = s_enq /\ s_done' = s_done /\ s_failed' = s_failed
        /\ s_enq = s_done + s_failed + Len(s_q)
        /\ s_done \in Nat /\ s_failed \in Nat /\ Len(s_q) \in Nat /\ Len(s_q') \in Nat
    BY <1>1, <1>4 DEF CountsBalance, Awake, TypeOK
  <2>3. CASE Busy'
    <3>1. Len(s_q) = Len(s_q') + 1
      BY <1>4, <2>3
    <3>. QED
      BY <2>3, <3>1, <2>1 DEF CountsBalance
  <2>4. CASE ~ Busy'
    <3>1. Len(s_q) = Len(s_q')
      BY <1>4, <2>4
    <3>. QED
      BY <2>4, <3>1, <2>1 DEF CountsBalance
  <2>. QED
    BY <2>3, <2>4
<1>8. EveryPublishExamined'
  BY DEF EveryPublishExamined, Awake, cacheVars
<1>. QED
  BY <1>4, <1>5, <1>6, <1>7, <1>8

\* What Record hands to the loop head.
LEMMA RecordedOK ==
    ASSUME IInv, worker = "judged", NEW st \in Finished
    PROVE  LET s == SetState(s_state, it, st)
           IN  /\ it \in Keys /\ Known(s_state, it)
               /\ s \in Seq(StateEnt) /\ Unique(s)
               /\ \A k \in Keys : Holds(s, k, "queued") <=> Queued(s_q, k)
               /\ \A k \in Keys : ~ Holds(s, k, "compiling")
               /\ \A j \in Keys, t \in States :
                     Holds(s, j, t) <=> IF j = it THEN t = st ELSE Holds(s_state, j, t)
<1>. USE DEF IInv
<1>1. /\ s_state \in Seq(StateEnt) /\ Unique(s_state) /\ Busy /\ it \in Keys
  BY DEF TypeOK, MapOK, ThreadsOK, Busy
<1>2. Holds(s_state, it, "compiling")
  BY <1>1 DEF MapOK
<1>3. Known(s_state, it)
  BY <1>2 DEF Known, Places, Holds
<1>4. /\ st \in States /\ "queued" \in States /\ "compiling" \in States
      /\ st # "queued" /\ st # "compiling"
  BY DEF States, Finished
<1>. DEFINE s == SetState(s_state, it, st)
<1>5. /\ s \in Seq(StateEnt) /\ Unique(s)
      /\ \A j \in Keys, t \in States :
            Holds(s, j, t) <=> IF j = it THEN t = st ELSE Holds(s_state, j, t)
  BY <1>1, <1>3, <1>4, SetStateOK
<1>6. ~ Queued(s_q, it)
  <2>1. SUFFICES ASSUME Queued(s_q, it) PROVE FALSE
    OBVIOUS
  <2>2. Holds(s_state, it, "queued")
    BY <2>1, <1>1 DEF MapOK
  <2>. QED
    BY <1>1, <1>2, <2>2, HoldsUnique
<1>. HIDE DEF s
<1>7. \A k \in Keys : Holds(s, k, "queued") <=> Queued(s_q, k)
  BY <1>4, <1>5, <1>6 DEF MapOK
<1>8. \A k \in Keys : ~ Holds(s, k, "compiling")
  BY <1>4, <1>5 DEF MapOK
<1>. QED
  BY <1>1, <1>3, <1>5, <1>7, <1>8 DEF s

\* Recording a result and going on to the next request.
LEMMA RecordIInv ==
    ASSUME IInv, Record
    PROVE  IInv'
<1>. USE DEF IInv
<1>. DEFINE st == IF ok THEN "done" ELSE "failed"
            s == SetState(s_state, it, st)
<1>1. worker = "judged" /\ Busy /\ st \in Finished /\ LoopHead(s)
  BY DEF Record, Busy, Finished
<1>2. /\ s_q \in Seq(Keys) /\ s_running \in BOOLEAN
      /\ \A i, j \in DOMAIN s_q : s_q[i] = s_q[j] => i = j
  BY DEF TypeOK, MapOK
<1>3. /\ s \in Seq(StateEnt) /\ Unique(s)
      /\ \A k \in Keys : Holds(s, k, "queued") <=> Queued(s_q, k)
      /\ \A k \in Keys : ~ Holds(s, k, "compiling")
  BY <1>1, RecordedOK
<1>. HIDE DEF s
<1>4. /\ s_q' \in Seq(Keys) /\ s_state' \in Seq(StateEnt) /\ MapOK'
      /\ it' \in Keys \cup {NoKey} /\ (Busy' => it' \in Keys)
      /\ worker' \in {"waiting", "exited", "compiling"}
      /\ worker' = "exited" => s_q' = <<>> /\ ~ s_running
      /\ Len(s_q) = Len(s_q') + (IF Busy' THEN 1 ELSE 0)
  BY <1>1, <1>2, <1>3, LoopHeadOK
<1>5. ThreadsOK'
  BY <1>1, <1>4 DEF ThreadsOK, Record
<1>6. TypeOK'
  <2>1. /\ UNCHANGED <<s_running, s_thread, main, s_enq, cacheVars>> /\ ok' = FALSE
    BY DEF Record
  <2>2. s_done' \in Nat /\ s_failed' \in Nat
    BY DEF Record, TypeOK
  <2>. QED
    BY <1>4, <2>1, <2>2, Zenon DEF TypeOK, cacheVars
<1>7. CountsBalance'
  <2>1. /\ s_enq' = s_enq /\ s_done' + s_failed' = s_done + s_failed + 1
        /\ s_done' \in Nat /\ s_failed' \in Nat /\ Len(s_q) \in Nat /\ Len(s_q') \in Nat
        /\ s_done \in Nat /\ s_failed \in Nat
    BY <1>2, <1>4 DEF Record, TypeOK
  <2>2. s_enq = s_done + s_failed + Len(s_q) + 1
    BY <1>1 DEF CountsBalance
  <2>3. ASSUME NEW b \in {0, 1}, Len(s_q) = Len(s_q') + b
        PROVE  s_enq' = s_done' + s_failed' + Len(s_q') + b
    <3>0. PICK d \in Nat, f \in Nat, d2 \in Nat, f2 \in Nat, n \in Nat, n2 \in Nat :
            /\ d = s_done /\ f = s_failed /\ d2 = s_done' /\ f2 = s_failed'
            /\ n = Len(s_q) /\ n2 = Len(s_q')
      BY <2>1, Zenon
    <3>3. d2 + f2 = d + f + 1
      BY <2>1, <3>0
    <3>4. n = n2 + b
      BY <2>3, <3>0
    <3>2. d + f + n + 1 = d2 + f2 + n2 + b
      BY <3>3, <3>4
    <3>1. s_done + s_failed + Len(s_q) + 1 = s_done' + s_failed' + Len(s_q') + b
      BY <3>0, <3>2
    <3>. QED
      BY <2>1, <2>2, <3>1
  <2>4. CASE Busy'
    <3>1. Len(s_q) = Len(s_q') + 1
      BY <1>4, <2>4
    <3>. QED
      BY <2>3, <2>4, <3>1 DEF CountsBalance
  <2>5. CASE ~ Busy'
    <3>1. Len(s_q) = Len(s_q') + 0
      BY <1>4, <2>5
    <3>. QED
      BY <2>3, <2>5, <3>1 DEF CountsBalance
  <2>. QED
    BY <2>4, <2>5
<1>8. EveryPublishExamined'
  BY <1>1 DEF EveryPublishExamined, Record, cacheVars
<1>. QED
  BY <1>4, <1>5, <1>6, <1>7, <1>8

\* The steps that leave queue, map and item alone.
LEMMA QuietIInv ==
    ASSUME IInv, UNCHANGED <<s_q, s_state, it, s_enq, s_done, s_failed>>,
           Busy' <=> Busy, TypeOK', ThreadsOK', EveryPublishExamined'
    PROVE  IInv'
BY DEF IInv, MapOK, CountsBalance

\* Every step of either thread.
LEMMA StepIInv ==
    ASSUME IInv, [Next]_vars
    PROVE  IInv'
<1>. USE DEF IInv
<1>1. ASSUME NEW k \in Keys, overlay_compile_worker_enqueue(k)
      PROVE  IInv'
  BY <1>1, EnqueueIInv
<1>2. CASE overlay_compile_worker_start
  <2>1. worker = "off" /\ worker' \in {"off", "woken"} /\ Busy' = Busy
    BY <1>2 DEF overlay_compile_worker_start, ThreadsOK, Busy
  <2>2. TypeOK' /\ ThreadsOK'
    BY <1>2, <2>1 DEF overlay_compile_worker_start, TypeOK, ThreadsOK, queueVars, cacheVars, Busy
  <2>. QED
    BY <1>2, <2>1, <2>2, QuietIInv
       DEF overlay_compile_worker_start, queueVars, cacheVars, EveryPublishExamined
<1>3. CASE StopSignal
  <2>1. (worker' = worker \/ (worker = "waiting" /\ worker' = "woken")) /\ Busy' = Busy
    BY <1>3 DEF StopSignal, Signalled, Busy
  <2>2. TypeOK' /\ ThreadsOK'
    BY <1>3, <2>1 DEF StopSignal, TypeOK, ThreadsOK, queueVars, cacheVars
  <2>. QED
    BY <1>3, <2>1, <2>2, QuietIInv DEF StopSignal, queueVars, cacheVars, EveryPublishExamined
<1>4. CASE StopJoin
  <2>1. s_q = <<>> /\ s_q' = s_q /\ ~ Busy /\ ~ Busy'
    BY <1>4 DEF StopJoin, ThreadsOK, Busy
  <2>2. TypeOK' /\ ThreadsOK'
    BY <1>4, <2>1 DEF StopJoin, TypeOK, ThreadsOK, cacheVars
  <2>. QED
    BY <1>4, <2>1, <2>2, QuietIInv DEF StopJoin, cacheVars, EveryPublishExamined
<1>5. CASE MissRescan
  <2>1. TypeOK' /\ ThreadsOK'
    BY <1>5 DEF MissRescan, TypeOK, ThreadsOK, queueVars, workerVars, Busy
  <2>. QED
    BY <1>5, <2>1, QuietIInv DEF MissRescan, queueVars, workerVars, EveryPublishExamined, Busy
<1>6. CASE Scan
  <2>1. PICK seen \in SUBSET blobs :
          /\ listed \subseteq seen
          /\ examined' = examined \cup seen
          /\ \E taken \in SUBSET (seen \ loaded) : loaded' \in Marked(taken)
    BY <1>6 DEF Scan
  <2>2. /\ blobs \subseteq Blobs /\ loaded \subseteq blobs /\ examined \subseteq blobs
        /\ listed' = {} /\ main' = "run" /\ main = "scanning"
        /\ UNCHANGED <<queueVars, workerVars, dirty, blobs, s_running, s_thread>>
    BY <1>6 DEF Scan, TypeOK
  <2>3. loaded' \subseteq blobs /\ examined' \subseteq blobs
    BY <2>1, <2>2 DEF Marked
  <2>4. TypeOK' /\ ThreadsOK' /\ Busy' = Busy
    BY <2>2, <2>3 DEF TypeOK, ThreadsOK, queueVars, workerVars, Busy
  <2>5. EveryPublishExamined'
    BY <2>1, <2>2 DEF EveryPublishExamined, workerVars
  <2>. QED
    BY <2>2, <2>4, <2>5, QuietIInv DEF queueVars, workerVars
<1>7. CASE SpuriousWake
  <2>1. TypeOK' /\ ThreadsOK' /\ Busy' = Busy
    BY <1>7 DEF SpuriousWake, TypeOK, ThreadsOK, queueVars, cacheVars, Busy
  <2>. QED
    BY <1>7, <2>1, QuietIInv DEF SpuriousWake, queueVars, cacheVars, EveryPublishExamined
<1>8. CASE Awake
  BY <1>8, AwakeIInv
<1>9. CASE Decline \/ PublishFails
  <2>1. /\ worker = "compiling" /\ worker' = "judged" /\ ok' \in BOOLEAN
        /\ UNCHANGED <<queueVars, it, cacheVars, s_running, s_thread, main>>
    BY <1>9, Zenon DEF Decline, PublishFails
  <2>2. TypeOK' /\ ThreadsOK' /\ Busy' = Busy
    BY <2>1 DEF TypeOK, ThreadsOK, queueVars, cacheVars, Busy
  <2>. QED
    BY <1>9, <2>1, <2>2, QuietIInv DEF Decline, PublishFails, queueVars, cacheVars, EveryPublishExamined
<1>10. CASE Rename
  <2>1. BlobOf[it] \in Blobs
    BY <1>10, KeysAssumption DEF Rename, ThreadsOK, Busy
  <2>2. TypeOK' /\ ThreadsOK' /\ Busy' = Busy
    BY <1>10, <2>1 DEF Rename, TypeOK, ThreadsOK, queueVars, Busy
  <2>. QED
    BY <1>10, <2>2, QuietIInv DEF Rename, queueVars, EveryPublishExamined
<1>11. CASE Flag
  <2>1. TypeOK' /\ ThreadsOK' /\ Busy' = Busy
    BY <1>11 DEF Flag, TypeOK, ThreadsOK, queueVars, Busy
  <2>. QED
    BY <1>11, <2>1, QuietIInv DEF Flag, queueVars, EveryPublishExamined
<1>12. CASE Record
  BY <1>12, RecordIInv
<1>13. CASE UNCHANGED vars
  BY <1>13, QuietIInv DEF vars, queueVars, workerVars, cacheVars, TypeOK, ThreadsOK,
     EveryPublishExamined, Busy
<1>. QED
  BY <1>1, <1>2, <1>3, <1>4, <1>5, <1>6, <1>7, <1>8, <1>9, <1>10, <1>11, <1>12, <1>13 DEF Next
----------------------------------------------------------------------------
(* What follows from it. *)

\* The invariant holds throughout.
LEMMA WorkerIInv == Spec => []IInv
BY InitIInv, StepIInv, PTL DEF Spec

\* The keys in a state, read off the map.
LEMMA InStateIs ==
    ASSUME s_state \in Seq(StateEnt), NEW st
    PROVE  InState(st) \subseteq Keys /\ \A k : k \in InState(st) <=> Holds(s_state, k, st)
<1>0. \A i \in DOMAIN s_state : s_state[i] \in StateEnt
  OBVIOUS
<1>1. \A i \in DOMAIN s_state : s_state[i].key \in Keys
  BY <1>0 DEF StateEnt
<1>2. \A k : k \in InState(st) <=> \E i \in DOMAIN s_state : s_state[i].st = st /\ k = s_state[i].key
  BY Zenon DEF InState
<1>3. \A k : k \in InState(st) <=> Holds(s_state, k, st)
  BY <1>2, Zenon DEF Holds
<1>4. \A k : k \in InState(st) => k \in Keys
  BY <1>1, <1>2, Zenon
<1>. QED
  BY <1>3, <1>4, Zenon

\* Types of the worker's state, for every capacity and every set of regions.
THEOREM WorkerTypeOK == Spec => []TypeOK
<1>1. IInv => TypeOK
  BY DEF IInv
<1>. QED
  BY <1>1, WorkerIInv, PTL

\* Whatever is queued or being compiled has exactly one entry in the dedup map,
\* in the matching state: eviction and dedup never lose work in flight.
THEOREM WorkerInFlightTracked == Spec => []InFlightTracked
<1>1. ASSUME IInv PROVE InFlightTracked
  <2>1. s_state \in Seq(StateEnt) /\ s_q \in Seq(Keys) /\ (Busy => it \in Keys)
    BY <1>1 DEF IInv, TypeOK, ThreadsOK
  <2>2. InState("queued") = Items
    <3>1. \A k : k \in Items <=> k \in Keys /\ Queued(s_q, k)
      BY <2>1 DEF Items, Queued
    <3>2. InState("queued") \subseteq Keys
          /\ \A k : k \in InState("queued") <=> Holds(s_state, k, "queued")
      BY <2>1, InStateIs
    <3>. QED
      BY <1>1, <3>1, <3>2 DEF IInv, MapOK
  <2>3. InState("compiling") = (IF Busy THEN {it} ELSE {})
    <3>1. InState("compiling") \subseteq Keys
          /\ \A k : k \in InState("compiling") <=> Holds(s_state, k, "compiling")
      BY <2>1, InStateIs
    <3>2. \A k \in Keys : Holds(s_state, k, "compiling") <=> Busy /\ it = k
      BY <1>1 DEF IInv, MapOK
    <3>. QED
      BY <2>1, <3>1, <3>2
  <2>. QED
    BY <1>1, <2>2, <2>3 DEF InFlightTracked, IInv, MapOK, Unique
<1>. QED
  BY <1>1, WorkerIInv, PTL

\* The statistics add up, across stops and restarts.
THEOREM WorkerCountsBalance == Spec => []CountsBalance
<1>1. IInv => CountsBalance
  BY DEF IInv
<1>. QED
  BY <1>1, WorkerIInv, PTL

\* No shard file stays both unannounced and unmet by a scan since it was put in
\* place, whatever the two threads' timing, however the scan fares with it.
THEOREM WorkerEveryPublishExamined == Spec => []EveryPublishExamined
<1>1. IInv => EveryPublishExamined
  BY DEF IInv
<1>. QED
  BY <1>1, WorkerIInv, PTL

\* The drain loop of overlay_compile_worker_stop never has anything to drain.
THEOREM WorkerStopLosesNothing == Spec => StopLosesNothing
<1>1. ASSUME IInv, [Next]_vars
      PROVE  [s_thread /\ ~ s_thread' => s_q = <<>> /\ ~ Busy]_vars
  <2>1. SUFFICES ASSUME s_thread, ~ s_thread' PROVE s_q = <<>> /\ ~ Busy
    OBVIOUS
  <2>2. StopJoin
    BY <1>1, <2>1 DEF Next, vars, queueVars, workerVars, cacheVars,
       overlay_compile_worker_enqueue, overlay_compile_worker_start, StopSignal, MissRescan,
       Scan, SpuriousWake, Awake, Decline, Rename, PublishFails, Flag, Record
  <2>. QED
    BY <1>1, <2>2 DEF StopJoin, IInv, ThreadsOK, Busy
<1>. QED
  BY <1>1, WorkerIInv, PTL DEF Spec, StopLosesNothing
----------------------------------------------------------------------------
(* The worker implements CompileService. *)

\* What a dedup map says of a key.
Stat(s, k) == IF ~ Known(s, k) THEN "idle"
              ELSE IF Holds(s, k, "queued") \/ Holds(s, k, "compiling") THEN "pending"
              ELSE "finished"

\* A key is known when some entry holds it.
LEMMA KnownIs ==
    ASSUME NEW s \in Seq(StateEnt), NEW k
    PROVE  Known(s, k) <=> \E t \in States : Holds(s, k, t)
<1>1. \A i \in DOMAIN s : s[i] \in StateEnt
  OBVIOUS
<1>2. \A i \in DOMAIN s : s[i].st \in States
  BY <1>1 DEF StateEnt
<1>. QED
  BY <1>2 DEF Known, Places, Holds

\* The state the abstract service shows is that of the map.
LEMMA StatusIs == TypeOK => \A k \in Keys : StatusOf(k) = Stat(s_state, k)
<1>. SUFFICES ASSUME TypeOK, NEW k \in Keys PROVE StatusOf(k) = Stat(s_state, k)
  OBVIOUS
<1>1. s_state \in Seq(StateEnt)
  BY DEF TypeOK
<1>2. /\ k \in InState("queued") <=> Holds(s_state, k, "queued")
      /\ k \in InState("compiling") <=> Holds(s_state, k, "compiling")
  BY <1>1, InStateIs
<1>. QED
  BY <1>2 DEF StatusOf, Stat

\* Two maps that hold the same keys in the same states, up to the difference
\* between waiting and being compiled, say the same of every key.
LEMMA LoopHeadStat ==
    ASSUME s_q \in Seq(Keys), NEW s \in Seq(StateEnt), Unique(s),
           \A k \in Keys : Holds(s, k, "queued") <=> Queued(s_q, k),
           LoopHead(s)
    PROVE  \A k \in Keys : Stat(s_state', k) = Stat(s, k)
<1>1. CASE s_q = <<>>
  BY <1>1 DEF LoopHead
<1>2. CASE s_q # <<>>
  <2>. DEFINE h == Head(s_q)
  <2>1. s_state' = SetState(s, h, "compiling")
    BY <1>2 DEF LoopHead
  <2>2. h \in Keys /\ Holds(s, h, "queued")
    <3>1. h \in Keys /\ Queued(s_q, h)
      BY <1>2 DEF Queued
    <3>. QED
      BY <3>1
  <2>. HIDE DEF h
  <2>3. "queued" \in States /\ "compiling" \in States
    BY DEF States
  <2>4. Known(s, h)
    BY <2>2, <2>3, KnownIs
  <2>5. /\ s_state' \in Seq(StateEnt)
        /\ \A j \in Keys, t \in States :
              Holds(s_state', j, t) <=> IF j = h THEN t = "compiling" ELSE Holds(s, j, t)
    BY <2>1, <2>2, <2>3, <2>4, SetStateOK
  <2>6. ASSUME NEW k \in Keys
        PROVE  Stat(s_state', k) = Stat(s, k)
    <3>1. Known(s_state', k) <=> \E t \in States : Holds(s_state', k, t)
      BY <2>5, KnownIs
    <3>2. Known(s, k) <=> \E t \in States : Holds(s, k, t)
      BY KnownIs
    <3>3. CASE k = h
      BY <3>1, <3>3, <2>2, <2>3, <2>4, <2>5 DEF Stat
    <3>4. CASE k # h
      BY <3>1, <3>2, <3>4, <2>3, <2>5 DEF Stat
    <3>. QED
      BY <3>3, <3>4
  <2>. QED
    BY <2>6
<1>. QED
  BY <1>1, <1>2

\* Waking up changes nothing the service shows.
LEMMA AwakeStat ==
    ASSUME IInv, Awake
    PROVE  \A k \in Keys : Stat(s_state', k) = Stat(s_state, k)
BY LoopHeadStat DEF IInv, TypeOK, MapOK, Awake

\* Recording a result finishes the item and changes nothing else.
LEMMA RecordStat ==
    ASSUME IInv, Record
    PROVE  /\ it \in Keys /\ Stat(s_state, it) = "pending"
           /\ \A k \in Keys : Stat(s_state', k) = IF k = it THEN "finished" ELSE Stat(s_state, k)
<1>. DEFINE st == IF ok THEN "done" ELSE "failed"
            s == SetState(s_state, it, st)
<1>1. /\ s_q \in Seq(Keys) /\ s_state \in Seq(StateEnt) /\ Unique(s_state) /\ Busy
      /\ it \in Keys /\ LoopHead(s)
  BY DEF IInv, TypeOK, MapOK, ThreadsOK, Record, Busy
<1>2. /\ \A k \in Keys : Holds(s_state, k, "queued") <=> Queued(s_q, k)
      /\ Holds(s_state, it, "compiling")
  BY <1>1 DEF IInv, MapOK
<1>3. /\ "queued" \in States /\ "compiling" \in States /\ st \in States
      /\ st # "queued" /\ st # "compiling"
  BY DEF States
<1>. HIDE DEF st
<1>4. Known(s_state, it)
  BY <1>1, <1>2, <1>3, KnownIs
<1>5. /\ s \in Seq(StateEnt) /\ Unique(s)
      /\ \A j \in Keys, t \in States :
            Holds(s, j, t) <=> IF j = it THEN t = st ELSE Holds(s_state, j, t)
  BY <1>1, <1>3, <1>4, SetStateOK
<1>. HIDE DEF s
<1>6. ~ Holds(s_state, it, "queued")
  BY <1>1, <1>2, HoldsUnique
<1>7. \A k \in Keys : Holds(s, k, "queued") <=> Queued(s_q, k)
  BY <1>1, <1>2, <1>3, <1>5, <1>6
<1>8. \A k \in Keys : Stat(s_state', k) = Stat(s, k)
  BY <1>1, <1>5, <1>7, LoopHeadStat
<1>9. ASSUME NEW k \in Keys
      PROVE  Stat(s, k) = IF k = it THEN "finished" ELSE Stat(s_state, k)
  <2>1. Known(s, k) <=> \E t \in States : Holds(s, k, t)
    BY <1>5, KnownIs
  <2>2. Known(s_state, k) <=> \E t \in States : Holds(s_state, k, t)
    BY <1>1, KnownIs
  <2>3. CASE k = it
    BY <2>1, <2>3, <1>1, <1>3, <1>5 DEF Stat
  <2>4. CASE k # it
    BY <2>1, <2>2, <2>4, <1>3, <1>5 DEF Stat
  <2>. QED
    BY <2>3, <2>4
<1>10. Stat(s_state, it) = "pending"
  BY <1>2, <1>4 DEF Stat
<1>. QED
  BY <1>1, <1>8, <1>9, <1>10

\* Accepting a request makes it pending and forgets only finished ones.
LEMMA EnqueueStat ==
    ASSUME IInv, NEW k \in Keys, overlay_compile_worker_enqueue(k)
    PROVE  /\ Stat(s_state, k) = "idle" /\ Stat(s_state', k) = "pending"
           /\ \A j \in Keys \ {k} : \/ Stat(s_state', j) = Stat(s_state, j)
                                    \/ Stat(s_state, j) = "finished" /\ Stat(s_state', j) = "idle"
<1>1. s_state \in Seq(StateEnt) /\ Unique(s_state) /\ ~ Known(s_state, k)
  BY DEF IInv, TypeOK, MapOK, overlay_compile_worker_enqueue, Acceptable
<1>2. "queued" \in States \ Finished /\ "compiling" \in States \ Finished
  BY DEF States, Finished
<1>. DEFINE r == Append(Room(s_state), [key |-> k, st |-> "queued"])
<1>3. /\ r \in Seq(StateEnt)
      /\ \A j \in Keys, t \in States :
            Holds(r, j, t) => Holds(s_state, j, t) \/ (j = k /\ t = "queued")
      /\ \A j \in Keys, t \in States \ Finished : Holds(s_state, j, t) => Holds(r, j, t)
      /\ Holds(r, k, "queued")
  BY <1>1, <1>2, AddOK
<1>4. s_state' = r
  BY DEF overlay_compile_worker_enqueue
<1>. HIDE DEF r
<1>5. Stat(s_state, k) = "idle"
  BY <1>1 DEF Stat
<1>6. Stat(r, k) = "pending"
  BY <1>2, <1>3, KnownIs DEF Stat
<1>7. ASSUME NEW j \in Keys \ {k}
      PROVE  \/ Stat(r, j) = Stat(s_state, j)
             \/ Stat(s_state, j) = "finished" /\ Stat(r, j) = "idle"
  <2>1. Known(r, j) <=> \E t \in States : Holds(r, j, t)
    BY <1>3, KnownIs
  <2>2. Known(s_state, j) <=> \E t \in States : Holds(s_state, j, t)
    BY <1>1, KnownIs
  <2>3. /\ Holds(r, j, "queued") <=> Holds(s_state, j, "queued")
        /\ Holds(r, j, "compiling") <=> Holds(s_state, j, "compiling")
        /\ Known(r, j) => Known(s_state, j)
    BY <2>1, <2>2, <1>2, <1>3
  <2>4. Holds(r, j, "queued") \/ Holds(r, j, "compiling") => Known(r, j)
    BY <2>1, <1>2
  <2>. QED
    BY <2>3, <2>4 DEF Stat
<1>. QED
  BY <1>4, <1>5, <1>6, <1>7

\* overlay_compile_worker.c keeps the promise of its header for every number of
\* regions and every capacity: with its threads, queue, bounded map and stops
\* it is a CompileService, where nothing in flight is forgotten or taken on
\* twice and nothing is finished twice.
THEOREM WorkerImplementsService == Spec => Service!Spec
<1>. DEFINE bar == [k \in Keys |-> StatusOf(k)]
<1>1. Init => Service!Init
  <2>. SUFFICES ASSUME Init PROVE Service!Init
    OBVIOUS
  <2>1. \A k \in Keys : StatusOf(k) = "idle"
    BY DEF Init, StatusOf, Known, Places
  <2>. QED
    BY <2>1 DEF Service!Init
<1>2. (TypeOK => \A k \in Keys : StatusOf(k) = Stat(s_state, k))'
  BY StatusIs, PTL
<1>3. ASSUME IInv, IInv', [Next]_vars
      PROVE  [Service!Next]_bar
  <2>1. \A k \in Keys : bar[k] = Stat(s_state, k)
    BY <1>3, StatusIs DEF IInv
  <2>2. \A k \in Keys : StatusOf(k)' = Stat(s_state', k)
    BY <1>3, <1>2 DEF IInv
  <2>3. bar' = [k \in Keys |-> Stat(s_state', k)]
    BY <2>2
  <2>4. bar = [k \in Keys |-> Stat(s_state, k)]
    BY <2>1
  <2>5. ASSUME NEW k \in Keys, overlay_compile_worker_enqueue(k)
        PROVE  Service!Accept(k)
    <3>1. /\ Stat(s_state, k) = "idle" /\ Stat(s_state', k) = "pending"
          /\ \A j \in Keys \ {k} :
                \/ Stat(s_state', j) = Stat(s_state, j)
                \/ Stat(s_state, j) = "finished" /\ Stat(s_state', j) = "idle"
      BY <1>3, <2>5, EnqueueStat
    <3>. DEFINE old == {j \in Keys : bar[j] = "finished" /\ bar'[j] = "idle"}
    <3>2. old \in SUBSET {j \in Keys : bar[j] = "finished"}
      OBVIOUS
    <3>3. bar' = [j \in Keys |-> IF j = k THEN "pending" ELSE IF j \in old THEN "idle" ELSE bar[j]]
      BY <2>3, <2>4, <3>1
    <3>4. bar[k] = "idle"
      BY <2>1, <3>1
    <3>. QED
      BY <3>2, <3>3, <3>4 DEF Service!Accept
  <2>6. ASSUME Record
        PROVE  it \in Keys /\ Service!Finish(it)
    <3>1. /\ it \in Keys /\ Stat(s_state, it) = "pending"
          /\ \A k \in Keys :
                Stat(s_state', k) = IF k = it THEN "finished" ELSE Stat(s_state, k)
      BY <1>3, <2>6, RecordStat
    <3>2. bar' = [bar EXCEPT ![it] = "finished"] /\ bar[it] = "pending"
      BY <2>3, <2>4, <3>1
    <3>. QED
      BY <3>1, <3>2 DEF Service!Finish
  <2>7. ASSUME Awake
        PROVE  bar' = bar
    BY <1>3, <2>3, <2>4, <2>7, AwakeStat
  <2>8. ASSUME s_state' = s_state
        PROVE  bar' = bar
    BY <2>3, <2>4, <2>8
  <2>9. \/ \E k \in Keys : overlay_compile_worker_enqueue(k)
        \/ Record \/ Awake \/ s_state' = s_state
    BY <1>3 DEF Next, vars, queueVars, workerVars, cacheVars, overlay_compile_worker_start,
       StopSignal, StopJoin, MissRescan, Scan, SpuriousWake, Decline, Rename, PublishFails, Flag
  <2>. QED
    BY <2>5, <2>6, <2>7, <2>8, <2>9 DEF Service!Next
<1>. QED
  BY <1>1, <1>3, WorkerIInv, PTL DEF Spec, Service!Spec
=============================================================================
