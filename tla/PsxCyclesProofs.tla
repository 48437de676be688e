--------------------------- MODULE PsxCyclesProofs --------------------------
(***************************************************************************)
(* Proofs about the cycle clock, for every counter width, divisor, charge   *)
(* and VBlank period.                                                       *)
(*                                                                         *)
(* The loops of timers.c and psx_cycles.c are iterations of a round.  What  *)
(* an iteration reaches is proved by induction on numbers, stated with sets *)
(* (Induct): counting in bulk is counting tick by tick (BulkTicks), and two *)
(* charges are the charge of their sum (AdvanceAdds, DevicesAdd).  So       *)
(* however the replay cuts what the devices are behind into chunks, the     *)
(* devices end where one charge of all of it puts them (ServiceIs, ExactIs).*)
(*                                                                         *)
(* The deadline (CInv) makes it invisible that they are behind: within it   *)
(* no timer raises its line (UnarmedCharge) and no VBlank is due (AheadIs), *)
(* so I_STAT is what it would be (GuestDevIs), and every step is a step of  *)
(* ExactClock on the devices brought up to now (NextExact).                 *)
(***************************************************************************)
EXTENDS PsxCycles, WellFoundedInduction, TLAPS

----------------------------------------------------------------------------
(* Induction on numbers and on orbits, over sets. *)

\* A set of natural numbers has a least element.
LEMMA Least ==
    ASSUME NEW T \in SUBSET Nat, T # {}
    PROVE  \E m \in T : \A y \in T : m <= y
<1> DEFINE R == OpToRel(<, Nat)
<1>1. IsWellFoundedOn(R, Nat)
  BY NatLessThanWellFounded
<1>2. \A p, q \in Nat : p < q => <<p, q>> \in R
  BY DEF OpToRel
<1> HIDE DEF R
<1>3. PICK m \in T : \A y \in T : <<y, m>> \notin R
  BY <1>1, WFMin
<1>4. \A y \in T : m <= y
  <2> TAKE y \in T
  <2>1. y \in Nat /\ m \in Nat /\ ~ (y < m)
    BY <1>2, <1>3
  <2> QED BY <2>1
<1> QED BY <1>4

\* A set that holds 0 and with every number the next holds every number.
LEMMA Induct ==
    ASSUME NEW T, 0 \in T, \A i \in Nat : i \in T => i + 1 \in T
    PROVE  \A i \in Nat : i \in T
<1> DEFINE B == {i \in Nat : i \notin T}
<1> SUFFICES ASSUME B # {} PROVE FALSE
  OBVIOUS
<1>1. PICK m \in B : \A y \in B : m <= y
  BY Least
<1>2. m \in Nat /\ m # 0
  OBVIOUS
<1>3. m - 1 \in Nat /\ ~ (m <= m - 1) /\ (m - 1) + 1 = m
  BY <1>2
<1>4. m - 1 \in T
  BY <1>1, <1>3
<1> QED BY <1>3, <1>4

\* g follows G from x on.
Orbit(g, G, S, x) ==
    g \in [Nat -> S] /\ g[0] = x /\ \A i \in Nat : g[i + 1] = G[g[i]]

\* The first n + 1 points of an orbit.
Segment(h, G, S, x, n) ==
    h \in [0..n -> S] /\ h[0] = x /\ \A i \in Nat : i < n => h[i + 1] = G[h[i]]

\* Two segments agree where both are defined.
LEMMA SegmentsAgree ==
    ASSUME NEW S, NEW G, NEW x, NEW n \in Nat, NEW m \in Nat, NEW h, NEW k,
           Segment(h, G, S, x, n), Segment(k, G, S, x, m)
    PROVE  \A i \in Nat : i <= n /\ i <= m => h[i] = k[i]
<1> DEFINE T == {i \in Nat : i <= n /\ i <= m => h[i] = k[i]}
<1>1. 0 \in T
  BY DEF Segment
<1>2. ASSUME NEW i \in Nat, i \in T PROVE i + 1 \in T
  BY <1>2 DEF Segment
<1> HIDE DEF T
<1>3. \A i \in Nat : i \in T
  BY <1>1, <1>2, Induct
<1> QED BY <1>3 DEF T

\* Every length of segment exists.
LEMMA SegmentExists ==
    ASSUME NEW S, NEW G \in [S -> S], NEW x \in S
    PROVE  \A n \in Nat : \E h : Segment(h, G, S, x, n)
<1> DEFINE T == {n \in Nat : \E h : Segment(h, G, S, x, n)}
<1>1. 0 \in T
  <2> DEFINE h == [i \in 0..0 |-> x]
  <2>1. Segment(h, G, S, x, 0)
    BY DEF Segment
  <2> QED BY <2>1
<1>2. ASSUME NEW n \in Nat, n \in T PROVE n + 1 \in T
  <2>1. PICK h : Segment(h, G, S, x, n)
    BY <1>2
  <2> DEFINE k == [i \in 0..(n + 1) |-> IF i = n + 1 THEN G[h[n]] ELSE h[i]]
  <2>2. h[n] \in S /\ G[h[n]] \in S
    BY <2>1 DEF Segment
  <2>3. k \in [0..(n + 1) -> S]
    BY <2>1, <2>2 DEF Segment
  <2>4. k[0] = x
    BY <2>1 DEF Segment
  <2>5. ASSUME NEW i \in Nat, i < n + 1 PROVE k[i + 1] = G[k[i]]
    <3>1. CASE i = n
      BY <3>1
    <3>2. CASE i < n
      BY <2>1, <3>2 DEF Segment
    <3> QED BY <2>5, <3>1, <3>2
  <2>6. Segment(k, G, S, x, n + 1)
    BY <2>3, <2>4, <2>5 DEF Segment
  <2> QED BY <2>6
<1> HIDE DEF T
<1>3. \A n \in Nat : n \in T
  BY <1>1, <1>2, Induct
<1> QED BY <1>3 DEF T

\* Every point has an orbit.
LEMMA OrbitExists ==
    ASSUME NEW S, NEW G \in [S -> S], NEW x \in S
    PROVE  \E g : Orbit(g, G, S, x)
<1> DEFINE Seg(n) == CHOOSE h : Segment(h, G, S, x, n)
           g == [n \in Nat |-> Seg(n)[n]]
<1>1. \A n \in Nat : Segment(Seg(n), G, S, x, n)
  BY SegmentExists
<1> HIDE DEF Seg
<1>2. g \in [Nat -> S]
  BY <1>1 DEF Segment
<1>3. g[0] = x
  BY <1>1 DEF Segment
<1>4. ASSUME NEW i \in Nat PROVE g[i + 1] = G[g[i]]
  <2>1. Segment(Seg(i), G, S, x, i) /\ Segment(Seg(i + 1), G, S, x, i + 1)
    BY <1>1
  <2>2. Seg(i)[i] = Seg(i + 1)[i]
    BY <2>1, SegmentsAgree
  <2>3. Seg(i + 1)[i + 1] = G[Seg(i + 1)[i]]
    BY <2>1 DEF Segment
  <2> QED BY <2>2, <2>3
<1>5. Orbit(g, G, S, x)
  BY <1>2, <1>3, <1>4 DEF Orbit
<1> QED BY <1>5

\* What agrees with an orbit at 0 and steps as it does agrees with it up to n.
LEMMA Follows ==
    ASSUME NEW S, NEW G, NEW x, NEW g, Orbit(g, G, S, x), NEW n \in Nat, NEW f, f[0] = x,
           \A i \in Nat : i < n /\ f[i] = g[i] => f[i + 1] = G[g[i]]
    PROVE  f[n] = g[n]
<1> DEFINE T == {i \in Nat : i <= n => f[i] = g[i]}
<1>1. 0 \in T
  BY DEF Orbit
<1>2. ASSUME NEW i \in Nat, i \in T PROVE i + 1 \in T
  BY <1>2 DEF Orbit
<1> HIDE DEF T
<1>3. \A i \in Nat : i \in T
  BY <1>1, <1>2, Induct
<1> QED BY <1>3 DEF T

----------------------------------------------------------------------------
(* The types of the devices. *)

TimerSet ==
    [counter : Count, target : Count, mode : Mode, request : BOOLEAN,
     targetFlag : BOOLEAN, overflowFlag : BOOLEAN, line : BOOLEAN, frac : Nat, irq : BOOLEAN]

\* What no count changes: the target, the fraction and the mode but for the
\* armed bits, which only fall; and the interrupt bit of an unarmed source.
Counted(tm, r) ==
    /\ r \in TimerSet
    /\ r.target = tm.target /\ r.frac = tm.frac
    /\ r.mode.div = tm.mode.div /\ r.mode.reset = tm.mode.reset
    /\ r.mode.irqTarget => tm.mode.irqTarget
    /\ r.mode.irqOverflow => tm.mode.irqOverflow

\* Firing changes neither target, fraction nor divisor, and arms nothing.
LEMMA FireCounted ==
    ASSUME NEW tm \in TimerSet
    PROVE  Counted(tm, timer_fire_irq(tm)) /\ timer_fire_irq(tm).counter = tm.counter
<1> DEFINE line == IF tm.mode.toggle THEN ~ tm.line ELSE tm.line
           edge == tm.mode.toggle => line
           irq == tm.irq \/ edge
           req == tm.mode.toggle => ~ line
           it == tm.mode.irqTarget /\ tm.mode.repeat
           io == tm.mode.irqOverflow /\ tm.mode.repeat
           m == [tm.mode EXCEPT !.irqTarget = it, !.irqOverflow = io]
           r == [tm EXCEPT !.line = line, !.irq = irq, !.request = req, !.mode = m]
<1>1. line \in BOOLEAN /\ irq \in BOOLEAN /\ req \in BOOLEAN /\ it \in BOOLEAN /\ io \in BOOLEAN
  BY Zenon DEF TimerSet, Mode
<1>2. (it => tm.mode.irqTarget) /\ (io => tm.mode.irqOverflow)
  OBVIOUS
<1>3. timer_fire_irq(tm) = r
  BY DEF timer_fire_irq, TimerSet, Mode
<1> HIDE DEF line, edge, irq, req, it, io
<1>4. m \in Mode /\ m.div = tm.mode.div /\ m.reset = tm.mode.reset
      /\ m.irqTarget = it /\ m.irqOverflow = io
  BY <1>1 DEF TimerSet, Mode
<1> HIDE DEF m
<1>5. r \in TimerSet /\ r.target = tm.target /\ r.frac = tm.frac /\ r.mode = m
      /\ r.counter = tm.counter
  BY <1>1, <1>4 DEF TimerSet
<1> QED BY <1>2, <1>3, <1>4, <1>5 DEF Counted

\* Reaching the target: an unarmed source leaves the interrupt bit and the mode.
LEMMA AtTargetCounted ==
    ASSUME NEW tm \in TimerSet
    PROVE  /\ Counted(tm, AtTarget(tm))
           /\ AtTarget(tm).counter = IF tm.mode.reset THEN 0 ELSE tm.counter
           /\ ~ tm.mode.irqTarget => AtTarget(tm).irq = tm.irq /\ AtTarget(tm).mode = tm.mode
<1> DEFINE a == [tm EXCEPT !.targetFlag = TRUE]
           b == IF a.mode.irqTarget THEN timer_fire_irq(a) ELSE a
           z == 0
           r == IF b.mode.reset THEN [b EXCEPT !.counter = z] ELSE b
<1>1. a \in TimerSet /\ a.mode = tm.mode /\ a.target = tm.target /\ a.frac = tm.frac
      /\ a.counter = tm.counter /\ a.irq = tm.irq
  BY DEF TimerSet
<1> HIDE DEF a
<1>2. Counted(a, timer_fire_irq(a)) /\ timer_fire_irq(a).counter = a.counter
  BY <1>1, FireCounted
<1>3. Counted(tm, b) /\ b.counter = tm.counter
      /\ (~ tm.mode.irqTarget => b.irq = tm.irq /\ b.mode = tm.mode)
  BY <1>1, <1>2 DEF Counted
<1> HIDE DEF b
<1>4. z \in Count /\ z = 0
  BY TimersAssumption DEF Count
<1> HIDE DEF z
<1>5. b \in TimerSet /\ b.mode.reset = tm.mode.reset
  BY <1>3 DEF Counted
<1> DEFINE w == [b EXCEPT !.counter = z]
<1>6. w \in TimerSet /\ w.target = b.target /\ w.frac = b.frac /\ w.mode = b.mode /\ w.irq = b.irq
      /\ w.counter = z
  BY <1>4, <1>5 DEF TimerSet
<1> HIDE DEF w
<1>7. AtTarget(tm) = IF tm.mode.reset THEN w ELSE b
  BY <1>4, <1>5 DEF AtTarget, w, z, a, b
<1>8. CASE tm.mode.reset
  BY <1>3, <1>4, <1>6, <1>7, <1>8 DEF Counted
<1>9. CASE ~ tm.mode.reset
  BY <1>3, <1>7, <1>9 DEF Counted
<1> QED BY <1>8, <1>9

\* The same for the wrap.
LEMMA AtOverflowCounted ==
    ASSUME NEW tm \in TimerSet
    PROVE  /\ Counted(tm, AtOverflow(tm))
           /\ AtOverflow(tm).counter = tm.counter
           /\ ~ tm.mode.irqOverflow => AtOverflow(tm).irq = tm.irq /\ AtOverflow(tm).mode = tm.mode
<1> DEFINE a == [tm EXCEPT !.overflowFlag = TRUE]
<1>1. a \in TimerSet /\ a.mode = tm.mode /\ a.target = tm.target /\ a.frac = tm.frac
      /\ a.counter = tm.counter /\ a.irq = tm.irq
  BY DEF TimerSet
<1>2. AtOverflow(tm) = IF a.mode.irqOverflow THEN timer_fire_irq(a) ELSE a
  BY DEF AtOverflow
<1> HIDE DEF a
<1>3. Counted(a, timer_fire_irq(a)) /\ timer_fire_irq(a).counter = a.counter
  BY <1>1, FireCounted
<1> QED BY <1>1, <1>2, <1>3 DEF Counted

\* A timer set to another count.
At(tm, n) == [tm EXCEPT !.counter = n]

\* Setting the count changes nothing else.
LEMMA AtIs ==
    ASSUME NEW tm \in TimerSet, NEW n \in Count
    PROVE  /\ At(tm, n) \in TimerSet /\ At(tm, n).counter = n
           /\ At(tm, n).target = tm.target /\ At(tm, n).frac = tm.frac
           /\ At(tm, n).mode = tm.mode /\ At(tm, n).irq = tm.irq
           /\ \A m \in Count : At(At(tm, n), m) = At(tm, m)
           /\ At(tm, tm.counter) = tm
<1>1. /\ At(tm, n) \in TimerSet /\ At(tm, n).counter = n
      /\ At(tm, n).target = tm.target /\ At(tm, n).frac = tm.frac
      /\ At(tm, n).mode = tm.mode /\ At(tm, n).irq = tm.irq
  BY DEF At, TimerSet
<1>2. \A m \in Count : At(At(tm, n), m) = At(tm, m)
  BY DEF At, TimerSet
<1>3. At(tm, tm.counter) = tm
  BY DEF At, TimerSet
<1> QED BY <1>1, <1>2, <1>3

\* Counts modulo Wrap, up to the first wrap.
LEMMA ModWrap ==
    ASSUME NEW n \in Nat, n <= Wrap
    PROVE  n % Wrap = IF n = Wrap THEN 0 ELSE n
BY TimersAssumption

\* One tick in terms of At.
LEMMA TickIs ==
    ASSUME NEW tm \in TimerSet
    PROVE  LET n == IF tm.counter = Wrap - 1 THEN 0 ELSE tm.counter + 1
               b == IF n = tm.target THEN AtTarget(At(tm, n)) ELSE At(tm, n)
           IN  /\ n \in Count
               /\ timer_tick_one(tm) = IF tm.counter = Wrap - 1 THEN AtOverflow(b) ELSE b
<1> DEFINE n == IF tm.counter = Wrap - 1 THEN 0 ELSE tm.counter + 1
<1>1. tm.counter \in Nat /\ tm.counter <= Wrap - 1 /\ Wrap \in Nat
  BY TimersAssumption DEF TimerSet, Count
<1>2. (tm.counter + 1) % Wrap = n /\ n \in Count
  BY <1>1, ModWrap DEF Count
<1> HIDE DEF n
<1>3. [tm EXCEPT !.counter = (@ + 1) % Wrap] = At(tm, n)
  BY <1>2 DEF At, TimerSet
<1>4. At(tm, n).counter = n
  BY <1>2, AtIs
<1>5. timer_tick_one(tm) = LET b == IF n = tm.target THEN AtTarget(At(tm, n)) ELSE At(tm, n)
                           IN  IF tm.counter = Wrap - 1 THEN AtOverflow(b) ELSE b
  BY <1>3, <1>4 DEF timer_tick_one
<1> QED BY <1>2, <1>5 DEF n

\* A tick keeps the types and what counting keeps.
LEMMA TickCounted ==
    ASSUME NEW tm \in TimerSet
    PROVE  Counted(tm, timer_tick_one(tm))
<1> DEFINE n == IF tm.counter = Wrap - 1 THEN 0 ELSE tm.counter + 1
           a == At(tm, n)
           b == IF n = tm.target THEN AtTarget(a) ELSE a
<1>1. n \in Count /\ timer_tick_one(tm) = IF tm.counter = Wrap - 1 THEN AtOverflow(b) ELSE b
  BY TickIs
<1> HIDE DEF n
<1>2. a \in TimerSet /\ a.target = tm.target /\ a.frac = tm.frac /\ a.mode = tm.mode
  BY <1>1, AtIs
<1> HIDE DEF a
<1>3. Counted(a, AtTarget(a))
  BY <1>2, AtTargetCounted
<1>4. Counted(tm, b)
  BY <1>2, <1>3 DEF Counted
<1> HIDE DEF b
<1>5. Counted(b, AtOverflow(b))
  BY <1>4, AtOverflowCounted DEF Counted
<1> QED BY <1>1, <1>4, <1>5 DEF Counted

\* The distances, without a modulus.
LEMMA Dists ==
    ASSUME NEW tm \in TimerSet
    PROVE  /\ TargetDist(tm) = IF tm.target > tm.counter THEN tm.target - tm.counter
                               ELSE tm.target - tm.counter + Wrap
           /\ TargetDist(tm) \in 1..Wrap
           /\ OverflowDist(tm) = Wrap - tm.counter /\ OverflowDist(tm) \in 1..Wrap
<1>1. tm.counter \in Nat /\ tm.counter < Wrap /\ tm.target \in Nat /\ tm.target < Wrap /\ Wrap \in Nat
  BY TimersAssumption DEF TimerSet, Count
<1>2. ASSUME NEW x \in Nat, NEW y \in Nat, x < y, y < Wrap PROVE (x - y) % Wrap = x - y + Wrap
  BY <1>1, <1>2
<1>3. ASSUME NEW x \in Nat, NEW y \in Nat, y < x, x < Wrap PROVE (x - y) % Wrap = x - y
  <2>1. x - y \in Nat /\ x - y < Wrap
    BY <1>1, <1>3
  <2> QED BY <1>1, <2>1
<1>4. TargetDist(tm) = IF tm.target > tm.counter THEN tm.target - tm.counter
                       ELSE tm.target - tm.counter + Wrap
  <2>1. CASE tm.target = tm.counter
    BY <1>1, <2>1 DEF TargetDist
  <2>2. CASE tm.target > tm.counter
    <3>1. (tm.target - tm.counter) % Wrap = tm.target - tm.counter
      BY <1>1, <1>3, <2>2
    <3> QED BY <1>1, <2>2, <3>1 DEF TargetDist
  <2>3. CASE tm.target < tm.counter
    <3>1. (tm.target - tm.counter) % Wrap = tm.target - tm.counter + Wrap
      BY <1>1, <1>2, <2>3
    <3> QED BY <1>1, <2>3, <3>1 DEF TargetDist
  <2> QED BY <1>1, <2>1, <2>2, <2>3
<1> QED BY <1>1, <1>4 DEF OverflowDist

\* A tick that reaches neither the target nor the wrap only counts.
LEMMA QuietTick ==
    ASSUME NEW tm \in TimerSet, TargetDist(tm) > 1, OverflowDist(tm) > 1
    PROVE  /\ tm.counter + 1 \in Count
           /\ timer_tick_one(tm) = At(tm, tm.counter + 1)
<1>1. tm.counter \in Nat /\ tm.counter < Wrap /\ tm.target \in Nat /\ tm.target < Wrap /\ Wrap \in Nat
  BY TimersAssumption DEF TimerSet, Count
<1>2. tm.counter # Wrap - 1 /\ tm.counter + 1 # tm.target /\ tm.counter + 1 \in Count
  BY <1>1, Dists DEF Count
<1> QED BY <1>2, TickIs

----------------------------------------------------------------------------
(* Bulk counting is counting. *)

TickMap == [tm \in TimerSet |-> timer_tick_one(tm)]

\* The ticks of a timer.
Ticks(g, tm) == Orbit(g, TickMap, TimerSet, tm)

\* Every timer has its ticks, and they are what Iterate computes.
LEMMA TicksExist ==
    ASSUME NEW tm \in TimerSet
    PROVE  \E g : Ticks(g, tm)
<1>1. TickMap \in [TimerSet -> TimerSet]
  BY TickCounted DEF TickMap, Counted
<1> QED BY <1>1, OrbitExists DEF Ticks

\* One tick further on an orbit.
LEMMA TicksStep ==
    ASSUME NEW tm \in TimerSet, NEW g, Ticks(g, tm)
    PROVE  /\ g[0] = tm
           /\ \A i \in Nat : g[i] \in TimerSet /\ g[i + 1] = timer_tick_one(g[i])
BY DEF Ticks, Orbit, TickMap

\* The reference of BulkIsTicks.
LEMMA TicksIterate ==
    ASSUME NEW tm \in TimerSet, NEW g, Ticks(g, tm), NEW n \in Nat
    PROVE  Iterate(timer_tick_one, tm, n) = g[n]
<1> DEFINE Eq(f) == f = [i \in 0..n |-> IF i = 0 THEN tm ELSE On(f[i - 1], timer_tick_one)]
           f == CHOOSE f : Eq(f)
           k == [i \in 0..n |-> g[i]]
<1>1. \A z : On(z, timer_tick_one) = timer_tick_one(z)
  BY DEF On
<1>2. ASSUME NEW i \in 0..n
      PROVE  k[i] = IF i = 0 THEN tm ELSE On(k[i - 1], timer_tick_one)
  <2>1. CASE i = 0
    BY <2>1, TicksStep
  <2>2. CASE i # 0
    <3>1. i - 1 \in Nat /\ i - 1 \in 0..n /\ (i - 1) + 1 = i
      BY <2>2
    <3>2. k[i] = timer_tick_one(k[i - 1])
      BY <3>1, TicksStep
    <3> QED BY <1>1, <2>2, <3>2
  <2> QED BY <2>1, <2>2
<1>3. Eq(k)
  BY <1>2
<1>4. Eq(f)
  BY <1>3
<1> HIDE DEF k
<1>5. Iterate(timer_tick_one, tm, n) = f[n]
  BY DEF Iterate
<1> HIDE DEF f
<1>6. f[0] = tm
  BY <1>4
<1>7. ASSUME NEW i \in Nat, i < n PROVE f[i + 1] = timer_tick_one(f[i])
  <2>1. i + 1 \in 0..n /\ i + 1 # 0 /\ (i + 1) - 1 = i
    BY <1>7
  <2>2. f[i + 1] = On(f[i], timer_tick_one)
    BY <1>4, <2>1
  <2> QED BY <1>1, <2>2
<1>8. \A i \in Nat : i < n /\ f[i] = g[i] => f[i + 1] = TickMap[g[i]]
  BY <1>7, TicksStep DEF TickMap
<1> QED BY <1>5, <1>6, <1>8, Follows DEF Ticks

\* The least of two and of three numbers.
LEMMA LowestOfTwo ==
    ASSUME NEW x \in Int, NEW y \in Int
    PROVE  LowestOf({x, y}) = IF x <= y THEN x ELSE y
BY DEF LowestOf

\* The lowest of three numbers.
LEMMA LowestOfThree ==
    ASSUME NEW x \in Int, NEW y \in Int, NEW z \in Int
    PROVE  LET m == LowestOf({x, y, z})
           IN  m \in {x, y, z} /\ m <= x /\ m <= y /\ m <= z
<1> DEFINE m == IF x <= y /\ x <= z THEN x ELSE IF y <= z THEN y ELSE z
<1>1. m \in {x, y, z} /\ \A v \in {x, y, z} : m <= v
  OBVIOUS
<1> QED BY <1>1 DEF LowestOf

\* Short of the target and of the wrap, the ticks only count.
LEMMA QuietTicks ==
    ASSUME NEW tm \in TimerSet, NEW g, Ticks(g, tm), NEW j \in Nat, NEW u, u = g[j]
    PROVE  \A i \in Nat : i < TargetDist(u) /\ i < OverflowDist(u)
                => u.counter + i \in Count /\ g[j + i] = At(u, u.counter + i)
<1>0. /\ u \in TimerSet /\ u.counter \in Nat /\ u.counter < Wrap /\ u.target \in Nat /\ u.target < Wrap
      /\ Wrap \in Nat /\ TargetDist(u) \in Nat /\ OverflowDist(u) \in Nat
  BY TicksStep, Dists, TimersAssumption DEF TimerSet, Count
<1> DEFINE T == {i \in Nat : i < TargetDist(u) /\ i < OverflowDist(u)
                   => u.counter + i \in Count /\ g[j + i] = At(u, u.counter + i)}
<1>1. 0 \in T
  <2>1. u.counter + 0 = u.counter /\ j + 0 = j /\ u.counter \in Count
    BY <1>0 DEF Count
  <2>2. At(u, u.counter) = u
    BY <1>0, <2>1, AtIs
  <2> QED BY <2>1, <2>2
<1>2. ASSUME NEW i \in Nat, i \in T PROVE i + 1 \in T
  <2> SUFFICES ASSUME i + 1 < TargetDist(u), i + 1 < OverflowDist(u)
               PROVE  u.counter + (i + 1) \in Count /\ g[j + (i + 1)] = At(u, u.counter + (i + 1))
    OBVIOUS
  <2>1. u.counter + i \in Count /\ g[j + i] = At(u, u.counter + i)
    BY <1>0, <1>2
  <2> DEFINE v == At(u, u.counter + i)
  <2>2. v \in TimerSet /\ v.counter = u.counter + i /\ v.target = u.target
        /\ \A m \in Count : At(v, m) = At(u, m)
    BY <1>0, <2>1, AtIs
  <2> HIDE DEF v
  <2>3. TargetDist(v) > 1 /\ OverflowDist(v) > 1
    BY <1>0, <2>2, Dists
  <2>4. v.counter + 1 \in Count /\ timer_tick_one(v) = At(v, v.counter + 1)
    BY <2>2, <2>3, QuietTick
  <2>5. v.counter + 1 = u.counter + (i + 1) /\ j + (i + 1) = (j + i) + 1 /\ j + i \in Nat
    BY <1>0, <2>2
  <2>6. g[(j + i) + 1] = timer_tick_one(g[j + i])
    BY <2>5, TicksStep
  <2> QED BY <2>1, <2>2, <2>4, <2>5, <2>6 DEF v
<1> HIDE DEF T
<1>3. \A i \in Nat : i \in T
  BY <1>1, <1>2, Induct
<1> QED BY <1>3 DEF T

\* One round of timer_advance_counts is as many ticks as it takes off.
LEMMA RoundIsTicks ==
    ASSUME NEW tm \in TimerSet, NEW g, Ticks(g, tm), NEW j \in Nat, NEW l \in Nat \ {0}
    PROVE  \E step \in 1..l :
               AdvanceRound([tm |-> g[j], left |-> l]) = [tm |-> g[j + step], left |-> l - step]
<1>0. PICK u : u = g[j]
  OBVIOUS
<1> DEFINE step == LowestOf({l, TargetDist(u), OverflowDist(u)})
           a == [u EXCEPT !.counter = (@ + step) % Wrap]
           b == IF step = TargetDist(u) THEN AtTarget(a) ELSE a
           c == IF step = OverflowDist(u) THEN AtOverflow(b) ELSE b
<1>1. /\ u \in TimerSet /\ u.counter \in Nat /\ u.counter < Wrap /\ u.target \in Nat /\ u.target < Wrap
      /\ Wrap \in Nat /\ TargetDist(u) \in Int /\ OverflowDist(u) \in Int /\ l \in Int
      /\ TargetDist(u) >= 1 /\ OverflowDist(u) >= 1 /\ l >= 1
  BY <1>0, TicksStep, Dists, TimersAssumption DEF TimerSet, Count
<1>2. AdvanceRound([tm |-> g[j], left |-> l]) = [tm |-> c, left |-> l - step]
  BY <1>0 DEF AdvanceRound
<1>3. step \in Int /\ step >= 1 /\ step <= l /\ step <= TargetDist(u) /\ step <= OverflowDist(u)
  BY <1>1, LowestOfThree
<1> HIDE DEF step
<1> DEFINE n == IF u.counter + step = Wrap THEN 0 ELSE u.counter + step
           p == At(u, u.counter + (step - 1))
<1>4. u.counter + step \in Nat /\ u.counter + step <= Wrap
  BY <1>1, <1>3, Dists
<1>5. n \in Count /\ (u.counter + step) % Wrap = n
  BY <1>1, <1>4, ModWrap DEF Count
<1>6. a = At(u, n)
  BY <1>5 DEF At
<1>7. step - 1 \in Nat /\ step - 1 < TargetDist(u) /\ step - 1 < OverflowDist(u)
  BY <1>1, <1>3
<1>8. u.counter + (step - 1) \in Count /\ g[j + (step - 1)] = p
  BY <1>0, <1>7, QuietTicks
<1>9. p \in TimerSet /\ p.counter = u.counter + (step - 1) /\ p.target = u.target
      /\ \A m \in Count : At(p, m) = At(u, m)
  BY <1>1, <1>8, AtIs
<1> HIDE DEF p
<1>10. g[j + step] = timer_tick_one(p)
  <2>1. j + (step - 1) \in Nat /\ (j + (step - 1)) + 1 = j + step
    BY <1>3, <1>7
  <2> QED BY <1>8, <2>1, TicksStep
<1>11. (p.counter = Wrap - 1) <=> (step = OverflowDist(u))
  BY <1>1, <1>3, <1>9, Dists
<1>12. n = IF p.counter = Wrap - 1 THEN 0 ELSE p.counter + 1
  BY <1>1, <1>3, <1>9
<1>13. (n = p.target) <=> (step = TargetDist(u))
  <2>1. TargetDist(u) = IF u.target > u.counter THEN u.target - u.counter
                        ELSE u.target - u.counter + Wrap
    BY <1>1, Dists
  <2> QED BY <1>1, <1>3, <1>4, <1>9, <2>1
<1> HIDE DEF n
<1>14. timer_tick_one(p) = c
  BY <1>5, <1>6, <1>9, <1>11, <1>12, <1>13, TickIs
<1> QED BY <1>2, <1>3, <1>10, <1>14

RoundSet == [tm : TimerSet, left : Nat]
RoundMap == [s \in RoundSet |-> AdvanceRound(s)]

\* A round keeps the types.
LEMMA RoundType ==
    ASSUME NEW s \in RoundSet
    PROVE  AdvanceRound(s) \in RoundSet /\ (s.left = 0 => AdvanceRound(s) = s)
<1>1. CASE s.left = 0
  BY <1>1 DEF AdvanceRound
<1>2. CASE s.left # 0
  <2>1. s.tm \in TimerSet /\ s.left \in Nat \ {0} /\ s = [tm |-> s.tm, left |-> s.left]
    BY <1>2 DEF RoundSet
  <2>2. PICK g : Ticks(g, s.tm)
    BY <2>1, TicksExist
  <2>3. g[0] = s.tm /\ \A i \in Nat : g[i] \in TimerSet
    BY <2>1, <2>2, TicksStep
  <2>4. PICK l \in Nat \ {0} : l = s.left
    BY <2>1
  <2>5. PICK u \in TimerSet, j \in Nat : u = s.tm /\ j = 0
    BY <2>1
  <2>6. PICK step \in 1..l :
           AdvanceRound([tm |-> g[j], left |-> l]) = [tm |-> g[j + step], left |-> l - step]
    BY <2>2, <2>5, RoundIsTicks
  <2>7. g[j + step] \in TimerSet /\ l - step \in Nat
    BY <2>3
  <2>8. AdvanceRound(s) = [tm |-> g[j + step], left |-> l - step]
    BY <2>1, <2>3, <2>4, <2>5, <2>6
  <2> QED BY <1>2, <2>7, <2>8 DEF RoundSet
<1> QED BY <1>1, <1>2

\* The rounds are what Iterate computes.
LEMMA RoundsIterate ==
    ASSUME NEW s \in RoundSet, NEW n \in Nat
    PROVE  \E h : Orbit(h, RoundMap, RoundSet, s) /\ Iterate(AdvanceRound, s, n) = h[n]
<1>1. RoundMap \in [RoundSet -> RoundSet]
  BY RoundType DEF RoundMap
<1>2. PICK h : Orbit(h, RoundMap, RoundSet, s)
  BY <1>1, OrbitExists
<1>3. /\ h[0] = s
      /\ \A i \in Nat : h[i] \in RoundSet /\ h[i + 1] = AdvanceRound(h[i])
  BY <1>2 DEF Orbit, RoundMap
<1> DEFINE Eq(f) == f = [i \in 0..n |-> IF i = 0 THEN s ELSE On(f[i - 1], AdvanceRound)]
           f == CHOOSE f : Eq(f)
           k == [i \in 0..n |-> h[i]]
<1>4. \A z : On(z, AdvanceRound) = AdvanceRound(z)
  BY DEF On
<1>5. ASSUME NEW i \in 0..n
      PROVE  k[i] = IF i = 0 THEN s ELSE On(k[i - 1], AdvanceRound)
  <2>1. CASE i = 0
    BY <1>3, <2>1
  <2>2. CASE i # 0
    <3>1. i - 1 \in Nat /\ i - 1 \in 0..n /\ (i - 1) + 1 = i
      BY <2>2
    <3>2. k[i] = AdvanceRound(k[i - 1])
      BY <1>3, <3>1
    <3> QED BY <1>4, <2>2, <3>2
  <2> QED BY <2>1, <2>2
<1>6. Eq(k)
  BY <1>5
<1>7. Eq(f)
  BY <1>6
<1> HIDE DEF k
<1>8. Iterate(AdvanceRound, s, n) = f[n]
  BY DEF Iterate
<1> HIDE DEF f
<1>9. f[0] = s
  BY <1>7
<1>10. ASSUME NEW i \in Nat, i < n PROVE f[i + 1] = AdvanceRound(f[i])
  <2>1. i + 1 \in 0..n /\ i + 1 # 0 /\ (i + 1) - 1 = i
    BY <1>10
  <2>2. f[i + 1] = On(f[i], AdvanceRound)
    BY <1>7, <2>1
  <2> QED BY <1>4, <2>2
<1>11. \A i \in Nat : i < n /\ f[i] = h[i] => f[i + 1] = RoundMap[h[i]]
  BY <1>3, <1>10 DEF RoundMap
<1>12. f[n] = h[n]
  BY <1>2, <1>9, <1>11, Follows
<1> QED BY <1>2, <1>8, <1>12

\* Counting in bulk ends where counting one by one does.
LEMMA BulkTicks ==
    ASSUME NEW tm \in TimerSet, NEW g, Ticks(g, tm), NEW n \in Nat
    PROVE  timer_advance_counts(tm, n) = g[n]
<1> DEFINE s == [tm |-> tm, left |-> n]
<1>1. s \in RoundSet
  BY DEF RoundSet
<1>2. PICK h : Orbit(h, RoundMap, RoundSet, s) /\ Iterate(AdvanceRound, s, n) = h[n]
  BY <1>1, RoundsIterate
<1>3. h[0] = s /\ \A i \in Nat : h[i] \in RoundSet /\ h[i + 1] = AdvanceRound(h[i])
  BY <1>2 DEF Orbit, RoundMap
<1> DEFINE T == {k \in Nat :
               \E l \in 0..n : h[k] = [tm |-> g[n - l], left |-> l] /\ (l = 0 \/ l + k <= n)}
<1>4. 0 \in T
  <2>1. h[0] = [tm |-> g[n - n], left |-> n] /\ n \in 0..n /\ n + 0 <= n
    BY <1>3, TicksStep
  <2> QED BY <2>1
<1>5. ASSUME NEW k \in Nat, k \in T PROVE k + 1 \in T
  <2>1. PICK l \in 0..n : h[k] = [tm |-> g[n - l], left |-> l] /\ (l = 0 \/ l + k <= n)
    BY <1>5
  <2>2. CASE l = 0
    <3>1. h[k].left = 0
      BY <2>1, <2>2
    <3>2. h[k + 1] = h[k]
      BY <1>3, <3>1, RoundType
    <3> QED BY <2>1, <2>2, <3>2
  <2>3. CASE l # 0
    <3>1. l \in Nat \ {0} /\ n - l \in Nat
      BY <2>3
    <3>2. PICK step \in 1..l : AdvanceRound([tm |-> g[n - l], left |-> l])
                                 = [tm |-> g[(n - l) + step], left |-> l - step]
      BY <3>1, RoundIsTicks
    <3>3. (n - l) + step = n - (l - step) /\ l - step \in 0..n
          /\ (l - step = 0 \/ (l - step) + (k + 1) <= n)
      BY <2>1, <3>1
    <3>4. h[k + 1] = [tm |-> g[n - (l - step)], left |-> l - step]
      BY <1>3, <2>1, <3>2, <3>3
    <3> QED BY <3>3, <3>4
  <2> QED BY <2>2, <2>3
<1> HIDE DEF T
<1>6. n \in T
  BY <1>4, <1>5, Induct
<1>7. PICK l \in 0..n : h[n] = [tm |-> g[n - l], left |-> l] /\ (l = 0 \/ l + n <= n)
  BY <1>6 DEF T
<1>8. l = 0 /\ n - l = n
  BY <1>7
<1>9. h[n].tm = g[n]
  BY <1>7, <1>8
<1> QED BY <1>2, <1>9 DEF timer_advance_counts

\* Bulk counting is counting, for every timer and every number of ticks.
LEMMA BulkIsIterate ==
    ASSUME NEW tm \in TimerSet, NEW n \in Nat
    PROVE  timer_advance_counts(tm, n) = Iterate(timer_tick_one, tm, n)
BY TicksExist, BulkTicks, TicksIterate

----------------------------------------------------------------------------
(* Charges to a timer add up. *)

\* Quotient and remainder are determined.
LEMMA DivModIs ==
    ASSUME NEW d \in Nat \ {0}, NEW q \in Nat, NEW r \in Nat, r < d, NEW x \in Nat, x = q * d + r
    PROVE  x \div d = q /\ x % d = r
OBVIOUS

\* Division with remainder.
LEMMA DivMod ==
    ASSUME NEW d \in Nat \ {0}, NEW x \in Nat
    PROVE  x \div d \in Nat /\ x % d \in Nat /\ x % d < d /\ x = (x \div d) * d + (x % d)
OBVIOUS

\* Dividing in two parts, the remainder of the first carried over.
LEMMA DivModAdds ==
    ASSUME NEW d \in Nat \ {0}, NEW x \in Nat, NEW y \in Nat
    PROVE  /\ (x + y) \div d = (x \div d) + (((x % d) + y) \div d)
           /\ (x + y) % d = ((x % d) + y) % d
<1> DEFINE p == x \div d
           r == x % d
           q == (r + y) \div d
           s == (r + y) % d
<1>1. p \in Nat /\ r \in Nat /\ r < d /\ x = p * d + r
  BY DivMod
<1> HIDE DEF p, r
<1>2. q \in Nat /\ s \in Nat /\ s < d /\ r + y = q * d + s
  BY <1>1, DivMod
<1> HIDE DEF q, s
<1>3. (p + q) * d = p * d + q * d /\ p + q \in Nat
  BY <1>1, <1>2
<1>4. p * d \in Nat /\ q * d \in Nat
  BY <1>1, <1>2
<1>5. x + y \in Nat /\ x + y = (p + q) * d + s
  BY <1>1, <1>2, <1>3, <1>4
<1>6. (x + y) \div d = p + q /\ (x + y) % d = s
  <2>1. PICK k \in Nat, v \in Nat : k = p + q /\ v = x + y
    BY <1>3
  <2>2. v = k * d + s
    BY <1>5, <2>1
  <2>3. v \div d = k /\ v % d = s
    BY <1>2, <2>2, DivModIs
  <2> QED BY <2>1, <2>3
<1> QED BY <1>6 DEF p, q, r, s

\* A timer with another fraction.
WithFrac(tm, f) == [tm EXCEPT !.frac = f]

\* Setting the fraction changes nothing else.
LEMMA WithFracIs ==
    ASSUME NEW tm \in TimerSet, NEW f \in Nat
    PROVE  /\ WithFrac(tm, f) \in TimerSet /\ WithFrac(tm, f).frac = f
           /\ WithFrac(tm, f).counter = tm.counter /\ WithFrac(tm, f).target = tm.target
           /\ WithFrac(tm, f).mode = tm.mode /\ WithFrac(tm, f).irq = tm.irq
           /\ \A e \in Nat : WithFrac(WithFrac(tm, f), e) = WithFrac(tm, e)
           /\ \A n \in Count : At(WithFrac(tm, f), n) = WithFrac(At(tm, n), f)
<1>1. /\ WithFrac(tm, f) \in TimerSet /\ WithFrac(tm, f).frac = f
      /\ WithFrac(tm, f).counter = tm.counter /\ WithFrac(tm, f).target = tm.target
      /\ WithFrac(tm, f).mode = tm.mode /\ WithFrac(tm, f).irq = tm.irq
  BY DEF WithFrac, TimerSet
<1>2. \A e \in Nat : WithFrac(WithFrac(tm, f), e) = WithFrac(tm, e)
  BY DEF WithFrac, TimerSet
<1>3. \A n \in Count : At(WithFrac(tm, f), n) = WithFrac(At(tm, n), f)
  BY DEF WithFrac, At, TimerSet
<1> QED BY <1>1, <1>2, <1>3

\* The fields that firing writes.
Line(tm) == IF tm.mode.toggle THEN ~ tm.line ELSE tm.line
Raised(tm) == tm.irq \/ (tm.mode.toggle => Line(tm))
Requested(tm) == tm.mode.toggle => ~ Line(tm)
Disarmed(m) == [m EXCEPT !.irqTarget = @ /\ m.repeat, !.irqOverflow = @ /\ m.repeat]

\* Firing as one update.
LEMMA FireIs ==
    ASSUME NEW tm \in TimerSet
    PROVE  timer_fire_irq(tm) = [tm EXCEPT !.line = Line(tm), !.irq = Raised(tm),
                                           !.request = Requested(tm), !.mode = Disarmed(tm.mode)]
BY DEF timer_fire_irq, TimerSet, Mode, Line, Raised, Requested, Disarmed

\* Firing does not look at the fraction.
LEMMA FireWithFrac ==
    ASSUME NEW tm \in TimerSet, NEW f \in Nat
    PROVE  timer_fire_irq(WithFrac(tm, f)) = WithFrac(timer_fire_irq(tm), f)
<1> DEFINE w == WithFrac(tm, f)
<1>1. w \in TimerSet /\ w.mode = tm.mode
  BY WithFracIs
<1>2. w.line = tm.line /\ w.irq = tm.irq
  BY DEF WithFrac, TimerSet
<1> HIDE DEF w
<1>3. Line(w) = Line(tm) /\ Raised(w) = Raised(tm) /\ Requested(w) = Requested(tm)
  BY <1>1, <1>2 DEF Line, Raised, Requested
<1>4. timer_fire_irq(w) = [w EXCEPT !.line = Line(tm), !.irq = Raised(tm),
                                    !.request = Requested(tm), !.mode = Disarmed(tm.mode)]
  BY <1>1, <1>3, FireIs
<1>5. PICK a, b, c, m : a = Line(tm) /\ b = Raised(tm) /\ c = Requested(tm) /\ m = Disarmed(tm.mode)
  BY Zenon
<1>6. timer_fire_irq(w) = [w EXCEPT !.line = a, !.irq = b, !.request = c, !.mode = m]
  BY <1>4, <1>5
<1>7. timer_fire_irq(tm) = [tm EXCEPT !.line = a, !.irq = b, !.request = c, !.mode = m]
  BY <1>5, FireIs
<1>8. [w EXCEPT !.line = a, !.irq = b, !.request = c, !.mode = m]
        = WithFrac([tm EXCEPT !.line = a, !.irq = b, !.request = c, !.mode = m], f)
  BY DEF w, WithFrac, TimerSet
<1>9. timer_fire_irq(w) = WithFrac(timer_fire_irq(tm), f)
  BY <1>6, <1>7, <1>8, Zenon
<1> QED BY <1>9 DEF w

\* Nor does reaching the target or the wrap.
LEMMA EventsWithFrac ==
    ASSUME NEW tm \in TimerSet, NEW f \in Nat
    PROVE  /\ AtTarget(WithFrac(tm, f)) = WithFrac(AtTarget(tm), f)
           /\ AtOverflow(WithFrac(tm, f)) = WithFrac(AtOverflow(tm), f)
<1> DEFINE w == WithFrac(tm, f)
           Hit(u) == [u EXCEPT !.targetFlag = TRUE]
           Wrapped(u) == [u EXCEPT !.overflowFlag = TRUE]
           Fired(u) == IF u.mode.irqTarget THEN timer_fire_irq(u) ELSE u
           Reset(u) == IF u.mode.reset THEN [u EXCEPT !.counter = 0] ELSE u
<1>1. \A u \in TimerSet : /\ Hit(u) \in TimerSet /\ Wrapped(u) \in TimerSet
                          /\ Hit(WithFrac(u, f)) = WithFrac(Hit(u), f)
                          /\ Wrapped(WithFrac(u, f)) = WithFrac(Wrapped(u), f)
  BY DEF WithFrac, TimerSet
<1>2. \A u \in TimerSet : WithFrac(u, f).mode = u.mode
  BY WithFracIs
<1>3. \A u \in TimerSet : /\ timer_fire_irq(u) \in TimerSet
                          /\ timer_fire_irq(WithFrac(u, f)) = WithFrac(timer_fire_irq(u), f)
  BY FireWithFrac, FireCounted DEF Counted
<1>4. \A u \in TimerSet : Fired(u) \in TimerSet /\ Fired(WithFrac(u, f)) = WithFrac(Fired(u), f)
  BY <1>2, <1>3
<1>5. \A u \in TimerSet : Reset(WithFrac(u, f)) = WithFrac(Reset(u), f)
  BY <1>2 DEF WithFrac, TimerSet
<1>6. \A u : AtTarget(u) = Reset(Fired(Hit(u)))
  BY DEF AtTarget
<1>7. \A u : AtOverflow(u) = LET a == Wrapped(u) IN IF a.mode.irqOverflow THEN timer_fire_irq(a) ELSE a
  BY DEF AtOverflow
<1> HIDE DEF Hit, Fired, Reset, Wrapped
<1>8. AtTarget(WithFrac(tm, f)) = WithFrac(AtTarget(tm), f)
  BY <1>1, <1>4, <1>5, <1>6
<1>9. AtOverflow(WithFrac(tm, f)) = WithFrac(AtOverflow(tm), f)
  BY <1>1, <1>2, <1>3, <1>7
<1> QED BY <1>8, <1>9

\* Nor does a tick.
LEMMA TickWithFrac ==
    ASSUME NEW tm \in TimerSet, NEW f \in Nat
    PROVE  timer_tick_one(WithFrac(tm, f)) = WithFrac(timer_tick_one(tm), f)
<1> DEFINE w == WithFrac(tm, f)
           n == IF tm.counter = Wrap - 1 THEN 0 ELSE tm.counter + 1
           B(u) == IF n = tm.target THEN AtTarget(At(u, n)) ELSE At(u, n)
<1>1. n \in Count /\ timer_tick_one(tm) = IF tm.counter = Wrap - 1 THEN AtOverflow(B(tm)) ELSE B(tm)
  BY TickIs
<1>2. w \in TimerSet /\ w.counter = tm.counter /\ w.target = tm.target
  BY WithFracIs
<1>3. timer_tick_one(w) = IF tm.counter = Wrap - 1 THEN AtOverflow(B(w)) ELSE B(w)
  BY <1>2, TickIs
<1> HIDE DEF n
<1>4. At(w, n) = WithFrac(At(tm, n), f) /\ At(tm, n) \in TimerSet
  BY <1>1, WithFracIs, AtIs
<1>5. B(w) = WithFrac(B(tm), f) /\ B(tm) \in TimerSet
  BY <1>4, EventsWithFrac, AtTargetCounted DEF Counted
<1> HIDE DEF B
<1>6. AtOverflow(B(w)) = WithFrac(AtOverflow(B(tm)), f)
  BY <1>5, EventsWithFrac
<1> QED BY <1>1, <1>3, <1>5, <1>6

\* The ticks of a timer with another fraction.
LEMMA TicksWithFrac ==
    ASSUME NEW tm \in TimerSet, NEW g, Ticks(g, tm), NEW f \in Nat
    PROVE  Ticks([i \in Nat |-> WithFrac(g[i], f)], WithFrac(tm, f))
<1> DEFINE k == [i \in Nat |-> WithFrac(g[i], f)]
<1>1. g[0] = tm /\ \A i \in Nat : g[i] \in TimerSet /\ g[i + 1] = timer_tick_one(g[i])
  BY TicksStep
<1>2. \A i \in Nat : WithFrac(g[i], f) \in TimerSet
  BY <1>1, WithFracIs
<1>3. k \in [Nat -> TimerSet] /\ k[0] = WithFrac(tm, f)
  BY <1>1, <1>2
<1>4. ASSUME NEW i \in Nat PROVE k[i + 1] = TickMap[k[i]]
  <2>1. timer_tick_one(WithFrac(g[i], f)) = WithFrac(g[i + 1], f)
    BY <1>1, TickWithFrac
  <2>2. TickMap[k[i]] = timer_tick_one(k[i])
    BY <1>3 DEF TickMap
  <2> QED BY <2>1, <2>2
<1> QED BY <1>3, <1>4 DEF Ticks, Orbit

\* The ticks from a later point on.
LEMMA TicksShift ==
    ASSUME NEW tm \in TimerSet, NEW g, Ticks(g, tm), NEW n \in Nat
    PROVE  Ticks([i \in Nat |-> g[n + i]], g[n])
<1> DEFINE k == [i \in Nat |-> g[n + i]]
<1>1. \A i \in Nat : g[i] \in TimerSet /\ g[i + 1] = timer_tick_one(g[i])
  BY TicksStep
<1>2. k \in [Nat -> TimerSet] /\ k[0] = g[n]
  BY <1>1
<1>3. ASSUME NEW i \in Nat PROVE k[i + 1] = TickMap[k[i]]
  <2>1. n + i \in Nat /\ n + (i + 1) = (n + i) + 1
    OBVIOUS
  <2>2. g[n + (i + 1)] = timer_tick_one(g[n + i])
    BY <1>1, <2>1
  <2> QED BY <1>2, <2>2 DEF TickMap
<1> QED BY <1>2, <1>3 DEF Ticks, Orbit

\* What counting keeps, any number of ticks keeps.
LEMMA TicksCounted ==
    ASSUME NEW tm \in TimerSet, NEW g, Ticks(g, tm)
    PROVE  \A i \in Nat : Counted(tm, g[i])
<1> DEFINE T == {i \in Nat : Counted(tm, g[i])}
<1>1. 0 \in T
  BY TicksStep DEF Counted
<1>2. ASSUME NEW i \in Nat, i \in T PROVE i + 1 \in T
  <2>1. Counted(g[i], g[i + 1])
    BY TicksStep, TickCounted
  <2>2. Counted(tm, g[i])
    BY <1>2
  <2> QED BY <2>1, <2>2 DEF Counted
<1> HIDE DEF T
<1>3. \A i \in Nat : i \in T
  BY <1>1, <1>2, Induct
<1> QED BY <1>3 DEF T

\* A charge to a timer: whole counts, and a fraction that is carried over.
LEMMA AdvanceIs ==
    ASSUME NEW t \in Timers, NEW tm \in TimerSet, NEW g, Ticks(g, tm), NEW c \in Nat,
           NEW d, d = timer_divisor(t, tm)
    PROVE  /\ d \in Nat \ {0}
           /\ (tm.frac + c) \div d \in Nat /\ (tm.frac + c) % d \in Nat /\ (tm.frac + c) % d < d
           /\ timers_advance(t, tm, c) = WithFrac(g[(tm.frac + c) \div d], (tm.frac + c) % d)
<1>1. d \in Nat \ {0} /\ tm.frac \in Nat
  BY TimersAssumption DEF timer_divisor, TimerSet
<1> DEFINE x == tm.frac + c
           n == x \div d
           f == x % d
<1>2. x \in Nat /\ n \in Nat /\ f \in Nat /\ f < d
  BY <1>1, DivMod
<1>3. timers_advance(t, tm, c) = timer_advance_counts(WithFrac(tm, f), n)
  BY DEF timers_advance, WithFrac
<1> HIDE DEF n, f
<1>4. WithFrac(tm, f) \in TimerSet
  BY <1>2, WithFracIs
<1>5. Ticks([i \in Nat |-> WithFrac(g[i], f)], WithFrac(tm, f))
  BY <1>2, TicksWithFrac
<1>6. timer_advance_counts(WithFrac(tm, f), n) = WithFrac(g[n], f)
  BY <1>2, <1>4, <1>5, BulkTicks
<1> QED BY <1>1, <1>2, <1>3, <1>6 DEF n, f

\* The fraction stays below the divisor, which a charge does not change.
FracOK(t, tm) == tm.frac < timer_divisor(t, tm)

\* A charge keeps the types.
LEMMA AdvanceType ==
    ASSUME NEW t \in Timers, NEW tm \in TimerSet, NEW c \in Nat
    PROVE  /\ timers_advance(t, tm, c) \in TimerSet
           /\ FracOK(t, timers_advance(t, tm, c))
           /\ timer_divisor(t, timers_advance(t, tm, c)) = timer_divisor(t, tm)
<1>1. PICK g : Ticks(g, tm)
  BY TicksExist
<1>2. PICK d : d = timer_divisor(t, tm)
  OBVIOUS
<1> DEFINE n == (tm.frac + c) \div d
           f == (tm.frac + c) % d
           r == timers_advance(t, tm, c)
<1>3. n \in Nat /\ f \in Nat /\ f < d /\ r = WithFrac(g[n], f)
  BY <1>1, <1>2, AdvanceIs
<1> HIDE DEF n, f, r
<1>4. g[n] \in TimerSet /\ g[n].mode.div = tm.mode.div
  BY <1>1, <1>3, TicksCounted DEF Counted
<1>5. r \in TimerSet /\ r.frac = f /\ r.mode = g[n].mode
  BY <1>3, <1>4, WithFracIs
<1>6. timer_divisor(t, r) = d
  BY <1>2, <1>4, <1>5 DEF timer_divisor
<1> QED BY <1>2, <1>3, <1>5, <1>6 DEF FracOK, r

\* Two charges are one.
LEMMA AdvanceAdds ==
    ASSUME NEW t \in Timers, NEW tm \in TimerSet, NEW a \in Nat, NEW b \in Nat
    PROVE  timers_advance(t, timers_advance(t, tm, a), b) = timers_advance(t, tm, a + b)
<1>1. PICK g : Ticks(g, tm)
  BY TicksExist
<1>2. PICK d : d = timer_divisor(t, tm)
  OBVIOUS
<1>3. PICK x \in Nat : x = tm.frac
  BY DEF TimerSet
<1> DEFINE n == (x + a) \div d
           f == (x + a) % d
           r == timers_advance(t, tm, a)
           m == (f + b) \div d
           e == (f + b) % d
<1>4. d \in Nat \ {0} /\ n \in Nat /\ f \in Nat /\ f < d /\ r = WithFrac(g[n], f)
  BY <1>1, <1>2, <1>3, AdvanceIs
<1>5. r \in TimerSet /\ timer_divisor(t, r) = d
  BY <1>2, AdvanceType
<1> HIDE DEF n, r
<1>6. g[n] \in TimerSet
  BY <1>1, <1>4, TicksStep
<1> DEFINE k == [i \in Nat |-> g[n + i]]
           w == [i \in Nat |-> WithFrac(k[i], f)]
<1>7. Ticks(k, g[n])
  BY <1>1, <1>4, TicksShift
<1> HIDE DEF k, f
<1>8. Ticks(w, r)
  BY <1>4, <1>6, <1>7, TicksWithFrac
<1>9. r.frac = f
  BY <1>4, <1>6, WithFracIs
<1>10. m \in Nat /\ e \in Nat /\ timers_advance(t, r, b) = WithFrac(w[m], e)
  BY <1>5, <1>8, <1>9, AdvanceIs
<1> HIDE DEF m, e
<1>11. g[n + m] \in TimerSet /\ w[m] = WithFrac(g[n + m], f)
  BY <1>1, <1>4, <1>10, TicksStep DEF k
<1>12. WithFrac(w[m], e) = WithFrac(g[n + m], e)
  BY <1>4, <1>10, <1>11, WithFracIs
<1>13. timers_advance(t, tm, a + b) = WithFrac(g[(x + (a + b)) \div d], (x + (a + b)) % d)
  BY <1>1, <1>2, <1>3, AdvanceIs
<1>14. PICK y \in Nat : y = x + a /\ x + (a + b) = y + b
  OBVIOUS
<1>15. (y + b) \div d = n + m /\ (y + b) % d = e
  <2>1. n = y \div d /\ f = y % d
    BY <1>14 DEF n, f
  <2>2. m = ((y % d) + b) \div d /\ e = ((y % d) + b) % d
    BY <2>1 DEF m, e
  <2>3. (y + b) \div d = (y \div d) + (((y % d) + b) \div d) /\ (y + b) % d = ((y % d) + b) % d
    BY <1>4, DivModAdds
  <2> QED BY <2>1, <2>2, <2>3
<1> QED BY <1>10, <1>12, <1>13, <1>14, <1>15 DEF r

----------------------------------------------------------------------------
(* The devices: charges add up. *)

DevSet == [tm : [Timers -> TimerSet], since : Nat, vblank : BOOLEAN]
DevOK(d) == d \in DevSet /\ \A t \in Timers : FracOK(t, d.tm[t])

\* No VBlank is waiting to be serviced.
Ready(d, e) == DevOK(d) /\ (e \/ d.since < VBLANK_CYCLES)

TimersAfter(d, c) == [t \in Timers |-> timers_advance(t, d.tm[t], c)]
Due(d, c, e) == ~ e /\ d.since + c >= VBLANK_CYCLES
SinceAfter(d, c, e) == IF Due(d, c, e) THEN (d.since + c) % VBLANK_CYCLES ELSE d.since + c
VBlankAfter(d, c, e) == IF Due(d, c, e) THEN TRUE ELSE d.vblank

\* The timers after two charges, and after none.
LEMMA TimersAdd ==
    ASSUME NEW d, DevOK(d), NEW a \in Nat, NEW b \in Nat
    PROVE  /\ TimersAfter(d, a) \in [Timers -> TimerSet]
           /\ \A t \in Timers : FracOK(t, TimersAfter(d, a)[t])
           /\ \A r : r.tm = TimersAfter(d, a) => TimersAfter(r, b) = TimersAfter(d, a + b)
<1>1. \A t \in Timers : d.tm[t] \in TimerSet
  BY DEF DevOK, DevSet
<1>2. \A t \in Timers : timers_advance(t, d.tm[t], a) \in TimerSet /\ FracOK(t, timers_advance(t, d.tm[t], a))
  BY <1>1, AdvanceType
<1>3. \A t \in Timers : timers_advance(t, timers_advance(t, d.tm[t], a), b)
                          = timers_advance(t, d.tm[t], a + b)
  BY <1>1, AdvanceAdds
<1> QED BY <1>2, <1>3 DEF TimersAfter

\* A charge of nothing changes nothing.
LEMMA TimersSame ==
    ASSUME NEW d, DevOK(d)
    PROVE  TimersAfter(d, 0) = d.tm
<1>1. d.tm \in [Timers -> TimerSet]
  BY DEF DevOK, DevSet
<1>2. ASSUME NEW t \in Timers PROVE timers_advance(t, d.tm[t], 0) = d.tm[t]
  <2>1. PICK u \in TimerSet : u = d.tm[t]
    BY <1>1
  <2>2. PICK g : Ticks(g, u)
    BY TicksExist
  <2>3. PICK v : v = timer_divisor(t, u)
    OBVIOUS
  <2>4. PICK z \in Nat, x \in Nat : z = 0 /\ x = u.frac
    BY DEF TimerSet
  <2>5. v \in Nat \ {0} /\ timers_advance(t, u, z) = WithFrac(g[(u.frac + z) \div v], (u.frac + z) % v)
    BY <2>2, <2>3, AdvanceIs
  <2>6. x < v
    BY <2>1, <2>3, <2>4 DEF DevOK, FracOK
  <2>7. x \div v = z /\ x % v = x
    <3>1. x = z * v + x
      BY <2>4, <2>5
    <3> QED BY <2>4, <2>5, <2>6, <3>1, DivModIs
  <2>8. u.frac + z = x
    BY <2>4
  <2>9. timers_advance(t, u, z) = WithFrac(g[0], u.frac)
    BY <2>4, <2>5, <2>7, <2>8
  <2>10. WithFrac(u, u.frac) = u
    BY DEF WithFrac, TimerSet
  <2> QED BY <2>1, <2>2, <2>4, <2>9, <2>10, TicksStep
<1> QED BY <1>1, <1>2 DEF TimersAfter

\* The devices as a record.
LEMMA DevIs ==
    ASSUME NEW d \in DevSet
    PROVE  d = [tm |-> d.tm, since |-> d.since, vblank |-> d.vblank]
BY DEF DevSet

\* With two fields written.
LEMMA WriteTwo ==
    ASSUME NEW d \in DevSet, NEW T \in [Timers -> TimerSet], NEW x \in Nat, NEW v \in BOOLEAN
    PROVE  /\ [d EXCEPT !.tm = T, !.since = x] = [tm |-> T, since |-> x, vblank |-> d.vblank]
           /\ [d EXCEPT !.since = x, !.vblank = v] = [tm |-> d.tm, since |-> x, vblank |-> v]
<1> DEFINE p == [d EXCEPT !.tm = T, !.since = x]
           q == [d EXCEPT !.since = x, !.vblank = v]
<1>1. p \in DevSet /\ p.tm = T /\ p.since = x /\ p.vblank = d.vblank
  BY DEF DevSet
<1>2. q \in DevSet /\ q.tm = d.tm /\ q.since = x /\ q.vblank = v
  BY DEF DevSet
<1> HIDE DEF p, q
<1>3. p = [tm |-> p.tm, since |-> p.since, vblank |-> p.vblank]
      /\ q = [tm |-> q.tm, since |-> q.since, vblank |-> q.vblank]
  BY <1>1, <1>2, DevIs
<1>4. p = [tm |-> T, since |-> x, vblank |-> d.vblank] /\ q = [tm |-> d.tm, since |-> x, vblank |-> v]
  BY <1>1, <1>2, <1>3, Zenon
<1> QED BY <1>4 DEF p, q

\* The devices after a charge, field by field.
LEMMA AdvanceDevicesIs ==
    ASSUME NEW d, DevOK(d), NEW c \in Nat, NEW e \in BOOLEAN
    PROVE  advance_devices(d, c, e) =
               [tm |-> TimersAfter(d, c), since |-> SinceAfter(d, c, e), vblank |-> VBlankAfter(d, c, e)]
<1> DEFINE T == TimersAfter(d, c)
           x == d.since + c
           a == [d EXCEPT !.tm = T, !.since = x]
<1>1. advance_devices(d, c, e) = interrupts_service_scheduled_events(a, e)
  BY DEF advance_devices, TimersAfter
<1>2. x \in Nat /\ VBLANK_CYCLES \in Nat \ {0} /\ d \in DevSet /\ d.vblank \in BOOLEAN
  BY DevicesAssumption DEF DevOK, DevSet
<1>3. T \in [Timers -> TimerSet]
  BY TimersAdd
<1> HIDE DEF T, x
<1>4. a = [tm |-> T, since |-> x, vblank |-> d.vblank]
  BY <1>2, <1>3, WriteTwo, Zenon
<1>5. a.since = x /\ a \in DevSet /\ a.tm = T /\ a.vblank = d.vblank
  BY <1>2, <1>3, <1>4 DEF DevSet
<1> HIDE DEF a
<1>6. CASE Due(d, c, e)
  <2>1. ~ e /\ ~ (x < VBLANK_CYCLES)
    BY <1>2, <1>6 DEF Due, x
  <2>2. PICK y \in Nat : y = x % VBLANK_CYCLES
    BY <1>2, DivMod
  <2> DEFINE v == TRUE
  <2>6. v \in BOOLEAN
    OBVIOUS
  <2>3. interrupts_service_scheduled_events(a, e) = [a EXCEPT !.since = y, !.vblank = v]
    BY <1>5, <2>1, <2>2 DEF interrupts_service_scheduled_events
  <2>5. y = SinceAfter(d, c, e) /\ v = VBlankAfter(d, c, e)
    BY <1>6, <2>2, Zenon DEF SinceAfter, VBlankAfter, x
  <2> HIDE DEF v
  <2>4. [a EXCEPT !.since = y, !.vblank = v] = [tm |-> a.tm, since |-> y, vblank |-> v]
    BY <1>3, <1>5, <2>6, WriteTwo, Zenon
  <2> QED BY <1>1, <1>5, <2>3, <2>4, <2>5, Zenon DEF T
<1>7. CASE ~ Due(d, c, e)
  <2>1. interrupts_service_scheduled_events(a, e) = a
    BY <1>2, <1>5, <1>7 DEF interrupts_service_scheduled_events, Due, x
  <2>2. x = SinceAfter(d, c, e) /\ d.vblank = VBlankAfter(d, c, e)
    BY <1>7, Zenon DEF SinceAfter, VBlankAfter, x
  <2> QED BY <1>1, <1>4, <2>1, <2>2, Zenon DEF T
<1> QED BY <1>6, <1>7

\* The fields of the result, its type, and no VBlank left waiting.
LEMMA AdvanceDevicesOK ==
    ASSUME NEW d, DevOK(d), NEW c \in Nat, NEW e \in BOOLEAN, NEW r, r = advance_devices(d, c, e)
    PROVE  /\ Ready(r, e)
           /\ r.tm = TimersAfter(d, c)
           /\ r.since = SinceAfter(d, c, e)
           /\ r.vblank = VBlankAfter(d, c, e)
<1>1. r = [tm |-> TimersAfter(d, c), since |-> SinceAfter(d, c, e), vblank |-> VBlankAfter(d, c, e)]
  BY AdvanceDevicesIs
<1>2. d.since \in Nat /\ VBLANK_CYCLES \in Nat \ {0} /\ d.vblank \in BOOLEAN
  BY DevicesAssumption DEF DevOK, DevSet
<1>3. SinceAfter(d, c, e) \in Nat /\ (e \/ SinceAfter(d, c, e) < VBLANK_CYCLES)
  <2>1. PICK x \in Nat : x = d.since + c
    BY <1>2
  <2>2. x % VBLANK_CYCLES \in Nat /\ x % VBLANK_CYCLES < VBLANK_CYCLES
    BY <1>2, DivMod
  <2>3. CASE Due(d, c, e)
    BY <2>1, <2>2, <2>3 DEF SinceAfter
  <2>4. CASE ~ Due(d, c, e)
    BY <1>2, <2>1, <2>4 DEF Due, SinceAfter
  <2> QED BY <2>3, <2>4
<1>4. VBlankAfter(d, c, e) \in BOOLEAN
  BY <1>2, Zenon DEF VBlankAfter
<1>5. TimersAfter(d, c) \in [Timers -> TimerSet] /\ \A t \in Timers : FracOK(t, TimersAfter(d, c)[t])
  BY TimersAdd
<1>6. r \in DevSet /\ r.tm = TimersAfter(d, c) /\ r.since = SinceAfter(d, c, e)
      /\ r.vblank = VBlankAfter(d, c, e)
  BY <1>1, <1>3, <1>4, <1>5 DEF DevSet
<1> QED BY <1>3, <1>5, <1>6 DEF Ready, DevOK

\* Two charges are one, and a charge of nothing is none.
LEMMA DevicesAdd ==
    ASSUME NEW e \in BOOLEAN, NEW d, Ready(d, e), NEW a \in Nat, NEW b \in Nat
    PROVE  advance_devices(advance_devices(d, a, e), b, e) = advance_devices(d, a + b, e)
<1>0. DevOK(d) /\ d.since \in Nat /\ VBLANK_CYCLES \in Nat \ {0} /\ (e \/ d.since < VBLANK_CYCLES)
  BY DevicesAssumption DEF Ready, DevOK, DevSet
<1>1. PICK r : r = advance_devices(d, a, e)
  OBVIOUS
<1>10. PICK q \in Nat : q = a + b
  OBVIOUS
<1>2. /\ Ready(r, e)
      /\ r.tm = TimersAfter(d, a)
      /\ r.since = SinceAfter(d, a, e)
      /\ r.vblank = VBlankAfter(d, a, e)
  BY <1>0, <1>1, AdvanceDevicesOK
<1>3. DevOK(r) /\ r.since \in Nat
  BY <1>2 DEF Ready, DevOK, DevSet
<1>4. TimersAfter(r, b) = TimersAfter(d, q)
  BY <1>0, <1>2, <1>10, TimersAdd
<1>5. advance_devices(r, b, e) =
        [tm |-> TimersAfter(r, b), since |-> SinceAfter(r, b, e), vblank |-> VBlankAfter(r, b, e)]
  BY <1>3, AdvanceDevicesIs
<1>6. advance_devices(d, q, e) =
        [tm |-> TimersAfter(d, q), since |-> SinceAfter(d, q, e), vblank |-> VBlankAfter(d, q, e)]
  BY <1>0, AdvanceDevicesIs
<1>7. PICK x \in Nat, V \in Nat \ {0} :
         x = d.since + a /\ V = VBLANK_CYCLES /\ d.since + q = x + b
  BY <1>0, <1>10
<1>8. x % V \in Nat /\ x % V < V /\ (x + b) % V = ((x % V) + b) % V
  BY DivMod, DivModAdds
<1>9. SinceAfter(r, b, e) = SinceAfter(d, q, e) /\ VBlankAfter(r, b, e) = VBlankAfter(d, q, e)
  <2>1. CASE Due(d, a, e)
    <3>1. ~ e /\ x >= V /\ r.since = x % V
      BY <1>2, <1>7, <2>1 DEF Due, SinceAfter
    <3>2. r.vblank = TRUE
      BY <1>2, <2>1, Zenon DEF VBlankAfter
    <3>3. Due(d, q, e)
      BY <1>7, <3>1 DEF Due
    <3>4. SinceAfter(d, q, e) = (x + b) % V
      BY <1>7, <3>3 DEF SinceAfter
    <3>5. VBlankAfter(r, b, e) = VBlankAfter(d, q, e)
      BY <3>2, <3>3, Zenon DEF VBlankAfter
    <3>6. CASE Due(r, b, e)
      BY <1>7, <1>8, <3>1, <3>4, <3>5, <3>6 DEF SinceAfter
    <3>7. CASE ~ Due(r, b, e)
      <4>1. (x % V) + b < V /\ (x % V) + b \in Nat
        BY <1>7, <1>8, <3>1, <3>7 DEF Due
      <4>2. ((x % V) + b) % V = (x % V) + b
        BY <4>1
      <4> QED BY <1>7, <1>8, <3>1, <3>4, <3>5, <3>7, <4>2 DEF SinceAfter
    <3> QED BY <3>6, <3>7
  <2>2. CASE ~ Due(d, a, e)
    <3>1. r.since = x
      BY <1>2, <1>7, <2>2 DEF SinceAfter
    <3>2. r.vblank = d.vblank
      BY <1>2, <2>2, Zenon DEF VBlankAfter
    <3>3. r.since + b = d.since + q
      BY <1>7, <3>1
    <3>4. Due(r, b, e) <=> Due(d, q, e)
      BY <3>3 DEF Due
    <3>5. VBlankAfter(r, b, e) = VBlankAfter(d, q, e)
      BY <3>2, <3>4, Zenon DEF VBlankAfter
    <3> QED BY <3>3, <3>4, <3>5 DEF SinceAfter
  <2> QED BY <2>1, <2>2
<1> QED BY <1>1, <1>4, <1>5, <1>6, <1>9, <1>10

\* A charge of nothing is none.
LEMMA DevicesSame ==
    ASSUME NEW e \in BOOLEAN, NEW d, Ready(d, e), NEW z \in Nat, z = 0
    PROVE  advance_devices(d, z, e) = d
<1>0. DevOK(d) /\ d \in DevSet /\ d.since \in Nat /\ VBLANK_CYCLES \in Nat \ {0}
      /\ (e \/ d.since < VBLANK_CYCLES)
  BY DevicesAssumption DEF Ready, DevOK, DevSet
<1>1. ~ Due(d, z, e) /\ d.since + z = d.since
  BY <1>0 DEF Due
<1>2. SinceAfter(d, z, e) = d.since /\ VBlankAfter(d, z, e) = d.vblank
  BY <1>1, Zenon DEF SinceAfter, VBlankAfter
<1>3. TimersAfter(d, z) = d.tm
  BY <1>0, TimersSame
<1>4. advance_devices(d, z, e) =
        [tm |-> TimersAfter(d, z), since |-> SinceAfter(d, z, e), vblank |-> VBlankAfter(d, z, e)]
  BY <1>0, AdvanceDevicesIs
<1>5. d = [tm |-> d.tm, since |-> d.since, vblank |-> d.vblank]
  BY <1>0 DEF DevSet
<1> QED BY <1>2, <1>3, <1>4, <1>5, Zenon

----------------------------------------------------------------------------
(* However a charge is cut into chunks, the devices end up the same. *)

ReadySet(e) == {d \in DevSet : Ready(d, e)}
ChunkSet(e) == [d : ReadySet(e), left : Nat]

\* A round takes some of what is left and charges it to the devices.
Chunk(s, r, e) ==
    IF s.left = 0 THEN r = s
    ELSE \E step \in 1..(s.left) :
             r = [d |-> advance_devices(s.d, step, e), left |-> s.left - step]

\* Such a round keeps the types.
LEMMA ChunkType ==
    ASSUME NEW e \in BOOLEAN, NEW s \in ChunkSet(e), NEW r, Chunk(s, r, e)
    PROVE  r \in ChunkSet(e)
<1>1. s.d \in DevSet /\ Ready(s.d, e) /\ s.left \in Nat
  BY DEF ChunkSet, ReadySet
<1>2. CASE s.left = 0
  BY <1>2 DEF Chunk
<1>3. CASE s.left # 0
  <2>1. PICK step \in 1..(s.left) : r = [d |-> advance_devices(s.d, step, e), left |-> s.left - step]
    BY <1>3 DEF Chunk
  <2>2. step \in Nat /\ s.left - step \in Nat /\ DevOK(s.d)
    BY <1>1 DEF Ready
  <2>3. PICK q : q = advance_devices(s.d, step, e)
    OBVIOUS
  <2>4. Ready(q, e)
    BY <2>2, <2>3, AdvanceDevicesOK
  <2>5. q \in ReadySet(e)
    BY <2>4 DEF Ready, DevOK, ReadySet
  <2> QED BY <2>1, <2>2, <2>3, <2>5 DEF ChunkSet
<1> QED BY <1>2, <1>3

\* Rounds until nothing is left charge everything.
LEMMA ChunksAdd ==
    ASSUME NEW e \in BOOLEAN, NEW d, Ready(d, e), NEW c \in Nat, NEW h,
           h[0] = [d |-> d, left |-> c], \A i \in Nat : Chunk(h[i], h[i + 1], e)
    PROVE  h[c].d = advance_devices(d, c, e)
<1> DEFINE T == {k \in Nat : \E l \in 0..c : /\ h[k] = [d |-> advance_devices(d, c - l, e), left |-> l]
                                              /\ (l = 0 \/ l + k <= c)}
<1>1. 0 \in T
  <2>1. PICK z \in Nat : z = 0 /\ c - c = z /\ c + 0 <= c /\ c \in 0..c
    OBVIOUS
  <2>2. advance_devices(d, z, e) = d
    BY <2>1, DevicesSame
  <2>3. h[0] = [d |-> advance_devices(d, c - c, e), left |-> c]
    BY <2>1, <2>2
  <2> QED BY <2>1, <2>3
<1>2. ASSUME NEW k \in Nat, k \in T PROVE k + 1 \in T
  <2>1. PICK l \in 0..c : h[k] = [d |-> advance_devices(d, c - l, e), left |-> l]
                          /\ (l = 0 \/ l + k <= c)
    BY <1>2
  <2>2. h[k].left = l /\ h[k].d = advance_devices(d, c - l, e) /\ Chunk(h[k], h[k + 1], e)
    BY <2>1
  <2>3. CASE l = 0
    <3>1. h[k + 1] = h[k]
      BY <2>2, <2>3 DEF Chunk
    <3> QED BY <2>1, <2>3, <3>1
  <2>4. CASE l # 0
    <3>1. PICK step \in 1..l :
             h[k + 1] = [d |-> advance_devices(advance_devices(d, c - l, e), step, e), left |-> l - step]
      BY <2>2, <2>4 DEF Chunk
    <3>2. PICK a \in Nat, b \in Nat : a = c - l /\ b = step
      OBVIOUS
    <3>3. a + b = c - (l - step) /\ l - step \in 0..c /\ (l - step = 0 \/ (l - step) + (k + 1) <= c)
      BY <2>1, <3>2
    <3>4. advance_devices(advance_devices(d, a, e), b, e) = advance_devices(d, a + b, e)
      BY DevicesAdd
    <3>5. h[k + 1] = [d |-> advance_devices(d, c - (l - step), e), left |-> l - step]
      BY <3>1, <3>2, <3>3, <3>4
    <3> QED BY <3>3, <3>5
  <2> QED BY <2>3, <2>4
<1> HIDE DEF T
<1>3. c \in T
  BY <1>1, <1>2, Induct
<1>4. PICK l \in 0..c : h[c] = [d |-> advance_devices(d, c - l, e), left |-> l] /\ (l = 0 \/ l + c <= c)
  BY <1>3 DEF T
<1>5. l = 0 /\ c - l = c
  BY <1>4
<1> QED BY <1>4, <1>5

\* Servicing the VBlanks that are due leaves none waiting.
LEMMA ServiceOK ==
    ASSUME NEW d, DevOK(d), NEW e \in BOOLEAN, NEW r, r = interrupts_service_scheduled_events(d, e)
    PROVE  /\ Ready(r, e) /\ r.tm = d.tm
           /\ e \/ d.since < VBLANK_CYCLES => r = d
<1>0. d \in DevSet /\ d.since \in Nat /\ VBLANK_CYCLES \in Nat \ {0}
  BY DevicesAssumption DEF DevOK, DevSet
<1>1. CASE e \/ d.since < VBLANK_CYCLES
  BY <1>1 DEF interrupts_service_scheduled_events, Ready
<1>2. CASE ~ (e \/ d.since < VBLANK_CYCLES)
  <2>1. PICK y \in Nat : y = d.since % VBLANK_CYCLES /\ y < VBLANK_CYCLES
    BY <1>0, DivMod
  <2>2. r = [d EXCEPT !.since = y, !.vblank = TRUE]
    BY <1>2, <2>1 DEF interrupts_service_scheduled_events
  <2>3. r \in DevSet /\ r.tm = d.tm /\ r.since = y
    BY <1>0, <2>2 DEF DevSet
  <2> QED BY <1>2, <2>1, <2>3 DEF Ready, DevOK
<1> QED BY <1>1, <1>2

\* The rounds of psx_advance_cycles_exact.
LEMMA ExactRoundIsChunk ==
    ASSUME NEW e \in BOOLEAN, NEW s \in ChunkSet(e)
    PROVE  Chunk(s, ExactRound(s, e), e)
<1> DEFINE v == interrupts_cycles_to_vblank(s.d)
           step == IF v > 0 /\ v < s.left THEN v ELSE s.left
<1>1. s.left \in Nat /\ v \in Nat
  BY DevicesAssumption DEF ChunkSet, ReadySet, DevSet, interrupts_cycles_to_vblank
<1>2. CASE s.left = 0
  BY <1>2 DEF Chunk, ExactRound
<1>3. CASE s.left # 0
  <2>1. step \in 1..(s.left)
    BY <1>1, <1>3
  <2>2. ExactRound(s, e) = [d |-> advance_devices(s.d, step, e), left |-> s.left - step]
    BY <1>3 DEF ExactRound
  <2> QED BY <1>3, <2>1, <2>2 DEF Chunk
<1> QED BY <1>2, <1>3

\* psx_advance_cycles_exact: one charge after the VBlanks that are due.
LEMMA ExactIs ==
    ASSUME NEW e \in BOOLEAN, NEW d, DevOK(d), NEW n \in Nat
    PROVE  psx_advance_cycles_exact(d, n, e)
             = advance_devices(interrupts_service_scheduled_events(d, e), n, e)
<1>1. PICK q : q = interrupts_service_scheduled_events(d, e)
  OBVIOUS
<1>2. Ready(q, e)
  BY <1>1, ServiceOK
<1> DEFINE s == [d |-> q, left |-> n]
           Round(x) == ExactRound(x, e)
           S == ChunkSet(e)
           M == [x \in S |-> Round(x)]
<1>3. s \in S
  BY <1>2 DEF ChunkSet, ReadySet, Ready, DevOK
<1>4. \A x \in S : Chunk(x, Round(x), e) /\ Round(x) \in S
  BY ExactRoundIsChunk, ChunkType
<1>5. M \in [S -> S]
  BY <1>4
<1>6. psx_advance_cycles_exact(d, n, e) = Iterate(Round, s, n).d
  BY <1>1 DEF psx_advance_cycles_exact
<1> HIDE DEF s, S
<1>7. PICK h : Orbit(h, M, S, s)
  BY <1>3, <1>5, OrbitExists
<1>8. h[0] = s /\ \A i \in Nat : h[i] \in S /\ h[i + 1] = Round(h[i])
  BY <1>7 DEF Orbit
<1> HIDE DEF Round
<1> DEFINE Eq(f) == f = [i \in 0..n |-> IF i = 0 THEN s ELSE On(f[i - 1], Round)]
           f == CHOOSE f : Eq(f)
           k == [i \in 0..n |-> h[i]]
<1>9. \A z : On(z, Round) = Round(z)
  BY DEF On
<1>10. ASSUME NEW i \in 0..n
       PROVE  k[i] = IF i = 0 THEN s ELSE On(k[i - 1], Round)
  <2>1. CASE i = 0
    BY <1>8, <2>1
  <2>2. CASE i # 0
    <3>1. i - 1 \in Nat /\ i - 1 \in 0..n /\ (i - 1) + 1 = i
      BY <2>2
    <3>2. k[i] = Round(k[i - 1])
      BY <1>8, <3>1
    <3> QED BY <1>9, <2>2, <3>2
  <2> QED BY <2>1, <2>2
<1>11. Eq(k)
  BY <1>10
<1>12. Eq(f)
  BY <1>11
<1> HIDE DEF k
<1>13. Iterate(Round, s, n) = f[n]
  BY DEF Iterate
<1> HIDE DEF f
<1>14. f[0] = s
  BY <1>12
<1>15. ASSUME NEW i \in Nat, i < n PROVE f[i + 1] = Round(f[i])
  <2>1. i + 1 \in 0..n /\ i + 1 # 0 /\ (i + 1) - 1 = i
    BY <1>15
  <2>2. f[i + 1] = On(f[i], Round)
    BY <1>12, <2>1
  <2> QED BY <1>9, <2>2
<1>16. \A i \in Nat : i < n /\ f[i] = h[i] => f[i + 1] = M[h[i]]
  BY <1>8, <1>15
<1> HIDE DEF M
<1>17. f[n] = h[n]
  BY <1>7, <1>14, <1>16, Follows
<1>18. h[n].d = advance_devices(q, n, e)
  <2>1. h[0] = [d |-> q, left |-> n] /\ \A i \in Nat : Chunk(h[i], h[i + 1], e)
    BY <1>4, <1>8 DEF s
  <2> QED BY <1>2, <2>1, ChunksAdd
<1> QED BY <1>1, <1>6, <1>13, <1>17, <1>18

----------------------------------------------------------------------------
(* The next internal event. *)

\* The least of a set of numbers.
LEMMA LowestIs ==
    ASSUME NEW S \in SUBSET Nat, S # {}
    PROVE  LowestOf(S) \in S /\ \A y \in S : LowestOf(S) <= y
<1>1. \E m \in S : \A y \in S : m <= y
  BY Least
<1> QED BY <1>1 DEF LowestOf

\* An armed timer: its next interrupt is at least a cycle away, and no armed
\* source is nearer.
LEMMA ArmedIs ==
    ASSUME NEW t \in Timers, NEW tm \in TimerSet, FracOK(t, tm), ArmedDists(tm) # {},
           NEW v, v = timer_divisor(t, tm)
    PROVE  LET k == LowestOf(ArmedDists(tm)) * v - tm.frac
           IN  /\ k \in Nat \ {0} /\ v \in Nat \ {0}
               /\ tm.mode.irqTarget => k <= TargetDist(tm) * v - tm.frac
               /\ tm.mode.irqOverflow => k <= OverflowDist(tm) * v - tm.frac
<1>1. v \in Nat \ {0} /\ tm.frac \in Nat /\ tm.frac < v
  BY TimersAssumption DEF timer_divisor, TimerSet, FracOK
<1>2. TargetDist(tm) \in Nat \ {0} /\ OverflowDist(tm) \in Nat \ {0}
  <2>1. TargetDist(tm) \in 1..Wrap /\ OverflowDist(tm) \in 1..Wrap /\ Wrap \in Nat
    BY Dists, TimersAssumption
  <2> QED BY <2>1
<1>3. ArmedDists(tm) \in SUBSET (Nat \ {0})
  BY <1>2 DEF ArmedDists
<1>4. PICK m \in Nat \ {0} : m = LowestOf(ArmedDists(tm)) /\ \A y \in ArmedDists(tm) : m <= y
  BY <1>3, LowestIs
<1>5. ASSUME NEW x \in Nat, NEW y \in Nat, x <= y PROVE x * v <= y * v /\ x * v \in Nat /\ y * v \in Nat
  BY <1>1, <1>5
<1>6. 1 * v <= m * v /\ m * v \in Nat /\ 1 * v = v
  BY <1>1, <1>5
<1>7. m * v - tm.frac \in Nat \ {0}
  BY <1>1, <1>6
<1>8. ASSUME tm.mode.irqTarget PROVE m * v - tm.frac <= TargetDist(tm) * v - tm.frac
  <2>1. m <= TargetDist(tm)
    BY <1>4, <1>8 DEF ArmedDists
  <2>2. m * v <= TargetDist(tm) * v /\ TargetDist(tm) * v \in Nat
    BY <1>2, <1>5, <2>1
  <2> QED BY <1>1, <1>6, <2>2
<1>9. ASSUME tm.mode.irqOverflow PROVE m * v - tm.frac <= OverflowDist(tm) * v - tm.frac
  <2>1. m <= OverflowDist(tm)
    BY <1>4, <1>9 DEF ArmedDists
  <2>2. m * v <= OverflowDist(tm) * v /\ OverflowDist(tm) * v \in Nat
    BY <1>2, <1>5, <2>1
  <2> QED BY <1>1, <1>6, <2>2
<1> QED BY <1>1, <1>4, <1>7, <1>8, <1>9

\* The next event is at least a cycle away, and no VBlank and no armed timer is
\* nearer.
LEMMA NextInternalIs ==
    ASSUME NEW d, DevOK(d)
    PROVE  /\ NextInternal(d) \in Nat \ {0}
           /\ d.since < VBLANK_CYCLES => NextInternal(d) <= VBLANK_CYCLES - d.since
           /\ d.since >= VBLANK_CYCLES => NextInternal(d) = 1
           /\ \A t \in Timers :
                /\ d.tm[t].mode.irqTarget =>
                     NextInternal(d) <= TargetDist(d.tm[t]) * timer_divisor(t, d.tm[t]) - d.tm[t].frac
                /\ d.tm[t].mode.irqOverflow =>
                     NextInternal(d) <= OverflowDist(d.tm[t]) * timer_divisor(t, d.tm[t]) - d.tm[t].frac
<1> DEFINE K(t) == LowestOf(ArmedDists(d.tm[t])) * timer_divisor(t, d.tm[t]) - d.tm[t].frac
           A == {t \in Timers : ArmedDists(d.tm[t]) # {}}
           v == interrupts_cycles_to_vblank(d)
           S == {v} \cup timers_cycles_to_irq(d.tm, Timers)
           best == LowestOf(S)
<1>0. d.since \in Nat /\ VBLANK_CYCLES \in Nat \ {0} /\ \A t \in Timers : d.tm[t] \in TimerSet /\ FracOK(t, d.tm[t])
  BY DevicesAssumption DEF DevOK, DevSet
<1>1. timers_cycles_to_irq(d.tm, Timers) = {K(t) : t \in A}
  BY DEF timers_cycles_to_irq
<1>2. v \in Nat /\ v = IF d.since >= VBLANK_CYCLES THEN 0 ELSE VBLANK_CYCLES - d.since
  BY <1>0 DEF interrupts_cycles_to_vblank
<1>3. ASSUME NEW t \in A
      PROVE  /\ K(t) \in Nat \ {0}
             /\ d.tm[t].mode.irqTarget =>
                  K(t) <= TargetDist(d.tm[t]) * timer_divisor(t, d.tm[t]) - d.tm[t].frac
             /\ d.tm[t].mode.irqOverflow =>
                  K(t) <= OverflowDist(d.tm[t]) * timer_divisor(t, d.tm[t]) - d.tm[t].frac
  BY <1>0, ArmedIs
<1>4. \A t \in Timers : d.tm[t].mode.irqTarget \/ d.tm[t].mode.irqOverflow => t \in A
  BY DEF ArmedDists
<1> HIDE DEF K, A, v
<1>5. S \in SUBSET Nat /\ S # {}
  BY <1>1, <1>2, <1>3
<1>6. best \in S /\ \A y \in S : best <= y
  BY <1>5, LowestIs
<1>7. best \in Nat /\ best <= v /\ \A t \in A : best <= K(t)
  BY <1>1, <1>5, <1>6
<1>8. NextInternal(d) = IF best = 0 THEN 1 ELSE best
  BY DEF NextInternal, v
<1> HIDE DEF best
<1>9. \A t \in A : NextInternal(d) <= K(t)
  BY <1>3, <1>7, <1>8
<1>10. /\ NextInternal(d) \in Nat \ {0}
       /\ d.since < VBLANK_CYCLES => NextInternal(d) <= VBLANK_CYCLES - d.since
       /\ d.since >= VBLANK_CYCLES => NextInternal(d) = 1
  BY <1>0, <1>2, <1>7, <1>8
<1>11. ASSUME NEW t \in Timers
       PROVE  /\ d.tm[t].mode.irqTarget =>
                   NextInternal(d) <= TargetDist(d.tm[t]) * timer_divisor(t, d.tm[t]) - d.tm[t].frac
              /\ d.tm[t].mode.irqOverflow =>
                   NextInternal(d) <= OverflowDist(d.tm[t]) * timer_divisor(t, d.tm[t]) - d.tm[t].frac
  <2>1. TargetDist(d.tm[t]) \in Nat /\ OverflowDist(d.tm[t]) \in Nat /\ d.tm[t].frac \in Nat
    <3>1. Wrap \in Nat
      BY TimersAssumption
    <3>2. TargetDist(d.tm[t]) \in 1..Wrap /\ OverflowDist(d.tm[t]) \in 1..Wrap
      BY <1>0, Dists
    <3> QED BY <1>0, <3>1, <3>2 DEF TimerSet
  <2>2. timer_divisor(t, d.tm[t]) \in Nat
    BY TimersAssumption DEF timer_divisor
  <2>3. PICK p \in Int, o \in Int :
           /\ p = TargetDist(d.tm[t]) * timer_divisor(t, d.tm[t]) - d.tm[t].frac
           /\ o = OverflowDist(d.tm[t]) * timer_divisor(t, d.tm[t]) - d.tm[t].frac
    BY <2>1, <2>2
  <2>4. ASSUME t \in A
        PROVE  K(t) \in Nat /\ NextInternal(d) <= K(t)
               /\ (d.tm[t].mode.irqTarget => K(t) <= p) /\ (d.tm[t].mode.irqOverflow => K(t) <= o)
    BY <1>3, <1>9, <2>3, <2>4
  <2>5. ASSUME t \in A
        PROVE  (d.tm[t].mode.irqTarget => NextInternal(d) <= p)
               /\ (d.tm[t].mode.irqOverflow => NextInternal(d) <= o)
    BY <1>10, <2>4, <2>5
  <2> QED BY <1>4, <2>3, <2>5
<1> QED BY <1>10, <1>11

\* The rounds of psx_devices_service_to_now.
LEMMA ReplayRoundIsChunk ==
    ASSUME NEW e \in BOOLEAN, NEW s \in ChunkSet(e)
    PROVE  Chunk(s, ReplayRound(s, e), e)
<1> DEFINE step == LowestOf({s.left, NextInternal(s.d)})
<1>1. s.left \in Nat /\ NextInternal(s.d) \in Nat \ {0}
  BY NextInternalIs DEF ChunkSet, ReadySet, Ready
<1>2. CASE s.left = 0
  BY <1>2 DEF Chunk, ReplayRound
<1>3. CASE s.left # 0
  <2>1. step \in 1..(s.left)
    BY <1>1, <1>3, LowestOfTwo
  <2>2. ReplayRound(s, e) = [d |-> advance_devices(s.d, step, e), left |-> s.left - step]
    BY <1>3 DEF ReplayRound
  <2> QED BY <1>3, <2>1, <2>2 DEF Chunk
<1> QED BY <1>2, <1>3

\* psx_devices_service_to_now: the same, if the devices are behind.
LEMMA ServiceIs ==
    ASSUME NEW e \in BOOLEAN, NEW d, DevOK(d), NEW n \in Nat \ {0}
    PROVE  psx_devices_service_to_now(d, n, e)
             = advance_devices(interrupts_service_scheduled_events(d, e), n, e)
<1>1. PICK q : q = interrupts_service_scheduled_events(d, e)
  OBVIOUS
<1>2. Ready(q, e)
  BY <1>1, ServiceOK
<1> DEFINE s == [d |-> q, left |-> n]
           Round(x) == ReplayRound(x, e)
           S == ChunkSet(e)
           M == [x \in S |-> Round(x)]
<1>3. s \in S
  BY <1>2 DEF ChunkSet, ReadySet, Ready, DevOK
<1>4. \A x \in S : Chunk(x, Round(x), e) /\ Round(x) \in S
  BY ReplayRoundIsChunk, ChunkType
<1>5. M \in [S -> S]
  BY <1>4
<1>6. psx_devices_service_to_now(d, n, e) = Iterate(Round, s, n).d
  BY <1>1 DEF psx_devices_service_to_now
<1> HIDE DEF s, S
<1>7. PICK h : Orbit(h, M, S, s)
  BY <1>3, <1>5, OrbitExists
<1>8. h[0] = s /\ \A i \in Nat : h[i] \in S /\ h[i + 1] = Round(h[i])
  BY <1>7 DEF Orbit
<1> HIDE DEF Round
<1> DEFINE Eq(f) == f = [i \in 0..n |-> IF i = 0 THEN s ELSE On(f[i - 1], Round)]
           f == CHOOSE f : Eq(f)
           k == [i \in 0..n |-> h[i]]
<1>9. \A z : On(z, Round) = Round(z)
  BY DEF On
<1>10. ASSUME NEW i \in 0..n
       PROVE  k[i] = IF i = 0 THEN s ELSE On(k[i - 1], Round)
  <2>1. CASE i = 0
    BY <1>8, <2>1
  <2>2. CASE i # 0
    <3>1. i - 1 \in Nat /\ i - 1 \in 0..n /\ (i - 1) + 1 = i
      BY <2>2
    <3>2. k[i] = Round(k[i - 1])
      BY <1>8, <3>1
    <3> QED BY <1>9, <2>2, <3>2
  <2> QED BY <2>1, <2>2
<1>11. Eq(k)
  BY <1>10
<1>12. Eq(f)
  BY <1>11
<1> HIDE DEF k
<1>13. Iterate(Round, s, n) = f[n]
  BY DEF Iterate
<1> HIDE DEF f
<1>14. f[0] = s
  BY <1>12
<1>15. ASSUME NEW i \in Nat, i < n PROVE f[i + 1] = Round(f[i])
  <2>1. i + 1 \in 0..n /\ i + 1 # 0 /\ (i + 1) - 1 = i
    BY <1>15
  <2>2. f[i + 1] = On(f[i], Round)
    BY <1>12, <2>1
  <2> QED BY <1>9, <2>2
<1>16. \A i \in Nat : i < n /\ f[i] = h[i] => f[i + 1] = M[h[i]]
  BY <1>8, <1>15
<1> HIDE DEF M
<1>17. f[n] = h[n]
  BY <1>7, <1>14, <1>16, Follows
<1>18. h[n].d = advance_devices(q, n, e)
  <2>1. h[0] = [d |-> q, left |-> n] /\ \A i \in Nat : Chunk(h[i], h[i + 1], e)
    BY <1>4, <1>8 DEF s
  <2> QED BY <1>2, <2>1, ChunksAdd
<1> QED BY <1>1, <1>6, <1>13, <1>17, <1>18

----------------------------------------------------------------------------
(* Register accesses keep the types. *)

\* Replacing one timer.
LEMMA SetTimerOK ==
    ASSUME NEW d, DevOK(d), NEW t \in Timers, NEW u \in TimerSet, FracOK(t, u),
           NEW r, r = [d EXCEPT !.tm[t] = u]
    PROVE  DevOK(r)
<1> DEFINE T == [d.tm EXCEPT ![t] = u]
<1>1. d \in DevSet /\ d.tm \in [Timers -> TimerSet] /\ \A i \in Timers : FracOK(i, d.tm[i])
  BY DEF DevOK, DevSet
<1>2. T \in [Timers -> TimerSet] /\ \A i \in Timers : FracOK(i, T[i])
  BY <1>1
<1>3. r = [d EXCEPT !.tm = T]
  BY <1>1 DEF DevSet
<1> HIDE DEF T
<1>4. r \in DevSet /\ r.tm = T
  BY <1>1, <1>2, <1>3 DEF DevSet
<1> QED BY <1>2, <1>4 DEF DevOK

\* What a read leaves.
LEMMA ReadsOK ==
    ASSUME NEW d, DevOK(d), NEW r \in Reads(d)
    PROVE  DevOK(r[2])
<1>1. CASE r[2] = d
  BY <1>1
<1>2. ASSUME NEW t \in Timers, r[2] = [d EXCEPT !.tm[t] = ReadMode(@)]
      PROVE  DevOK(r[2])
  <2>1. PICK u \in TimerSet : u = d.tm[t] /\ FracOK(t, u)
    BY DEF DevOK, DevSet
  <2>2. ReadMode(u) \in TimerSet /\ ReadMode(u).frac = u.frac /\ ReadMode(u).mode = u.mode
    BY DEF ReadMode, TimerSet
  <2>3. FracOK(t, ReadMode(u))
    BY <2>1, <2>2 DEF FracOK, timer_divisor
  <2>4. r[2] = [d EXCEPT !.tm[t] = ReadMode(u)]
    BY <1>2, <2>1
  <2> QED BY <2>2, <2>3, <2>4, SetTimerOK
<1> QED BY <1>1, <1>2 DEF Reads

\* Setting the target or the counter.
LEMMA CountsOK ==
    ASSUME NEW tm \in TimerSet, NEW v \in Count
    PROVE  /\ [tm EXCEPT !.target = v] \in TimerSet
           /\ [tm EXCEPT !.target = v].frac = tm.frac /\ [tm EXCEPT !.target = v].mode = tm.mode
           /\ [tm EXCEPT !.counter = v] \in TimerSet
           /\ [tm EXCEPT !.counter = v].frac = tm.frac /\ [tm EXCEPT !.counter = v].mode = tm.mode
BY DEF TimerSet

\* Writing the mode.
LEMMA WriteModeOK ==
    ASSUME NEW tm \in TimerSet, NEW m \in Mode
    PROVE  WriteMode(tm, m) \in TimerSet /\ WriteMode(tm, m).frac = 0
<1> DEFINE z == 0
<1>1. z \in Count /\ z \in Nat
  BY TimersAssumption DEF Count
<1>2. WriteMode(tm, m) = [tm EXCEPT !.mode = m, !.counter = z, !.request = TRUE, !.line = FALSE,
                              !.targetFlag = FALSE, !.overflowFlag = FALSE, !.frac = z]
  BY DEF WriteMode
<1> HIDE DEF z
<1>3. WriteMode(tm, m) \in TimerSet /\ WriteMode(tm, m).frac = z
  BY <1>1, <1>2 DEF TimerSet
<1> QED BY <1>3 DEF z

\* Acknowledging interrupts.
LEMMA WriteStatOK ==
    ASSUME NEW d, DevOK(d), NEW keep, NEW r, r = interrupt_write_stat(d, keep)
    PROVE  DevOK(r)
<1> DEFINE b(t) == d.tm[t].irq /\ t \in keep
           u(t) == [d.tm[t] EXCEPT !.irq = b(t)]
           T == [t \in Timers |-> u(t)]
           v == d.vblank /\ VBlank \in keep
<1>1. \A t \in Timers : b(t) \in BOOLEAN
  BY Zenon
<1>2. \A t \in Timers : d.tm[t] \in TimerSet /\ FracOK(t, d.tm[t])
  BY DEF DevOK, DevSet
<1>3. v \in BOOLEAN
  BY Zenon
<1>4. r = [d EXCEPT !.vblank = v, !.tm = T]
  BY DEF interrupt_write_stat, DevOK, DevSet
<1> HIDE DEF b, v
<1>5. \A t \in Timers : u(t) \in TimerSet /\ u(t).frac = d.tm[t].frac /\ u(t).mode = d.tm[t].mode
  BY <1>1, <1>2 DEF TimerSet
<1> HIDE DEF u
<1>6. T \in [Timers -> TimerSet] /\ \A t \in Timers : FracOK(t, T[t])
  BY <1>2, <1>5 DEF FracOK, timer_divisor
<1> HIDE DEF T
<1>7. d \in DevSet
  BY DEF DevOK
<1>8. r \in DevSet /\ r.tm = T
  BY <1>3, <1>4, <1>6, <1>7 DEF DevSet
<1> QED BY <1>6, <1>8 DEF DevOK

\* What a write leaves.
LEMMA WritesOK ==
    ASSUME NEW d, DevOK(d), NEW r \in Writes(d)
    PROVE  DevOK(r)
<1>1. CASE \E i \in Sources : r = interrupt_write_stat(d, Sources \ {i})
  BY <1>1, WriteStatOK
<1>2. ASSUME NEW t \in Timers, NEW u \in TimerSet, FracOK(t, u), r = [d EXCEPT !.tm[t] = u]
      PROVE  DevOK(r)
  BY <1>2, SetTimerOK
<1>3. ASSUME NEW t \in Timers, NEW m \in Modes, r = [d EXCEPT !.tm[t] = WriteMode(@, m)]
      PROVE  DevOK(r)
  <2>1. PICK u \in TimerSet : u = d.tm[t]
    BY DEF DevOK, DevSet
  <2>2. m \in Mode
    BY DevicesAssumption
  <2>3. WriteMode(u, m) \in TimerSet /\ WriteMode(u, m).frac = 0
    BY <2>2, WriteModeOK
  <2>4. FracOK(t, WriteMode(u, m))
    BY <2>3, TimersAssumption DEF FracOK, timer_divisor
  <2>5. r = [d EXCEPT !.tm[t] = WriteMode(u, m)]
    BY <1>3, <2>1
  <2> QED BY <1>2, <2>3, <2>4, <2>5
<1>4. ASSUME NEW t \in Timers, NEW v \in Targets,
             \/ r = [d EXCEPT !.tm[t].target = v]
             \/ r = [d EXCEPT !.tm[t].counter = v]
      PROVE  DevOK(r)
  <2>1. PICK u \in TimerSet : u = d.tm[t] /\ FracOK(t, u)
    BY DEF DevOK, DevSet
  <2>2. v \in Count
    BY DevicesAssumption
  <2>3. \/ r = [d EXCEPT !.tm[t] = [u EXCEPT !.target = v]]
        \/ r = [d EXCEPT !.tm[t] = [u EXCEPT !.counter = v]]
    BY <1>4, <2>1 DEF DevOK, DevSet
  <2>4. FracOK(t, [u EXCEPT !.target = v]) /\ FracOK(t, [u EXCEPT !.counter = v])
    BY <2>1, <2>2, CountsOK DEF FracOK, timer_divisor
  <2> QED BY <1>2, <2>2, <2>3, <2>4, CountsOK
<1> QED BY <1>1, <1>3, <1>4 DEF Writes

----------------------------------------------------------------------------
(* The clock of production builds. *)

\* The deadline for devices that are behind by b.
Fits(d, b, l) ==
    /\ l = 0 => b = 0
    /\ l # 0 => b + l <= NextInternal(d) /\ b + l <= HardCap

CInv ==
    /\ DevOK(dev) /\ exc \in BOOLEAN /\ debt \in Nat /\ left \in Nat
    /\ DeadlineBeforeEvent

\* A recomputed deadline is no later than the next event and the hard cap.
LEMMA DeadlineFits ==
    ASSUME NEW d, DevOK(d)
    PROVE  Deadline(d) \in Nat /\ Fits(d, 0, Deadline(d))
<1>1. NextInternal(d) \in Nat \ {0} /\ HardCap \in Nat \ {0}
  BY NextInternalIs, CyclesAssumption
<1>2. Deadline(d) = IF NextInternal(d) <= HardCap THEN NextInternal(d) ELSE HardCap
  BY <1>1, LowestOfTwo DEF Deadline
<1> QED BY <1>1, <1>2 DEF Fits

\* Bringing the devices up keeps the types.
LEMMA ServiceType ==
    ASSUME NEW d, DevOK(d), NEW n \in Nat, NEW e \in BOOLEAN
    PROVE  DevOK(psx_devices_service_to_now(d, n, e))
<1>1. CASE n = 0
  BY <1>1 DEF psx_devices_service_to_now
<1>2. CASE n # 0
  <2>1. PICK q : q = interrupts_service_scheduled_events(d, e)
    OBVIOUS
  <2>2. DevOK(q)
    BY <2>1, ServiceOK DEF Ready
  <2>3. PICK r : r = advance_devices(q, n, e)
    OBVIOUS
  <2>4. DevOK(r)
    BY <2>2, <2>3, AdvanceDevicesOK DEF Ready
  <2>5. psx_devices_service_to_now(d, n, e) = r
    BY <1>2, <2>1, <2>3, ServiceIs
  <2> QED BY <2>4, <2>5
<1> QED BY <1>1, <1>2

\* The program starts within the deadline.
LEMMA InitCInv == InitCycles => CInv
<1> SUFFICES ASSUME InitCycles PROVE CInv
  OBVIOUS
<1> DEFINE z == 0
           m == [reset |-> FALSE, irqTarget |-> FALSE, irqOverflow |-> FALSE,
                 repeat |-> FALSE, toggle |-> FALSE, div |-> FALSE]
           u == [counter |-> z, target |-> z, mode |-> m,
                 request |-> FALSE, targetFlag |-> FALSE, overflowFlag |-> FALSE,
                 line |-> FALSE, frac |-> z, irq |-> FALSE]
           T == [t \in Timers |-> u]
<1>1. z \in Count /\ z \in Nat
  BY TimersAssumption DEF Count
<1>2. timers_init = u
  BY DEF timers_init
<1>3. dev = [tm |-> T, since |-> z, vblank |-> FALSE]
  BY <1>2 DEF InitCycles, Init, InitDev
<1>4. m \in Mode
  BY DEF Mode
<1>5. z = 0
  OBVIOUS
<1> HIDE DEF z, m
<1>6. u \in TimerSet /\ u.frac = z
  BY <1>1, <1>4 DEF TimerSet
<1> HIDE DEF u
<1>7. T \in [Timers -> TimerSet] /\ \A t \in Timers : FracOK(t, T[t])
  BY <1>5, <1>6, TimersAssumption DEF FracOK, timer_divisor
<1> HIDE DEF T
<1>8. dev \in DevSet /\ dev.tm = T
  BY <1>1, <1>3, <1>7 DEF DevSet
<1> QED BY <1>7, <1>8 DEF InitCycles, Init, CInv, DevOK, DeadlineBeforeEvent

\* Servicing a VBlank that waited for the end of an exception cannot push an
\* event behind the deadline: while it waits, the deadline is a cycle away.
LEMMA ServiceFits ==
    ASSUME NEW d, DevOK(d), NEW b \in Nat, NEW l \in Nat, Fits(d, b, l),
           NEW r, r = interrupts_service_scheduled_events(d, FALSE)
    PROVE  DevOK(r) /\ Fits(r, b, l) /\ (b # 0 => r = d)
<1>1. FALSE \in BOOLEAN
  OBVIOUS
<1>2. DevOK(r) /\ (d.since < VBLANK_CYCLES => r = d)
  BY <1>1, ServiceOK DEF Ready
<1>3. d.since \in Nat /\ VBLANK_CYCLES \in Nat
  BY DevicesAssumption DEF DevOK, DevSet
<1>4. CASE d.since < VBLANK_CYCLES
  BY <1>2, <1>4
<1>5. CASE d.since >= VBLANK_CYCLES
  <2>1. NextInternal(d) = 1 /\ NextInternal(r) \in Nat \ {0}
    BY <1>2, <1>5, NextInternalIs
  <2>2. b = 0 /\ (l # 0 => l <= 1 /\ b + l <= HardCap)
    BY <2>1 DEF Fits
  <2>3. Fits(r, b, l)
    <3>1. PICK k \in Nat \ {0} : k = NextInternal(r)
      BY <2>1
    <3>2. l # 0 => b + l <= k /\ b + l <= HardCap
      BY <2>2
    <3> QED BY <2>2, <3>1, <3>2 DEF Fits
  <2> QED BY <1>2, <2>2, <2>3, Zenon
<1>6. d.since < VBLANK_CYCLES \/ d.since >= VBLANK_CYCLES
  BY <1>3
<1> QED BY <1>4, <1>5, <1>6, Zenon

\* Every step keeps the types and the deadline.
LEMMA NextCInv == CInv /\ [RunNext]_vars => CInv'
<1> SUFFICES ASSUME CInv, [RunNext]_vars PROVE CInv'
  OBVIOUS
<1>0. DevOK(dev) /\ exc \in BOOLEAN /\ debt \in Nat /\ left \in Nat /\ Fits(dev, debt, left)
  BY DEF CInv, DeadlineBeforeEvent, Fits
<1> DEFINE Ok(d, b, l) == DevOK(d) /\ b \in Nat /\ l \in Nat /\ Fits(d, b, l)
<1>1. SUFFICES Ok(dev', debt', left') /\ exc' \in BOOLEAN
  BY DEF CInv, DeadlineBeforeEvent, Fits
<1>2. ASSUME NEW c \in Charges, psx_advance_cycles(c) PROVE Ok(dev', debt', left') /\ exc' \in BOOLEAN
  <2>1. c \in Nat \ {0} /\ exc' = exc
    BY <1>2, ClockAssumption DEF psx_advance_cycles
  <2>2. CASE left = 0 \/ c >= left
    <3>1. PICK n \in Nat : n = debt + c
      BY <1>0, <2>1
    <3>2. dev' = psx_devices_service_to_now(dev, n, exc) /\ debt' = 0 /\ left' = Deadline(dev')
      BY <1>2, <2>2, <3>1 DEF psx_advance_cycles
    <3>3. DevOK(dev')
      BY <1>0, <3>2, ServiceType
    <3> QED BY <1>0, <2>1, <3>2, <3>3, DeadlineFits
  <2>3. CASE ~ (left = 0 \/ c >= left)
    <3>1. dev' = dev /\ debt' = debt + c /\ left' = left - c
      BY <1>2, <2>3 DEF psx_advance_cycles
    <3> QED BY <1>0, <2>1, <2>3, <3>1 DEF Fits
  <2> QED BY <2>2, <2>3
<1>3. DevOK(Synced)
  BY <1>0, ServiceType DEF Synced
<1>4. ASSUME DevOK(dev'), MmioSync, UNCHANGED exc PROVE Ok(dev', debt', left') /\ exc' \in BOOLEAN
  BY <1>0, <1>4 DEF MmioSync, Fits
<1>5. CASE mmio_read
  <2>1. DevOK(dev')
    BY <1>3, <1>5, ReadsOK DEF mmio_read
  <2> QED BY <1>4, <1>5, <2>1 DEF mmio_read
<1>6. CASE mmio_write
  <2>1. DevOK(dev')
    BY <1>3, <1>6, WritesOK DEF mmio_write
  <2> QED BY <1>4, <1>6, <2>1 DEF mmio_write
<1>7. CASE psx_check_interrupts \/ CheckNothing
  <2>1. dev' = interrupts_service_scheduled_events(dev, FALSE) /\ UNCHANGED <<debt, left>>
    BY <1>7 DEF psx_check_interrupts, CheckNothing, Deliver, CheckOnly
  <2>2. exc' \in BOOLEAN
    BY <1>0, <1>7 DEF psx_check_interrupts, CheckNothing, Deliver, CheckOnly
  <2>3. DevOK(dev') /\ Fits(dev', debt, left)
    BY <1>0, <2>1, ServiceFits
  <2> QED BY <1>0, <2>1, <2>2, <2>3
<1>8. CASE ExceptionReturn
  BY <1>0, <1>8 DEF ExceptionReturn, Return
<1>9. CASE UNCHANGED vars
  BY <1>0, <1>9 DEF vars, clockVars
<1> QED BY <1>2, <1>5, <1>6, <1>7, <1>8, <1>9 DEF RunNext

\* psx_cycles.c, for every counter width, divisor, charge and sequence of
\* register accesses, interrupts and returns: the deadline never lies behind the
\* next event of a device or the hard cap.
THEOREM CyclesDeadlineBeforeEvent == CyclesSpec => []DeadlineBeforeEvent
<1>1. CInv => DeadlineBeforeEvent
  BY DEF CInv
<1> QED BY <1>1, InitCInv, NextCInv, PTL DEF CyclesSpec

\* timers.c, for every reachable timer and every width: counting in bulk is
\* counting one by one.
THEOREM CyclesBulkIsTicks == CyclesSpec => []BulkIsTicks
<1>1. CInv => BulkIsTicks
  <2> SUFFICES ASSUME CInv, NEW t \in Timers, NEW n \in 1..(2 * Wrap)
               PROVE  timer_advance_counts(dev.tm[t], n) = Iterate(timer_tick_one, dev.tm[t], n)
    BY DEF BulkIsTicks
  <2>1. dev.tm[t] \in TimerSet /\ n \in Nat
    BY TimersAssumption DEF CInv, DevOK, DevSet
  <2> QED BY <2>1, BulkIsIterate
<1> QED BY <1>1, InitCInv, NextCInv, PTL DEF CyclesSpec

----------------------------------------------------------------------------
(* The devices of the abstract clock are these devices. *)

\* The rounds of timer_advance_counts.
LEMMA SameRound == \A s : Exact!AdvanceRound(s) = AdvanceRound(s)
<1>1. \A tm : Exact!timer_fire_irq(tm) = timer_fire_irq(tm)
  BY DEF Exact!timer_fire_irq, timer_fire_irq
<1>2. \A tm : Exact!AtTarget(tm) = AtTarget(tm)
  BY <1>1 DEF Exact!AtTarget, AtTarget
<1>3. \A tm : Exact!AtOverflow(tm) = AtOverflow(tm)
  BY <1>1 DEF Exact!AtOverflow, AtOverflow
<1>4. \A tm : Exact!TargetDist(tm) = TargetDist(tm)
  BY DEF Exact!TargetDist, TargetDist
<1>5. \A tm : Exact!OverflowDist(tm) = OverflowDist(tm)
  BY DEF Exact!OverflowDist, OverflowDist
<1>6. \A S : Exact!LowestOf(S) = LowestOf(S)
  BY DEF Exact!LowestOf, LowestOf
<1>7. \A s : Exact!LowestOf({s.left, Exact!TargetDist(s.tm), Exact!OverflowDist(s.tm)})
               = LowestOf({s.left, TargetDist(s.tm), OverflowDist(s.tm)})
  BY <1>4, <1>5, <1>6
<1> QED BY <1>2, <1>3, <1>4, <1>5, <1>7, Zenon DEF Exact!AdvanceRound, AdvanceRound

\* Bulk counting.
LEMMA SameCounts == \A tm, n : Exact!timer_advance_counts(tm, n) = timer_advance_counts(tm, n)
<1> TAKE tm, n
<1> DEFINE x == [tm |-> tm, left |-> n]
           P(f) == f = [i \in 0..n |-> IF i = 0 THEN x ELSE On(f[i - 1], AdvanceRound)]
           Q(f) == f = [i \in 0..n |-> IF i = 0 THEN x ELSE Exact!On(f[i - 1], Exact!AdvanceRound)]
<1>1. \A z : On(z, AdvanceRound) = AdvanceRound(z)
  BY DEF On
<1>2. \A z : Exact!On(z, Exact!AdvanceRound) = Exact!AdvanceRound(z)
  BY DEF Exact!On
<1>3. \A z : On(z, AdvanceRound) = Exact!On(z, Exact!AdvanceRound)
  BY <1>1, <1>2, SameRound
<1>4. \A f : P(f) <=> Q(f)
  BY <1>3
<1>5. timer_advance_counts(tm, n) = (CHOOSE f : P(f))[n].tm
  BY DEF timer_advance_counts, Iterate
<1>6. Exact!timer_advance_counts(tm, n) = (CHOOSE f : Q(f))[n].tm
  BY DEF Exact!timer_advance_counts, Exact!Iterate
<1> HIDE DEF P, Q
<1>7. (CHOOSE f : P(f)) = (CHOOSE f : Q(f))
  BY <1>4, Zenon
<1> QED BY <1>5, <1>6, <1>7

\* A charge to the devices.
LEMMA SameAdvance ==
    /\ \A d, e : Exact!interrupts_service_scheduled_events(d, e) = interrupts_service_scheduled_events(d, e)
    /\ \A d, c, e : Exact!advance_devices(d, c, e) = advance_devices(d, c, e)
<1>1. \A t, tm : Exact!timer_divisor(t, tm) = timer_divisor(t, tm)
  BY DEF Exact!timer_divisor, timer_divisor
<1>2. \A t, tm, c : Exact!timers_advance(t, tm, c) = timers_advance(t, tm, c)
  BY <1>1, SameCounts DEF Exact!timers_advance, timers_advance
<1>3. \A d, e : Exact!interrupts_service_scheduled_events(d, e) = interrupts_service_scheduled_events(d, e)
  BY DEF Exact!interrupts_service_scheduled_events, interrupts_service_scheduled_events
<1>4. ASSUME NEW d, NEW c, NEW e PROVE Exact!advance_devices(d, c, e) = advance_devices(d, c, e)
  <2>1. [t \in Timers |-> Exact!timers_advance(t, d.tm[t], c)] = [t \in Timers |-> timers_advance(t, d.tm[t], c)]
    BY <1>2
  <2>2. PICK T : T = [t \in Timers |-> timers_advance(t, d.tm[t], c)]
    OBVIOUS
  <2>3. advance_devices(d, c, e)
          = interrupts_service_scheduled_events([d EXCEPT !.tm = T, !.since = d.since + c], e)
    BY <2>2 DEF advance_devices
  <2>4. Exact!advance_devices(d, c, e)
          = Exact!interrupts_service_scheduled_events([d EXCEPT !.tm = T, !.since = d.since + c], e)
    BY <2>1, <2>2 DEF Exact!advance_devices
  <2> QED BY <1>3, <2>3, <2>4, Zenon
<1> QED BY <1>3, <1>4

\* psx_advance_cycles_exact.
LEMMA SameExact == \A d, n, e : Exact!psx_advance_cycles_exact(d, n, e) = psx_advance_cycles_exact(d, n, e)
<1> TAKE d, n, e
<1> DEFINE q == interrupts_service_scheduled_events(d, e)
           x == [d |-> q, left |-> n]
           Round(s) == ExactRound(s, e)
           Rnd(s) == Exact!ExactRound(s, e)
           P(f) == f = [i \in 0..n |-> IF i = 0 THEN x ELSE On(f[i - 1], Round)]
           Q(f) == f = [i \in 0..n |-> IF i = 0 THEN x ELSE Exact!On(f[i - 1], Rnd)]
<1>1. \A b : Exact!interrupts_cycles_to_vblank(b) = interrupts_cycles_to_vblank(b)
  BY DEF Exact!interrupts_cycles_to_vblank, interrupts_cycles_to_vblank
<1>2. \A s : Rnd(s) = Round(s)
  BY <1>1, SameAdvance DEF Exact!ExactRound, ExactRound
<1>3. psx_advance_cycles_exact(d, n, e) = Iterate(Round, x, n).d
  BY DEF psx_advance_cycles_exact
<1>4. Exact!psx_advance_cycles_exact(d, n, e) = Exact!Iterate(Rnd, x, n).d
  BY SameAdvance DEF Exact!psx_advance_cycles_exact
<1> HIDE DEF Round, Rnd, x
<1>5. \A z : On(z, Round) = Round(z)
  BY DEF On
<1>6. \A z : Exact!On(z, Rnd) = Rnd(z)
  BY DEF Exact!On
<1>7. \A z : On(z, Round) = Exact!On(z, Rnd)
  BY <1>2, <1>5, <1>6
<1>8. \A f : P(f) <=> Q(f)
  BY <1>7
<1>9. Iterate(Round, x, n) = (CHOOSE f : P(f))[n]
  BY DEF Iterate
<1>10. Exact!Iterate(Rnd, x, n) = (CHOOSE f : Q(f))[n]
  BY DEF Exact!Iterate
<1> HIDE DEF P, Q
<1>11. (CHOOSE f : P(f)) = (CHOOSE f : Q(f))
  BY <1>8, Zenon
<1> QED BY <1>3, <1>4, <1>9, <1>10, <1>11

----------------------------------------------------------------------------
(* Short of the next event, nothing the guest can see happens. *)

\* A tick that reaches no armed source raises nothing, and the armed sources
\* come nearer by one count at most.
LEMMA UnarmedTick ==
    ASSUME NEW u \in TimerSet, u.mode.irqTarget => TargetDist(u) > 1,
           u.mode.irqOverflow => OverflowDist(u) > 1, NEW w, w = timer_tick_one(u)
    PROVE  /\ w \in TimerSet /\ w.irq = u.irq /\ w.mode = u.mode
           /\ u.mode.irqTarget => TargetDist(w) >= TargetDist(u) - 1
           /\ u.mode.irqOverflow => OverflowDist(w) >= OverflowDist(u) - 1
<1> DEFINE n == IF u.counter = Wrap - 1 THEN 0 ELSE u.counter + 1
           a == At(u, n)
           b == IF n = u.target THEN AtTarget(a) ELSE a
<1>0. u.counter \in Nat /\ u.counter < Wrap /\ u.target \in Nat /\ u.target < Wrap /\ Wrap \in Nat
  BY TimersAssumption DEF TimerSet, Count
<1>1. n \in Count /\ w = IF u.counter = Wrap - 1 THEN AtOverflow(b) ELSE b
  BY TickIs
<1>2. n = u.target => TargetDist(u) = 1
  BY <1>0, Dists
<1>3. u.counter = Wrap - 1 => OverflowDist(u) = 1
  BY <1>0, Dists
<1>4. (n = u.target => ~ u.mode.irqTarget) /\ (u.counter = Wrap - 1 => ~ u.mode.irqOverflow)
  BY <1>2, <1>3
<1>5. n = IF u.counter = Wrap - 1 THEN 0 ELSE u.counter + 1
  OBVIOUS
<1> HIDE DEF n
<1>6. a \in TimerSet /\ a.counter = n /\ a.target = u.target /\ a.mode = u.mode /\ a.irq = u.irq
  BY <1>1, AtIs
<1> HIDE DEF a
<1>7. /\ b \in TimerSet /\ b.target = u.target /\ b.mode = u.mode /\ b.irq = u.irq
      /\ n # u.target => b.counter = n
      /\ b.counter = n \/ b.counter = 0
  <2>1. CASE n = u.target
    <3>1. Counted(a, AtTarget(a)) /\ AtTarget(a).irq = a.irq /\ AtTarget(a).mode = a.mode
          /\ AtTarget(a).counter = IF a.mode.reset THEN 0 ELSE a.counter
      BY <1>4, <1>6, <2>1, AtTargetCounted
    <3> QED BY <1>6, <2>1, <3>1 DEF Counted
  <2>2. CASE n # u.target
    BY <1>6, <2>2
  <2> QED BY <2>1, <2>2
<1> HIDE DEF b
<1>8. w \in TimerSet /\ w.target = u.target /\ w.mode = u.mode /\ w.irq = u.irq /\ w.counter = b.counter
  <2>1. CASE u.counter = Wrap - 1
    <3>1. Counted(b, AtOverflow(b)) /\ AtOverflow(b).irq = b.irq /\ AtOverflow(b).mode = b.mode
          /\ AtOverflow(b).counter = b.counter
      BY <1>4, <1>7, <2>1, AtOverflowCounted
    <3> QED BY <1>1, <1>7, <2>1, <3>1 DEF Counted
  <2>2. CASE u.counter # Wrap - 1
    BY <1>1, <1>7, <2>2
  <2> QED BY <2>1, <2>2
<1>9. ASSUME u.mode.irqTarget PROVE TargetDist(w) >= TargetDist(u) - 1
  <2>1. w.counter = n /\ n # u.target
    BY <1>4, <1>7, <1>8, <1>9
  <2> QED BY <1>0, <1>5, <1>8, <2>1, Dists
<1>10. ASSUME u.mode.irqOverflow PROVE OverflowDist(w) >= OverflowDist(u) - 1
  <2>1. n = u.counter + 1 /\ (w.counter = n \/ w.counter = 0)
    BY <1>4, <1>5, <1>7, <1>8, <1>10
  <2> QED BY <1>0, <1>8, <2>1, Dists
<1> QED BY <1>8, <1>9, <1>10

\* Nor do the ticks before the first armed source.
LEMMA UnarmedTicks ==
    ASSUME NEW tm \in TimerSet, NEW g, Ticks(g, tm), NEW n \in Nat,
           tm.mode.irqTarget => n < TargetDist(tm), tm.mode.irqOverflow => n < OverflowDist(tm)
    PROVE  g[n].irq = tm.irq
<1> DEFINE A == tm.mode.irqTarget
           B == tm.mode.irqOverflow
           T == {i \in Nat : i <= n =>
                   /\ g[i].irq = tm.irq /\ g[i].mode = tm.mode
                   /\ A => TargetDist(g[i]) >= TargetDist(tm) - i
                   /\ B => OverflowDist(g[i]) >= OverflowDist(tm) - i}
<1>0. \A u \in TimerSet : TargetDist(u) \in Nat /\ OverflowDist(u) \in Nat
  <2>1. Wrap \in Nat
    BY TimersAssumption
  <2> QED BY <2>1, Dists
<1>1. 0 \in T
  BY <1>0, TicksStep
<1>2. ASSUME NEW i \in Nat, i \in T PROVE i + 1 \in T
  <2> SUFFICES ASSUME i + 1 <= n
               PROVE  /\ g[i + 1].irq = tm.irq /\ g[i + 1].mode = tm.mode
                      /\ A => TargetDist(g[i + 1]) >= TargetDist(tm) - (i + 1)
                      /\ B => OverflowDist(g[i + 1]) >= OverflowDist(tm) - (i + 1)
    OBVIOUS
  <2>1. PICK u, w : u = g[i] /\ w = g[i + 1]
    OBVIOUS
  <2>2. u \in TimerSet /\ w \in TimerSet /\ w = timer_tick_one(u)
    BY <2>1, TicksStep
  <2>3. u.irq = tm.irq /\ u.mode = tm.mode /\ (A => TargetDist(u) >= TargetDist(tm) - i)
        /\ (B => OverflowDist(u) >= OverflowDist(tm) - i)
    BY <1>2, <2>1
  <2>4. (A => TargetDist(u) > 1) /\ (B => OverflowDist(u) > 1)
    BY <1>0, <2>2, <2>3
  <2>5. w.irq = u.irq /\ w.mode = u.mode /\ (A => TargetDist(w) >= TargetDist(u) - 1)
        /\ (B => OverflowDist(w) >= OverflowDist(u) - 1)
    BY <2>2, <2>3, <2>4, UnarmedTick
  <2> QED BY <1>0, <2>1, <2>2, <2>3, <2>5
<1> HIDE DEF T
<1>3. n \in T
  BY <1>1, <1>2, Induct
<1> QED BY <1>3 DEF T

\* Fewer cycles than m counts take are fewer than m counts.
LEMMA DivLess ==
    ASSUME NEW v \in Nat \ {0}, NEW m \in Nat, NEW x \in Nat, x < m * v
    PROVE  x \div v < m
<1> DEFINE q == x \div v
<1>1. q \in Nat /\ x % v \in Nat /\ x = q * v + (x % v)
  BY DivMod
<1> HIDE DEF q
<1>2. ASSUME m <= q PROVE FALSE
  <2>1. m * v <= q * v /\ m * v \in Nat /\ q * v \in Nat
    BY <1>1, <1>2
  <2> QED BY <1>1, <2>1
<1> QED BY <1>1, <1>2 DEF q

\* Nor does a charge that ends before the next event.
LEMMA UnarmedCharge ==
    ASSUME NEW d, DevOK(d), NEW c \in Nat, c < NextInternal(d), NEW t \in Timers
    PROVE  TimersAfter(d, c)[t].irq = d.tm[t].irq
<1>1. PICK u \in TimerSet : u = d.tm[t] /\ FracOK(t, u)
  BY DEF DevOK, DevSet
<1>2. PICK v \in Nat \ {0} : v = timer_divisor(t, u)
  BY TimersAssumption DEF timer_divisor
<1>3. PICK g : Ticks(g, u)
  BY TicksExist
<1>4. PICK x \in Nat : x = u.frac + c
  BY DEF TimerSet
<1>5. x \div v \in Nat /\ x % v \in Nat /\ timers_advance(t, u, c) = WithFrac(g[x \div v], x % v)
  BY <1>2, <1>3, <1>4, AdvanceIs
<1>6. TargetDist(u) \in Nat /\ OverflowDist(u) \in Nat /\ u.frac \in Nat
  <2>1. Wrap \in Nat
    BY TimersAssumption
  <2>2. TargetDist(u) \in 1..Wrap /\ OverflowDist(u) \in 1..Wrap
    BY Dists
  <2> QED BY <2>1, <2>2 DEF TimerSet
<1>7. PICK k \in Nat, p \in Nat, o \in Nat :
         k = NextInternal(d) /\ p = TargetDist(u) * v /\ o = OverflowDist(u) * v
  BY <1>2, <1>6, NextInternalIs
<1>8. (u.mode.irqTarget => k <= p - u.frac) /\ (u.mode.irqOverflow => k <= o - u.frac)
  BY <1>1, <1>2, <1>7, NextInternalIs
<1>9. (u.mode.irqTarget => x < p) /\ (u.mode.irqOverflow => x < o)
  BY <1>4, <1>6, <1>7, <1>8
<1>10. (u.mode.irqTarget => x \div v < TargetDist(u)) /\ (u.mode.irqOverflow => x \div v < OverflowDist(u))
  BY <1>6, <1>7, <1>9, DivLess
<1>11. g[x \div v].irq = u.irq
  BY <1>3, <1>5, <1>10, UnarmedTicks
<1>12. g[x \div v] \in TimerSet
  BY <1>3, <1>5, TicksStep
<1>13. timers_advance(t, u, c).irq = u.irq
  BY <1>5, <1>11, <1>12, WithFracIs
<1> QED BY <1>1, <1>13 DEF TimersAfter

----------------------------------------------------------------------------
(* The refinement. *)

\* The devices d brought up by b cycles.
Ahead(d, b, e) == IF b = 0 THEN d ELSE psx_advance_cycles_exact(d, b, e)

\* Replaying what the devices are behind is charging it all.
LEMMA ReplayIsExact ==
    ASSUME NEW d, DevOK(d), NEW b \in Nat, NEW e \in BOOLEAN
    PROVE  psx_devices_service_to_now(d, b, e) = Ahead(d, b, e)
<1>1. CASE b = 0
  BY <1>1 DEF psx_devices_service_to_now, Ahead
<1>2. CASE b # 0
  BY <1>2, ServiceIs, ExactIs DEF Ahead
<1> QED BY <1>1, <1>2

\* A charge on top of what the devices are behind.
LEMMA ChargeMore ==
    ASSUME NEW d, DevOK(d), NEW b \in Nat, NEW e \in BOOLEAN, NEW c \in Nat \ {0}
    PROVE  psx_advance_cycles_exact(Ahead(d, b, e), c, e) = Ahead(d, b + c, e)
<1>1. PICK n \in Nat : n = b + c /\ n # 0
  OBVIOUS
<1>2. Ahead(d, b + c, e) = psx_advance_cycles_exact(d, n, e)
  BY <1>1 DEF Ahead
<1>3. CASE b = 0
  BY <1>1, <1>2, <1>3 DEF Ahead
<1>4. CASE b # 0
  <2>1. PICK q : q = interrupts_service_scheduled_events(d, e)
    OBVIOUS
  <2>2. Ready(q, e) /\ DevOK(q)
    BY <2>1, ServiceOK DEF Ready
  <2>3. PICK r : r = advance_devices(q, b, e)
    OBVIOUS
  <2>4. Ready(r, e) /\ DevOK(r)
    BY <2>2, <2>3, AdvanceDevicesOK DEF Ready
  <2>5. Ahead(d, b, e) = r
    BY <1>4, <2>1, <2>3, ExactIs DEF Ahead
  <2>6. interrupts_service_scheduled_events(r, e) = r
    BY <2>4, ServiceOK DEF Ready
  <2>7. psx_advance_cycles_exact(r, c, e) = advance_devices(r, c, e)
    BY <2>4, <2>6, ExactIs
  <2>8. psx_advance_cycles_exact(d, n, e) = advance_devices(q, n, e)
    BY <2>1, ExactIs
  <2>9. advance_devices(advance_devices(q, b, e), c, e) = advance_devices(q, b + c, e)
    BY <2>2, DevicesAdd
  <2> QED BY <1>1, <1>2, <2>3, <2>5, <2>7, <2>8, <2>9
<1> QED BY <1>3, <1>4

\* Within the deadline, what the devices are behind changes neither I_STAT nor
\* what an exception would hold back.
LEMMA AheadIs ==
    ASSUME NEW d, DevOK(d), NEW b \in Nat, NEW l \in Nat, Fits(d, b, l), NEW e \in BOOLEAN,
           NEW r, r = Ahead(d, b, e)
    PROVE  /\ DevOK(r) /\ r.vblank = d.vblank /\ \A t \in Timers : r.tm[t].irq = d.tm[t].irq
           /\ b # 0 => /\ r = [tm |-> TimersAfter(d, b), since |-> d.since + b, vblank |-> d.vblank]
                       /\ r.since < VBLANK_CYCLES
<1>0. d \in DevSet /\ d.since \in Nat /\ VBLANK_CYCLES \in Nat
  BY DevicesAssumption DEF DevOK, DevSet
<1>1. CASE b = 0
  BY <1>1 DEF Ahead
<1>2. CASE b # 0
  <2>1. PICK k \in Nat \ {0} :
           /\ k = NextInternal(d)
           /\ d.since < VBLANK_CYCLES => k <= VBLANK_CYCLES - d.since
           /\ d.since >= VBLANK_CYCLES => k = 1
    BY NextInternalIs
  <2>2. b < k
    BY <1>2, <2>1 DEF Fits
  <2>3. d.since < VBLANK_CYCLES /\ d.since + b < VBLANK_CYCLES
    BY <1>0, <1>2, <2>1, <2>2
  <2>4. interrupts_service_scheduled_events(d, e) = d
    BY <2>3, ServiceOK
  <2>5. r = advance_devices(d, b, e)
    BY <1>2, <2>4, ExactIs DEF Ahead
  <2>6. ~ Due(d, b, e)
    BY <1>0, <2>3 DEF Due
  <2>7. SinceAfter(d, b, e) = d.since + b /\ VBlankAfter(d, b, e) = d.vblank
    BY <2>6, Zenon DEF SinceAfter, VBlankAfter
  <2>8. Ready(r, e) /\ r.tm = TimersAfter(d, b) /\ r.since = d.since + b /\ r.vblank = d.vblank
    BY <2>5, <2>7, AdvanceDevicesOK
  <2>9. DevOK(r) /\ r \in DevSet
    BY <2>8 DEF Ready, DevOK
  <2>10. r = [tm |-> r.tm, since |-> r.since, vblank |-> r.vblank]
    BY <2>9, DevIs
  <2>11. r = [tm |-> TimersAfter(d, b), since |-> d.since + b, vblank |-> d.vblank]
    BY <2>8, <2>10, Zenon
  <2>12. \A t \in Timers : r.tm[t].irq = d.tm[t].irq
    BY <2>1, <2>2, <2>8, UnarmedCharge
  <2>13. r.since < VBLANK_CYCLES
    BY <2>3, <2>8
  <2> QED BY <2>8, <2>9, <2>11, <2>12, <2>13
<1> QED BY <1>1, <1>2

\* Writing the interrupt bits that are there already.
LEMMA SameBits ==
    ASSUME NEW q \in DevSet, NEW d \in DevSet, q.vblank = d.vblank,
           \A t \in Timers : q.tm[t].irq = d.tm[t].irq
    PROVE  [q EXCEPT !.vblank = d.vblank,
                     !.tm = [t \in Timers |-> [@[t] EXCEPT !.irq = d.tm[t].irq]]] = q
<1> DEFINE T == [t \in Timers |-> [q.tm[t] EXCEPT !.irq = d.tm[t].irq]]
           r == [q EXCEPT !.vblank = d.vblank, !.tm = T]
<1>1. \A t \in Timers : q.tm[t] \in TimerSet
  BY DEF DevSet
<1>2. \A u \in TimerSet : [u EXCEPT !.irq = u.irq] = u
  BY DEF TimerSet
<1>3. \A t \in Timers : T[t] = q.tm[t]
  BY <1>1, <1>2
<1>4. T = q.tm
  BY <1>3 DEF DevSet
<1> HIDE DEF T
<1>5. r \in DevSet /\ r.tm = q.tm /\ r.since = q.since /\ r.vblank = q.vblank
  BY <1>4 DEF DevSet
<1> HIDE DEF r
<1>6. r = [tm |-> r.tm, since |-> r.since, vblank |-> r.vblank]
      /\ q = [tm |-> q.tm, since |-> q.since, vblank |-> q.vblank]
  BY <1>5, DevIs
<1>7. r = q
  BY <1>5, <1>6, Zenon
<1> QED BY <1>7 DEF r, T

\* What the guest sees is the devices brought up to now.
LEMMA GuestDevIs ==
    ASSUME CInv
    PROVE  /\ GuestDev = Ahead(dev, debt, exc) /\ GuestDev \in DevSet
           /\ GuestDev.vblank = dev.vblank
           /\ \A t \in Timers : GuestDev.tm[t].irq = dev.tm[t].irq
<1>1. DevOK(dev) /\ exc \in BOOLEAN /\ debt \in Nat /\ left \in Nat /\ Fits(dev, debt, left)
  BY DEF CInv, DeadlineBeforeEvent, Fits
<1>2. PICK q : q = Ahead(dev, debt, exc)
  OBVIOUS
<1>3. DevOK(q) /\ q.vblank = dev.vblank /\ \A t \in Timers : q.tm[t].irq = dev.tm[t].irq
  BY <1>1, <1>2, AheadIs
<1>4. q \in DevSet /\ dev \in DevSet
  BY <1>1, <1>3 DEF DevOK
<1>5. q = CaughtUp
  BY <1>2 DEF CaughtUp, Ahead
<1>6. GuestDev = q
  <2>1. [q EXCEPT !.vblank = dev.vblank,
                  !.tm = [t \in Timers |-> [@[t] EXCEPT !.irq = dev.tm[t].irq]]] = q
    BY <1>3, <1>4, SameBits
  <2> QED BY <1>5, <2>1, Zenon DEF GuestDev
<1> QED BY <1>2, <1>3, <1>4, <1>6

\* The writes to a register of each kind.
StatWrites(d) == {interrupt_write_stat(d, Sources \ {i}) : i \in Sources}
ModeWrites(d) == {[d EXCEPT !.tm[t] = WriteMode(@, m)] : t \in Timers, m \in Modes}
TargetWrites(d) == {[d EXCEPT !.tm[t].target = v] : t \in Timers, v \in Targets}
CounterWrites(d) == {[d EXCEPT !.tm[t].counter = v] : t \in Timers, v \in Targets}

\* The registers of the abstract clock.
LEMMA SameRegisters ==
    /\ Exact!InitDev = InitDev
    /\ \A d : Exact!Stat(d) = Stat(d)
    /\ \A d : Exact!Reads(d) = Reads(d)
    /\ \A d : Exact!Writes(d) = Writes(d)
    /\ \A c, n : Exact!Later(c, n) = Later(c, n)
<1>1. Exact!InitDev = InitDev
  BY DEF Exact!InitDev, InitDev, Exact!timers_init, timers_init
<1>2. \A d : Exact!Stat(d) = Stat(d)
  BY DEF Exact!Stat, Stat, Exact!VBlank, VBlank
<1>3. \A tm : Exact!ReadMode(tm) = ReadMode(tm)
  BY DEF Exact!ReadMode, ReadMode
<1>4. \A d : Exact!Reads(d) = Reads(d)
  BY <1>2, <1>3, Zenon DEF Exact!Reads, Reads
<1>5. \A tm, m : Exact!WriteMode(tm, m) = WriteMode(tm, m)
  BY DEF Exact!WriteMode, WriteMode
<1>6. \A d, keep : Exact!interrupt_write_stat(d, keep) = interrupt_write_stat(d, keep)
  BY DEF Exact!interrupt_write_stat, interrupt_write_stat, Exact!VBlank, VBlank
<1>7. Exact!Sources = Sources
  BY DEF Exact!Sources, Sources, Exact!VBlank, VBlank
<1>8. \A d : Exact!Writes(d) = Writes(d)
  <2> SUFFICES ASSUME NEW d PROVE Exact!Writes(d) = Writes(d)
    OBVIOUS
  <2>1. {Exact!interrupt_write_stat(d, Exact!Sources \ {i}) : i \in Exact!Sources} = StatWrites(d)
    BY <1>6, <1>7 DEF StatWrites
  <2>2. {[d EXCEPT !.tm[t] = Exact!WriteMode(@, m)] : t \in Timers, m \in Modes} = ModeWrites(d)
    BY <1>5 DEF ModeWrites
  <2>3. Writes(d) = StatWrites(d) \cup ModeWrites(d) \cup TargetWrites(d) \cup CounterWrites(d)
    BY DEF Writes, StatWrites, ModeWrites, TargetWrites, CounterWrites
  <2>4. Exact!Writes(d) = {Exact!interrupt_write_stat(d, Exact!Sources \ {i}) : i \in Exact!Sources}
          \cup {[d EXCEPT !.tm[t] = Exact!WriteMode(@, m)] : t \in Timers, m \in Modes} \cup TargetWrites(d) \cup CounterWrites(d)
    BY DEF Exact!Writes, TargetWrites, CounterWrites
  <2> QED BY <2>1, <2>2, <2>3, <2>4
<1>9. \A c, n : Exact!Later(c, n) = Later(c, n)
  BY DEF Exact!Later, Later
<1> QED BY <1>1, <1>2, <1>4, <1>8, <1>9

\* Within the deadline, being in an exception changes nothing that is counted.
LEMMA AheadKeeps ==
    ASSUME NEW d, DevOK(d), NEW b \in Nat, NEW l \in Nat, Fits(d, b, l)
    PROVE  Ahead(d, b, TRUE) = Ahead(d, b, FALSE)
<1>1. CASE b = 0
  BY <1>1 DEF Ahead
<1>2. CASE b # 0
  <2>1. PICK r : r = [tm |-> TimersAfter(d, b), since |-> d.since + b, vblank |-> d.vblank]
    OBVIOUS
  <2>2. \A e \in BOOLEAN : Ahead(d, b, e) = r
    BY <1>2, <2>1, AheadIs
  <2> QED BY <2>2
<1> QED BY <1>1, <1>2

\* Servicing a VBlank before or after the devices are brought up is the same.
LEMMA AheadServes ==
    ASSUME NEW d, DevOK(d), NEW b \in Nat, NEW l \in Nat, Fits(d, b, l),
           NEW r, r = interrupts_service_scheduled_events(d, FALSE)
    PROVE  interrupts_service_scheduled_events(Ahead(d, b, FALSE), FALSE) = Ahead(r, b, FALSE)
<1>1. CASE b = 0
  BY <1>1 DEF Ahead
<1>2. CASE b # 0
  <2>1. r = d
    BY <1>2, ServiceFits
  <2>2. PICK q : q = Ahead(d, b, FALSE)
    OBVIOUS
  <2>3. FALSE \in BOOLEAN
    OBVIOUS
  <2>4. DevOK(q) /\ q.since < VBLANK_CYCLES
    BY <1>2, <2>2, <2>3, AheadIs
  <2>5. interrupts_service_scheduled_events(q, FALSE) = q
    BY <2>3, <2>4, ServiceOK
  <2> QED BY <2>1, <2>2, <2>5
<1> QED BY <1>1, <1>2

\* I_STAT is the same, brought up or not.
LEMMA GuestStat == CInv => Stat(GuestDev) = Stat(dev)
<1> SUFFICES ASSUME CInv PROVE Stat(GuestDev) = Stat(dev)
  OBVIOUS
<1>1. GuestDev.vblank = dev.vblank /\ \A t \in Timers : GuestDev.tm[t].irq = dev.tm[t].irq
  BY GuestDevIs
<1> QED BY <1>1 DEF Stat

\* GuestDevIs as an implication.
LEMMA GuestDevNow == CInv => GuestDev = Ahead(dev, debt, exc)
BY GuestDevIs

\* Every step of the clock is a step of the abstract clock.
LEMMA NextExact == CInv /\ CInv' /\ [RunNext]_vars => [Exact!Next]_(Exact!clockVars)
<1> SUFFICES ASSUME CInv, CInv', [RunNext]_vars PROVE [Exact!Next]_(Exact!clockVars)
  OBVIOUS
<1>0. DevOK(dev) /\ exc \in BOOLEAN /\ debt \in Nat /\ left \in Nat /\ Fits(dev, debt, left)
  BY DEF CInv, DeadlineBeforeEvent, Fits
<1>1. GuestDev = Ahead(dev, debt, exc) /\ Stat(GuestDev) = Stat(dev)
  BY GuestDevNow, GuestStat
<1>2. (GuestDev)' = Ahead(dev', debt', exc')
  <2>1. (GuestDev = Ahead(dev, debt, exc))'
    BY GuestDevNow, PTL
  <2> QED BY <2>1
<1>3. Stat(GuestDev)' = Stat(dev')
  <2>1. (Stat(GuestDev) = Stat(dev))'
    BY GuestStat, PTL
  <2> QED BY <2>1
<1> HIDE DEF GuestDev
<1>4. ASSUME NEW c \in Charges, psx_advance_cycles(c) PROVE Exact!Next
  <2>1. c \in Nat \ {0} /\ exc' = exc
    BY <1>4, ClockAssumption DEF psx_advance_cycles
  <2>2. PICK n \in Nat : n = debt + c
    BY <1>0, <2>1
  <2>3. psx_advance_cycles_exact(GuestDev, c, exc) = Ahead(dev, n, exc)
    BY <1>0, <1>1, <2>1, <2>2, ChargeMore
  <2>4. (GuestDev)' = Ahead(dev, n, exc)
    <3>1. CASE left = 0 \/ c >= left
      <4>1. dev' = psx_devices_service_to_now(dev, n, exc) /\ debt' = 0
        BY <1>4, <2>2, <3>1 DEF psx_advance_cycles
      <4>2. dev' = Ahead(dev, n, exc)
        BY <1>0, <4>1, ReplayIsExact
      <4>3. (GuestDev)' = dev'
        BY <1>2, <4>1 DEF Ahead
      <4> QED BY <4>2, <4>3
    <3>2. CASE ~ (left = 0 \/ c >= left)
      <4>1. dev' = dev /\ debt' = n
        BY <1>4, <2>2, <3>2 DEF psx_advance_cycles
      <4> QED BY <1>2, <2>1, <4>1
    <3> QED BY <3>1, <3>2
  <2>5. (GuestDev)' = Exact!psx_advance_cycles_exact(GuestDev, c, exc)
    BY <2>3, <2>4, SameExact
  <2>6. cooldown' = Exact!Later(cooldown, c) /\ seen' = <<>> /\ UNCHANGED <<mask, exc, pre>>
    BY <1>4, SameRegisters DEF psx_advance_cycles
  <2>7. Exact!Charge(c)
    BY <2>5, <2>6, Zenon DEF Exact!Charge
  <2> QED BY <1>4, <2>7, Zenon DEF Exact!Next
<1>5. Synced = GuestDev
  BY <1>0, <1>1, ReplayIsExact DEF Synced
<1>6. ASSUME debt' = 0 PROVE (GuestDev)' = dev'
  BY <1>2, <1>6 DEF Ahead
<1>7. CASE mmio_read
  <2>1. \E r \in Reads(GuestDev) : seen' = r[1] /\ (GuestDev)' = r[2]
    BY <1>5, <1>6, <1>7 DEF mmio_read, MmioSync
  <2>2. \E r \in Exact!Reads(GuestDev) : seen' = r[1] /\ (GuestDev)' = r[2]
    BY <2>1, SameRegisters
  <2>3. UNCHANGED <<mask, exc, pre, cooldown>>
    BY <1>7 DEF mmio_read
  <2>4. Exact!ReadRegister
    BY <2>2, <2>3, Zenon DEF Exact!ReadRegister
  <2> QED BY <2>4, Zenon DEF Exact!Next
<1>8. CASE mmio_write
  <2>1. \/ mask' \in Masks /\ (GuestDev)' = GuestDev
        \/ (GuestDev)' \in Writes(GuestDev) /\ mask' = mask
    BY <1>5, <1>6, <1>8 DEF mmio_write, MmioSync
  <2>2. \/ mask' \in Masks /\ (GuestDev)' = GuestDev
        \/ (GuestDev)' \in Exact!Writes(GuestDev) /\ mask' = mask
    BY <2>1, SameRegisters
  <2>3. seen' = <<>> /\ UNCHANGED <<exc, pre, cooldown>>
    BY <1>8 DEF mmio_write
  <2>4. Exact!WriteRegister
    BY <2>2, <2>3, Zenon DEF Exact!WriteRegister
  <2> QED BY <2>4, Zenon DEF Exact!Next
<1>9. ASSUME ~ exc, dev' = interrupts_service_scheduled_events(dev, FALSE), debt' = debt, exc' \in BOOLEAN
      PROVE  (GuestDev)' = Exact!interrupts_service_scheduled_events(GuestDev, FALSE)
  <2>1. DevOK(dev') /\ Fits(dev', debt, left)
    BY <1>0, <1>9, ServiceFits
  <2>2. (GuestDev)' = Ahead(dev', debt, exc')
    BY <1>2, <1>9
  <2>3. Ahead(dev', debt, exc') = Ahead(dev', debt, FALSE)
    BY <1>0, <1>9, <2>1, AheadKeeps
  <2>4. GuestDev = Ahead(dev, debt, FALSE)
    BY <1>0, <1>1, <1>9
  <2>5. interrupts_service_scheduled_events(GuestDev, FALSE) = Ahead(dev', debt, FALSE)
    BY <1>0, <1>9, <2>4, AheadServes
  <2> QED BY <2>2, <2>3, <2>5, SameAdvance
<1>10. Exact!Cooling = Cooling /\ Exact!Stat(GuestDev) = Stat(dev) /\ Exact!Stat(GuestDev)' = Stat(dev')
  <2>1. Exact!Cooling = Cooling
    BY DEF Exact!Cooling, Cooling
  <2>2. Exact!Stat(GuestDev) = Stat(dev)
    BY <1>1, SameRegisters
  <2>3. Exact!Stat(GuestDev)' = Stat(dev')
    BY <1>3, SameRegisters
  <2> QED BY <2>1, <2>2, <2>3
<1>11. CASE psx_check_interrupts
  <2>1. ~ exc /\ dev' = interrupts_service_scheduled_events(dev, FALSE) /\ debt' = debt /\ exc' = TRUE
    BY <1>11 DEF psx_check_interrupts, Deliver
  <2>2. (GuestDev)' = Exact!interrupts_service_scheduled_events(GuestDev, FALSE)
    BY <1>9, <2>1
  <2>3. /\ Exact!Stat(GuestDev) \cap mask # {} /\ ~ Exact!Cooling
        /\ pre' = Exact!Stat(GuestDev)'
        /\ cooldown' = NoCooldown /\ seen' = <<>> /\ UNCHANGED mask
    BY <1>10, <1>11 DEF psx_check_interrupts, Deliver
  <2>4. Exact!Deliver
    BY <2>1, <2>2, <2>3, Zenon DEF Exact!Deliver
  <2> QED BY <2>4, Zenon DEF Exact!Next
<1>12. CASE CheckNothing
  <2>1. ~ exc /\ dev' = interrupts_service_scheduled_events(dev, FALSE) /\ debt' = debt /\ exc' = exc
    BY <1>12 DEF CheckNothing, CheckOnly
  <2>2. (GuestDev)' = Exact!interrupts_service_scheduled_events(GuestDev, FALSE)
    BY <1>0, <1>9, <2>1
  <2>3. /\ Exact!Stat(GuestDev) \cap mask # {}
        /\ cooldown' = (IF Exact!Cooling THEN cooldown ELSE NoCooldown)
        /\ seen' = <<>> /\ UNCHANGED <<mask, exc, pre>>
    BY <1>10, <1>12 DEF CheckNothing, CheckOnly
  <2>4. Exact!CheckOnly
    BY <2>1, <2>2, <2>3, Zenon DEF Exact!CheckOnly
  <2> QED BY <2>4, Zenon DEF Exact!Next
<1>13. CASE ExceptionReturn
  <2>1. exc /\ exc' = FALSE /\ dev' = dev /\ debt' = debt /\ left' = left
    BY <1>13 DEF ExceptionReturn, Return
  <2>2. (GuestDev)' = GuestDev
    BY <1>0, <1>1, <1>2, <2>1, AheadKeeps
  <2>3. /\ cooldown' = IF Exact!Stat(GuestDev) \cap mask # {} /\ Exact!Stat(GuestDev) = pre
                       THEN UnclaimedCooldown ELSE ClaimedCooldown
        /\ pre' = {} /\ seen' = <<>> /\ mask' = mask
    BY <1>10, <1>13 DEF ExceptionReturn, Return
  <2>4. Exact!Return
    BY <2>1, <2>2, <2>3, Zenon DEF Exact!Return
  <2> QED BY <2>4, Zenon DEF Exact!Next
<1>14. CASE UNCHANGED vars
  <2>1. dev' = dev /\ debt' = debt /\ UNCHANGED <<mask, exc, pre, cooldown, seen>>
    BY <1>14 DEF vars, clockVars
  <2>2. (GuestDev)' = GuestDev
    BY <1>1, <1>2, <2>1
  <2> QED BY <2>1, <2>2, Zenon DEF Exact!clockVars
<1> QED BY <1>4, <1>7, <1>8, <1>11, <1>12, <1>13, <1>14, Zenon DEF RunNext

\* The clock starts as the abstract clock.
LEMMA InitExact == InitCycles => Exact!Init
<1> SUFFICES ASSUME InitCycles PROVE Exact!Init
  OBVIOUS
<1>1. GuestDev = dev
  BY InitCInv, GuestDevNow DEF InitCycles, Ahead
<1> HIDE DEF GuestDev
<1>2. GuestDev = Exact!InitDev
  BY <1>1, SameRegisters DEF InitCycles, Init
<1> QED BY <1>2 DEF InitCycles, Init, Exact!Init

\* psx_cycles.c, for every width, charge and sequence of accesses: with devices
\* brought up late, the guest reads the same values, sees the same I_STAT at
\* every check and takes the same interrupts as when every cycle reaches every
\* device ("Guest-visible semantics are IDENTICAL").
THEOREM CyclesImplementsExact == CyclesSpec => ImplementsExact
<1> QED BY InitCInv, NextCInv, NextExact, InitExact, PTL DEF CyclesSpec, ImplementsExact, Exact!Spec
=============================================================================
