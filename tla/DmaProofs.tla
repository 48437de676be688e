------------------------------ MODULE DmaProofs -----------------------------
(***************************************************************************)
(* For every set of lengths, costs and guests: the DMA controller keeps its  *)
(* types, never completes a transfer that is not shown busy, loses no        *)
(* interrupt, estimates its completions from below, and does in two slices   *)
(* what it does in one.                                                      *)
(***************************************************************************)
EXTENDS Dma, TLAPS

\* What TypeOK says of one channel.
ChannelOK(k) == k \in Channel /\ k.accum <= MaxAccum

\* A transfer is either delayed or asynchronous, by its channel.
OfKind(ch, k) == IF ch \in Async THEN k.delay = 0 ELSE k.words = 0

\* Work that is left shows.
Busy(k) == k.words # 0 \/ k.delay # 0 => k.start

\* The inductive invariant.
ChansOK ==
    /\ chan \in [used -> Channel]
    /\ \A ch \in used : /\ ChannelOK(chan[ch]) /\ OfKind(ch, chan[ch])
                        /\ ch \notin rekicked => Busy(chan[ch])

RestOK ==
    /\ used \subseteq Channels /\ rekicked \subseteq used
    /\ avail \in [used -> 0..MaxAvail]
    /\ dpcr \subseteq Channels
    /\ dicr \in Dicr
    /\ irq \in BOOLEAN /\ halted \in BOOLEAN /\ acked \in BOOLEAN

IInv == ChansOK /\ RestOK /\ IrqNotLost

----------------------------------------------------------------------------
(* Arithmetic. *)

\* A quotient times its divisor does not exceed the dividend.
LEMMA DivTimes ==
  ASSUME NEW a \in Nat, NEW b \in Nat \ {0}
  PROVE  a \div b \in Nat /\ (a \div b) * b <= a
OBVIOUS

\* Multiplication by a natural number is monotone.
LEMMA TimesMonotone ==
  ASSUME NEW a \in Nat, NEW b \in Nat, NEW m \in Nat, a <= b
  PROVE  a * m \in Nat /\ a * m <= b * m
OBVIOUS

\* The accumulator saturates.
LEMMA AccumOK ==
  ASSUME NEW k, ChannelOK(k), NEW c \in Nat
  PROVE  Accum(k, c) \in Nat /\ Accum(k, c) <= MaxAccum
BY DmaAssumption DEF Accum, ChannelOK, Channel

\* A call moves no more words than are left, than the device has, and than the
\* accumulated cycles pay for.
LEMMA MovedOK ==
  ASSUME NEW ch \in Channels, NEW k, ChannelOK(k), NEW av \in Nat, NEW c \in Nat
  PROVE  LET n == Moved(ch, k, av, c)
         IN  /\ n \in Nat /\ n <= k.words /\ n <= av
             /\ n * CyclesPerWord[ch] \in Nat
             /\ n * CyclesPerWord[ch] <= Accum(k, c)
<1> DEFINE a == Accum(k, c)
           m == CyclesPerWord[ch]
           n == Moved(ch, k, av, c)
<1>1. a \in Nat
  BY AccumOK
<1>2. m \in Nat \ {0}
  BY DmaAssumption
<1>3. a \div m \in Nat /\ (a \div m) * m <= a
  BY <1>1, <1>2, DivTimes
<1>4. k.words \in Nat
  BY DEF ChannelOK, Channel
<1>5. n \in Nat /\ n <= k.words /\ n <= av /\ n <= a \div m
  <2> HIDE DEF a, m
  <2>1. n = 0 \/ n = Lesser(k.words, Lesser(av, a \div m))
    BY DEF Moved, a, m
  <2> QED BY <2>1, <1>3, <1>4 DEF Lesser
<1>6. n * m \in Nat /\ n * m <= (a \div m) * m
  <2> HIDE DEF a, m, n
  <2> QED BY <1>5, <1>3, <1>2, TimesMonotone
<1>7. (a \div m) * m \in Nat
  <2> HIDE DEF a, m, n
  <2> QED BY <1>3, <1>2, TimesMonotone
<1> QED
  <2>1. n * m <= a
    <3> HIDE DEF a, m, n
    <3> QED BY <1>1, <1>3, <1>6, <1>7
  <2> QED BY <2>1, <1>5, <1>6

----------------------------------------------------------------------------
(* Channels. *)

\* Completing a channel clears its start bit and nothing else.
LEMMA CompletedOK ==
  ASSUME NEW k, ChannelOK(k)
  PROVE  /\ ChannelOK(Completed(k)) /\ ~ Completed(k).start
         /\ Completed(k).words = k.words /\ Completed(k).delay = k.delay
<1>1. k \in Channel /\ k.accum <= MaxAccum
  BY DEF ChannelOK
<1>2. Completed(k) \in Channel
  BY <1>1 DEF Completed, Channel
<1>3. /\ Completed(k).words = k.words /\ Completed(k).delay = k.delay
      /\ Completed(k).accum = k.accum /\ ~ Completed(k).start
  BY <1>1 DEF Completed, Channel
<1> QED BY <1>1, <1>2, <1>3 DEF ChannelOK

\* Cancelling a transfer leaves no work behind.
LEMMA CancelledOK ==
  ASSUME NEW k, ChannelOK(k)
  PROVE  /\ ChannelOK(Cancelled(k))
         /\ Cancelled(k).words = 0 /\ Cancelled(k).delay = 0
<1>1. k \in Channel /\ MaxAccum \in Nat
  BY DmaAssumption DEF ChannelOK
<1>2. Cancelled(k) \in Channel
  BY <1>1 DEF Cancelled, Channel
<1>3. Cancelled(k).words = 0 /\ Cancelled(k).delay = 0 /\ Cancelled(k).accum = 0
  BY <1>1 DEF Cancelled, Channel
<1> QED BY <1>1, <1>2, <1>3 DEF ChannelOK

\* Writing the word count and the accumulator.
LEMMA ProgressOK ==
  ASSUME NEW k, ChannelOK(k), NEW n \in Nat, NEW a \in Nat, a <= MaxAccum
  PROVE  /\ ChannelOK(WithWork(k, n, a))
         /\ WithWork(k, n, a).words = n /\ WithWork(k, n, a).delay = k.delay
         /\ k.start => WithWork(k, n, a).start
<1>1. k \in Channel
  BY DEF ChannelOK
<1>2. WithWork(k, n, a) \in Channel
  BY <1>1 DEF Channel, WithWork
<1>3. /\ WithWork(k, n, a).words = n /\ WithWork(k, n, a).delay = k.delay
      /\ WithWork(k, n, a).accum = a
      /\ k.start => WithWork(k, n, a).start
  BY <1>1 DEF Channel, WithWork
<1> QED BY <1>2, <1>3 DEF ChannelOK

\* Writing the delay.
LEMMA DelayOK ==
  ASSUME NEW k, ChannelOK(k), NEW d \in Nat, NEW after, after = [k EXCEPT !.delay = d]
  PROVE  /\ ChannelOK(after)
         /\ after.words = k.words /\ after.delay = d /\ (k.start => after.start)
<1>1. k \in Channel /\ k.accum <= MaxAccum
  BY DEF ChannelOK
<1>2. after \in Channel
  BY <1>1 DEF Channel
<1>3. /\ after.words = k.words /\ after.delay = d /\ (k.start => after.start)
      /\ after.accum = k.accum
  BY <1>1 DEF Channel
<1> QED BY <1>1, <1>2, <1>3 DEF ChannelOK

\* What a call of dma_advance leaves of an asynchronous transfer.
LEMMA AsyncOK ==
  ASSUME NEW ch \in Channels, NEW k, ChannelOK(k), NEW av \in Nat, NEW c \in Nat,
         NEW after, after = AdvanceAsync(ch, k, av, c)
  PROVE  /\ ChannelOK(after)
         /\ k.delay = 0 => after.delay = 0
         /\ after.words # 0 => k.words # 0 /\ (k.start => after.start)
<1> DEFINE n == Moved(ch, k, av, c)
           w == n * CyclesPerWord[ch]
           a == Accum(k, c)
<1>1. n \in Nat /\ n <= k.words /\ w \in Nat /\ w <= a
  BY MovedOK
<1>2. a \in Nat /\ a <= MaxAccum
  BY AccumOK
<1>3. \/ after = k
      \/ after = Completed(Cancelled(k))
      \/ after = WithWork(k, k.words - n, a - w) /\ n # k.words
  <2> HIDE DEF n, w, a
  <2> QED BY DEF AdvanceAsync, n, w, a
<1>4. CASE after = k
  BY <1>4
<1>5. CASE after = Completed(Cancelled(k))
  BY <1>5, CancelledOK, CompletedOK
<1>6. CASE after = WithWork(k, k.words - n, a - w) /\ n # k.words
  <2> DEFINE left == k.words - n
             rest == a - w
  <2>1. k.words \in Nat
    BY DEF ChannelOK, Channel
  <2>2. left \in Nat /\ rest \in Nat /\ rest <= MaxAccum /\ k.words # 0
    <3> HIDE DEF n, w, a
    <3> QED BY <1>1, <1>2, <1>6, <2>1, DmaAssumption
  <2>3. after = WithWork(k, left, rest)
    BY <1>6
  <2> HIDE DEF left, rest
  <2> QED BY <2>2, <2>3, ProgressOK
<1> QED BY <1>3, <1>4, <1>5, <1>6

\* What it leaves of a delayed completion.
LEMMA DelayedOK ==
  ASSUME NEW k, ChannelOK(k), NEW c \in Nat
  PROVE  /\ ChannelOK(AdvanceDelayed(k, c))
         /\ AdvanceDelayed(k, c).words = k.words
         /\ k.delay = 0 => AdvanceDelayed(k, c) = k
         /\ AdvanceDelayed(k, c).delay # 0 => k.delay # 0
                                              /\ (k.start => AdvanceDelayed(k, c).start)
<1> DEFINE d == k.delay - c
<1>1. k.delay \in Nat
  BY DEF ChannelOK, Channel
<1>2. CASE k.delay = 0
  BY <1>2 DEF AdvanceDelayed
<1>3. CASE k.delay # 0 /\ c < k.delay
  <2>1. AdvanceDelayed(k, c) = [k EXCEPT !.delay = d]
    BY <1>3 DEF AdvanceDelayed
  <2>2. d \in Nat
    BY <1>1, <1>3
  <2> HIDE DEF d
  <2> QED BY <1>3, <2>1, <2>2, DelayOK
<1>4. CASE k.delay # 0 /\ ~ (c < k.delay)
  <2> DEFINE b == [k EXCEPT !.delay = 0]
  <2>1. AdvanceDelayed(k, c) = Completed(b)
    BY <1>4 DEF AdvanceDelayed
  <2>2. ChannelOK(b) /\ b.words = k.words /\ b.delay = 0
    BY DelayOK
  <2> HIDE DEF b
  <2> QED BY <1>4, <2>1, <2>2, CompletedOK
<1> QED BY <1>2, <1>3, <1>4

\* Neither kind of transfer turns into the other, and a transfer that is left
\* with work stays busy.
LEMMA AdvanceOK ==
  ASSUME NEW ch \in Channels, NEW k, ChannelOK(k), NEW av \in Nat, NEW c \in Nat,
         OfKind(ch, k),
         NEW after, after = AdvanceChannel(ch, k, av, c)
  PROVE  /\ ChannelOK(after)
         /\ OfKind(ch, after)
         /\ Busy(k) => Busy(after)
<1>1. CASE ch \in Async
  <2> DEFINE b == AdvanceAsync(ch, k, av, c)
  <2>1. ChannelOK(b) /\ b.delay = 0
        /\ (b.words # 0 => k.words # 0 /\ (k.start => b.start))
    BY <1>1, AsyncOK DEF OfKind
  <2>2. after = AdvanceDelayed(b, c)
    BY <1>1 DEF AdvanceChannel
  <2>3. after = b
    <3> HIDE DEF b
    <3> QED BY <2>1, <2>2, DelayedOK
  <2> QED BY <1>1, <2>1, <2>3 DEF OfKind, Busy
<1>2. CASE ch \notin Async
  <2>1. after = AdvanceDelayed(k, c)
    BY <1>2 DEF AdvanceChannel
  <2> QED BY <1>2, <2>1, DelayedOK DEF OfKind, Busy
<1> QED BY <1>1, <1>2

\* A kick leaves a channel of its own kind, busy if there is work left.
LEMMA ExecutedOK ==
  ASSUME NEW ch \in Channels \ {Pio}, NEW k, ChannelOK(k), k.start,
         OfKind(ch, k),
         NEW after \in Executed(ch, k)
  PROVE  /\ ChannelOK(after)
         /\ OfKind(ch, after)
         /\ k.words = 0 /\ k.delay = 0 => Busy(after)
<1>1. transfer_word_count(ch, k) \in Nat
  BY DmaAssumption DEF transfer_word_count, ChannelOK, Channel
<1>2. ASSUME NEW n \in Nat, ch \notin Async, after = Scheduled(ch, k, n)
      PROVE  /\ ChannelOK(after) /\ after.words = 0
             /\ k.words = 0 /\ k.delay = 0 => (after.delay # 0 => after.start)
  <2>1. n * CyclesPerWord[ch] \in Nat
    BY DmaAssumption, TimesMonotone
  <2>2. CASE n = 0
    BY <1>2, <2>2, CompletedOK DEF Scheduled, OfKind
  <2>3. CASE n # 0
    <3> DEFINE d == n * CyclesPerWord[ch]
    <3>1. after = [k EXCEPT !.delay = d]
      BY <1>2, <2>3 DEF Scheduled
    <3> HIDE DEF d
    <3>2. d \in Nat
      BY <2>1 DEF d
    <3> QED BY <1>2, <3>1, <3>2, DelayOK DEF OfKind
  <2> QED BY <2>2, <2>3
<1>3. CASE ch = Gpu
  <2>1. ch \notin Async
    BY <1>3 DEF Gpu, Async, MdecIn, MdecOut, Cdrom
  <2>2. PICK n \in GpuWords(k) : after = Scheduled(ch, k, n)
    <3>1. Executed(ch, k) = {Scheduled(ch, k, n) : n \in GpuWords(k)}
      BY <1>3 DEF Executed, Gpu, Spu, Otc, Cdrom
    <3> QED BY <3>1
  <2>3. n \in Nat
    BY <1>1, <1>3, <2>2, DmaAssumption DEF GpuWords, ChannelOK, Channel
  <2> QED BY <1>2, <2>1, <2>2, <2>3 DEF OfKind, Busy
<1>4. CASE ch = Spu
  <2>1. ch \notin Async
    BY <1>4 DEF Spu, Async, MdecIn, MdecOut, Cdrom
  <2>2. after = Scheduled(ch, k, transfer_word_count(ch, k))
    <3>1. Executed(ch, k) = {Scheduled(ch, k, transfer_word_count(ch, k))}
      BY <1>4 DEF Executed, Gpu, Spu, Otc, Cdrom
    <3> QED BY <3>1
  <2> QED BY <1>1, <1>2, <2>1, <2>2 DEF OfKind, Busy
<1>5. CASE ch # Gpu /\ ch # Spu
  <2>1. after = Completed(k) \/ (after = Started(ch, k) /\ ch # Otc)
    BY <1>5 DEF Executed
  <2>2. CASE after = Completed(k)
    BY <2>2, CompletedOK DEF OfKind, Busy
  <2>3. CASE after = Started(ch, k) /\ ch # Otc
    <3>1. CASE after = k
      BY <3>1 DEF OfKind, Busy
    <3>2. CASE after = WithWork(k, transfer_word_count(ch, k), 0) /\ k.words = 0
      <4>1. ChannelOK(after) /\ after.delay = k.delay /\ after.start
        <5> DEFINE n == transfer_word_count(ch, k)
        <5>1. n \in Nat /\ 0 <= MaxAccum /\ after = WithWork(k, n, 0)
          BY <1>1, <3>2, DmaAssumption
        <5> HIDE DEF n
        <5> QED BY <5>1, ProgressOK
      <4>2. ch \in Async
        BY <1>5, <2>3 DEF Channels, Async, MdecIn, MdecOut, Gpu, Cdrom, Spu, Pio, Otc
      <4> QED BY <4>1, <4>2 DEF OfKind, Busy
    <3> QED BY <2>3, <3>1, <3>2 DEF Started
  <2> QED BY <2>1, <2>2, <2>3
<1> QED BY <1>3, <1>4, <1>5

----------------------------------------------------------------------------
(* Steps. *)

\* A step that replaces one channel by a good one keeps all of them good.
LEMMA OneChannel ==
  ASSUME ChansOK, used' = used,
         NEW ch \in used, NEW x, ChannelOK(x), OfKind(ch, x),
         ch \notin rekicked' => Busy(x),
         rekicked \ {ch} \subseteq rekicked',
         chan' = [chan EXCEPT ![ch] = x]
  PROVE  ChansOK'
<1>1. x \in Channel
  BY DEF ChannelOK
<1>2. chan' \in [used -> Channel]
  BY <1>1 DEF ChansOK
<1>3. ASSUME NEW d \in used
      PROVE  /\ ChannelOK(chan'[d]) /\ OfKind(d, chan'[d])
             /\ d \notin rekicked' => Busy(chan'[d])
  <2>1. CASE d = ch
    <3>1. chan'[d] = x
      BY <2>1 DEF ChansOK
    <3> QED BY <2>1, <3>1
  <2>2. CASE d # ch
    <3>1. chan'[d] = chan[d]
      BY <2>2 DEF ChansOK
    <3> QED BY <2>2, <3>1 DEF ChansOK
  <2> QED BY <2>1, <2>2
<1> QED BY <1>2, <1>3 DEF ChansOK, ChannelOK, OfKind, Busy

\* raise_dma_irq_on_master_edge after every change of DICR loses no interrupt.
LEMMA RaiseOK ==
  ASSUME RestOK, IrqNotLost, Raise(dicr, dicr')
  PROVE  irq' \in BOOLEAN /\ acked' \in BOOLEAN /\ IrqNotLost'
BY DEF RestOK, IrqNotLost, Raise, RisesFrom, dicr_master_flag

\* Completions only add flags of the channels there are.
LEMMA LatchedOK ==
  ASSUME NEW d \in Dicr, NEW done \in SUBSET Channels
  PROVE  Latched(d, done) \in Dicr
BY DEF Latched, Dicr

\* dma_init establishes the invariant.
LEMMA InitOK == Init => IInv
<1> SUFFICES ASSUME Init PROVE IInv
  OBVIOUS
<1>1. used \subseteq Channels
  BY DmaAssumption DEF Init
<1>2. ChansOK
  BY DmaAssumption DEF Init, ChansOK, ChannelOK, Channel, OfKind, Busy
<1>3. RestOK
  <2>1. dicr \in Dicr
    BY DEF Init, Dicr, Control
  <2>2. avail \in [used -> 0..MaxAvail]
    BY DmaAssumption DEF Init
  <2>3. irq \in BOOLEAN /\ halted \in BOOLEAN /\ acked \in BOOLEAN
    BY DEF Init
  <2> QED BY <1>1, <2>1, <2>2, <2>3 DEF Init, RestOK
<1>4. IrqNotLost
  BY DEF Init, IrqNotLost, dicr_master_flag
<1> QED BY <1>2, <1>3, <1>4 DEF IInv

\* Every step keeps the invariant.
LEMMA StepOK == IInv /\ [Next]_vars => IInv'
<1> SUFFICES ASSUME IInv, [Next]_vars PROVE IInv'
  OBVIOUS
<1> USE DEF IInv
<1>1. CASE write_dpcr
  <2>1. ChansOK'
    BY <1>1 DEF write_dpcr, ghostVars, ChansOK, ChannelOK, OfKind, Busy
  <2>2. RestOK'
    BY <1>1, DmaAssumption DEF write_dpcr, ghostVars, RestOK
  <2>3. IrqNotLost'
    BY <1>1 DEF write_dpcr, ghostVars, IrqNotLost
  <2> QED BY <2>1, <2>2, <2>3
<1>2. CASE write_dicr
  <2>1. ChansOK'
    BY <1>2 DEF write_dicr, ChansOK, ChannelOK, OfKind, Busy
  <2>2. dicr' \in Dicr
    BY <1>2, DmaAssumption DEF write_dicr, RestOK, Dicr
  <2>3. irq' \in BOOLEAN /\ acked' \in BOOLEAN /\ IrqNotLost'
    BY <1>2, RaiseOK DEF write_dicr
  <2>4. RestOK'
    BY <1>2, <2>2, <2>3 DEF write_dicr, RestOK
  <2> QED BY <2>1, <2>3, <2>4
<1>3. CASE Acknowledge
  <2>1. ChansOK'
    BY <1>3 DEF Acknowledge, ChansOK, ChannelOK, OfKind, Busy
  <2>2. RestOK' /\ IrqNotLost'
    BY <1>3 DEF Acknowledge, RestOK, IrqNotLost, dicr_master_flag
  <2> QED BY <2>1, <2>2
<1>4. ASSUME NEW ch \in Channels, write_bcr(ch) PROVE IInv'
  <2>1. PICK n \in Lengths : chan' = [chan EXCEPT ![ch].bcr = n]
    BY <1>4 DEF write_bcr
  <2> DEFINE x == [chan[ch] EXCEPT !.bcr = n]
  <2>2. ch \in used /\ ChannelOK(chan[ch]) /\ OfKind(ch, chan[ch])
        /\ (ch \notin rekicked => Busy(chan[ch]))
    BY <1>4 DEF write_bcr, ChansOK
  <2>3. n \in Nat
    BY DmaAssumption
  <2>4. x \in Channel /\ x.accum = chan[ch].accum /\ x.words = chan[ch].words
        /\ x.delay = chan[ch].delay /\ (chan[ch].start => x.start)
    BY <2>2, <2>3 DEF ChannelOK, Channel
  <2>5. ChannelOK(x) /\ OfKind(ch, x) /\ (ch \notin rekicked => Busy(x))
    BY <2>2, <2>4 DEF ChannelOK, OfKind, Busy
  <2>6. chan' = [chan EXCEPT ![ch] = x]
    BY <2>1
  <2> HIDE DEF x
  <2>7. ChansOK'
    BY <1>4, <2>2, <2>5, <2>6, OneChannel DEF write_bcr, ghostVars
  <2>8. RestOK' /\ IrqNotLost'
    BY <1>4 DEF write_bcr, ghostVars, RestOK, IrqNotLost, dicr_master_flag
  <2> QED BY <2>7, <2>8
<1>5. ASSUME NEW ch \in Channels, write_chcr_low(ch) PROVE IInv'
  <2>1. PICK m \in Modes(ch) : chan' = [chan EXCEPT ![ch].out = m.out, ![ch].sync = m.sync]
    BY <1>5 DEF write_chcr_low
  <2> DEFINE x == [chan[ch] EXCEPT !.out = m.out, !.sync = m.sync]
  <2>2. ch \in used /\ ChannelOK(chan[ch]) /\ OfKind(ch, chan[ch])
        /\ (ch \notin rekicked => Busy(chan[ch]))
    BY <1>5 DEF write_chcr_low, ChansOK
  <2>3. m.out \in BOOLEAN /\ m.sync \in {"burst", "block", "list"}
    BY DEF Modes
  <2>4. x \in Channel /\ x.accum = chan[ch].accum /\ x.words = chan[ch].words
        /\ x.delay = chan[ch].delay /\ (chan[ch].start => x.start)
    BY <2>2, <2>3 DEF ChannelOK, Channel
  <2>5. ChannelOK(x) /\ OfKind(ch, x) /\ (ch \notin rekicked => Busy(x))
    BY <2>2, <2>4 DEF ChannelOK, OfKind, Busy
  <2>6. chan' = [chan EXCEPT ![ch] = x]
    BY <2>1, <2>2 DEF ChansOK
  <2> HIDE DEF x
  <2>7. ChansOK'
    BY <1>5, <2>2, <2>5, <2>6, OneChannel DEF write_chcr_low, ghostVars
  <2>8. RestOK' /\ IrqNotLost'
    BY <1>5 DEF write_chcr_low, ghostVars, RestOK, IrqNotLost, dicr_master_flag
  <2> QED BY <2>7, <2>8
<1>6. ASSUME NEW ch \in Channels, write_chcr_stop(ch) PROVE IInv'
  <2> DEFINE x == Completed(Cancelled(chan[ch]))
  <2>1. ch \in used /\ ChannelOK(chan[ch])
    BY <1>6 DEF write_chcr_stop, ChansOK
  <2>2. ChannelOK(x) /\ x.words = 0 /\ x.delay = 0
    BY <2>1, CancelledOK, CompletedOK
  <2>3. chan' = [chan EXCEPT ![ch] = x]
    BY <1>6 DEF write_chcr_stop
  <2> HIDE DEF x
  <2>4. OfKind(ch, x) /\ Busy(x)
    BY <2>2 DEF OfKind, Busy
  <2>5. ChansOK'
    BY <1>6, <2>1, <2>2, <2>3, <2>4, OneChannel DEF write_chcr_stop
  <2>6. RestOK' /\ IrqNotLost'
    BY <1>6 DEF write_chcr_stop, RestOK, IrqNotLost, dicr_master_flag
  <2> QED BY <2>5, <2>6
<1>7. ASSUME NEW ch \in Channels, write_chcr_start(ch) PROVE IInv'
  <2> DEFINE k == [chan[ch] EXCEPT !.start = TRUE]
  <2>1. ch \in used /\ ChannelOK(chan[ch]) /\ OfKind(ch, chan[ch])
    BY <1>7 DEF write_chcr_start, ChansOK
  <2>2. k \in Channel /\ k.accum = chan[ch].accum /\ k.words = chan[ch].words
        /\ k.delay = chan[ch].delay /\ k.start
    BY <2>1 DEF ChannelOK, Channel
  <2>3. ChannelOK(k) /\ OfKind(ch, k) /\ Busy(k)
    BY <2>1, <2>2 DEF ChannelOK, OfKind, Busy
  <2>4. /\ rekicked' = IF Job(ch) THEN rekicked \cup {ch} ELSE rekicked
        /\ used' = used /\ dpcr' = dpcr /\ avail' = avail
    BY <1>7 DEF write_chcr_start
  <2>5. CASE /\ chan' = [chan EXCEPT ![ch] = k]
             /\ UNCHANGED <<dicr, irq, acked>> /\ halted' \in BOOLEAN
    <3> HIDE DEF k
    <3>1. ChansOK'
      BY <2>1, <2>3, <2>4, <2>5, OneChannel
    <3>2. RestOK' /\ IrqNotLost'
      BY <2>1, <2>4, <2>5 DEF RestOK, IrqNotLost, dicr_master_flag
    <3> QED BY <3>1, <3>2
  <2>6. CASE /\ ~ Refused(ch, k)
             /\ \E after \in Executed(ch, k) :
                    /\ chan' = [chan EXCEPT ![ch] = after]
                    /\ dicr' = Latched(dicr, IF Finishes(ch, k, after) THEN {ch} ELSE {})
                    /\ Raise(dicr, dicr')
             /\ halted' = halted
    <3>1. PICK after \in Executed(ch, k) :
                    /\ chan' = [chan EXCEPT ![ch] = after]
                    /\ dicr' = Latched(dicr, IF Finishes(ch, k, after) THEN {ch} ELSE {})
                    /\ Raise(dicr, dicr')
      BY <2>6
    <3>2. ch # Pio
      BY <2>6 DEF Refused
    <3>3. Job(ch) <=> k.words # 0 \/ k.delay # 0
      BY <2>2 DEF Job
    <3> HIDE DEF k
    <3>4. ChannelOK(after) /\ OfKind(ch, after)
          /\ (k.words = 0 /\ k.delay = 0 => Busy(after))
      BY <2>2, <2>3, <3>2, ExecutedOK
    <3>5. ch \notin rekicked' => Busy(after)
      BY <2>4, <3>3, <3>4
    <3>6. ChansOK'
      BY <2>1, <2>4, <3>1, <3>4, <3>5, OneChannel
    <3>7. dicr' \in Dicr
      BY <3>1, LatchedOK DEF RestOK
    <3>8. irq' \in BOOLEAN /\ acked' \in BOOLEAN /\ IrqNotLost'
      BY <3>1, RaiseOK
    <3>9. RestOK'
      BY <2>1, <2>4, <2>6, <3>7, <3>8 DEF RestOK
    <3> QED BY <3>6, <3>8, <3>9
  <2> QED BY <1>7, <2>5, <2>6 DEF write_chcr_start, RestOK
<1>8. ASSUME NEW ch \in Async, Supply(ch) PROVE IInv'
  <2>1. ChansOK'
    BY <1>8 DEF Supply, ghostVars, ChansOK, ChannelOK, OfKind, Busy
  <2>2. RestOK' /\ IrqNotLost'
    BY <1>8, DmaAssumption DEF Supply, ghostVars, RestOK, IrqNotLost, dicr_master_flag
  <2> QED BY <2>1, <2>2
<1>9. ASSUME NEW c \in Charges, dma_advance(c) PROVE IInv'
  <2>1. c \in Nat
    BY DmaAssumption
  <2>2. /\ chan' = [ch \in used |-> AdvanceChannel(ch, chan[ch], avail[ch], c)]
        /\ avail' = [ch \in used |-> avail[ch] - Moved(ch, chan[ch], avail[ch], c)]
        /\ dicr' = Latched(dicr, {ch \in used : Ends(ch, chan[ch], avail[ch], c)})
        /\ Raise(dicr, dicr')
        /\ UNCHANGED <<dpcr, halted, used, rekicked>>
    BY <1>9 DEF dma_advance, Advanced, Now
  <2>3. ASSUME NEW ch \in used
        PROVE  /\ ch \in Channels /\ avail[ch] \in 0..MaxAvail
               /\ ChannelOK(chan[ch]) /\ OfKind(ch, chan[ch])
               /\ ch \notin rekicked => Busy(chan[ch])
    BY <2>3 DEF RestOK, ChansOK
  <2>4. ASSUME NEW ch \in used
        PROVE  /\ ChannelOK(chan'[ch]) /\ OfKind(ch, chan'[ch])
               /\ ch \notin rekicked => Busy(chan'[ch])
    <3>1. chan'[ch] = AdvanceChannel(ch, chan[ch], avail[ch], c)
      BY <2>2, <2>4
    <3>2. avail[ch] \in Nat
      BY <2>3, DmaAssumption
    <3> QED BY <2>1, <2>3, <3>1, <3>2, AdvanceOK
  <2>5. ChansOK'
    <3>1. chan' \in [used -> Channel]
      BY <2>2, <2>4 DEF ChannelOK
    <3> QED BY <2>2, <2>4, <3>1 DEF ChansOK, ChannelOK, OfKind, Busy
  <2>6. avail' \in [used -> 0..MaxAvail]
    <3>1. ASSUME NEW ch \in used
          PROVE  avail[ch] - Moved(ch, chan[ch], avail[ch], c) \in 0..MaxAvail
      <4> DEFINE n == Moved(ch, chan[ch], avail[ch], c)
      <4>1. n \in Nat /\ n <= avail[ch]
        <5>1. avail[ch] \in Nat
          BY <2>3, DmaAssumption
        <5> QED BY <2>1, <2>3, <5>1, MovedOK
      <4> HIDE DEF n
      <4>2. avail[ch] - n \in 0..MaxAvail
        BY <2>3, <4>1, DmaAssumption
      <4> QED BY <4>2 DEF n
    <3> QED BY <2>2, <3>1
  <2>7. dicr' \in Dicr
    BY <2>2, <2>3, LatchedOK DEF RestOK
  <2>8. irq' \in BOOLEAN /\ acked' \in BOOLEAN /\ IrqNotLost'
    BY <2>2, RaiseOK
  <2>9. RestOK'
    BY <2>2, <2>6, <2>7, <2>8 DEF RestOK
  <2> QED BY <2>5, <2>8, <2>9
<1>10. CASE UNCHANGED vars
  BY <1>10 DEF vars, ghostVars, ChansOK, RestOK, IrqNotLost, dicr_master_flag,
               ChannelOK, OfKind, Busy
<1> QED BY <1>1, <1>2, <1>3, <1>4, <1>5, <1>6, <1>7, <1>8, <1>9, <1>10
        DEF Next, WriteChcr

\* The invariant gives the three properties.
LEMMA IInvImplies == IInv => TypeOK /\ JobBusy /\ IrqNotLost
BY DEF IInv, ChansOK, RestOK, ChannelOK, Busy, TypeOK, JobBusy, Job

\* The invariant holds throughout.
LEMMA Inductive == Spec => []IInv
BY InitOK, StepOK, PTL DEF Spec

\* The registers, the transfers and the accumulators of dma.c stay in range,
\* for every guest, every length and every cost per word.
THEOREM DmaTypeOK == Spec => []TypeOK
BY Inductive, IInvImplies, PTL

\* complete_transfer is never due for a channel the guest has stopped or seen
\* end, unless the guest kicked it again in the middle of a transfer.
THEOREM DmaJobBusy == Spec => []JobBusy
BY Inductive, IInvImplies, PTL

\* raise_dma_irq_on_master_edge: no rise of DICR's master flag is lost.
THEOREM DmaIrqNotLost == Spec => []IrqNotLost
BY Inductive, IInvImplies, PTL
----------------------------------------------------------------------------
(* The estimate. *)

\* A channel that completes within c cycles was at most c cycles away.
LEMMA DistanceOK ==
  ASSUME NEW ch \in Channels, NEW k, ChannelOK(k), NEW av \in Nat, NEW c \in Nat,
         Ends(ch, k, av, c), ~ WrongWay(ch, k)
  PROVE  \E n \in Distance(k) : n <= c
<1>1. k.words \in Nat /\ k.accum \in Nat /\ k.delay \in Nat
  BY DEF ChannelOK, Channel
<1>2. CASE k.delay # 0 /\ c >= k.delay
  <2>1. k.delay \in Distance(k)
    BY <1>2 DEF Distance
  <2> QED BY <1>1, <1>2, <2>1
<1>3. CASE k.words # 0 /\ Moved(ch, k, av, c) = k.words
  <2> DEFINE m == CyclesPerWord[ch]
             n == IF k.words > k.accum THEN k.words - k.accum ELSE 0
  <2>1. k.words * m <= Accum(k, c)
    BY <1>3, MovedOK
  <2>2. 1 <= m /\ m \in Nat
    BY DmaAssumption
  <2>3. k.words <= k.words * m /\ k.words * m \in Nat
    <3> HIDE DEF m
    <3>1. 1 * k.words <= m * k.words /\ m * k.words \in Nat
      BY <1>1, <2>2, TimesMonotone
    <3>2. m * k.words = k.words * m
      BY <1>1, <2>2
    <3> QED BY <1>1, <3>1, <3>2
  <2>4. Accum(k, c) <= k.accum + c /\ Accum(k, c) \in Nat
    BY <1>1, AccumOK, DmaAssumption DEF Accum
  <2>5. k.words <= k.accum + c
    <3> HIDE DEF m
    <3> QED BY <1>1, <2>1, <2>3, <2>4
  <2>6. n <= c
    BY <1>1, <2>5
  <2>7. n \in Distance(k)
    BY <1>3 DEF Distance
  <2> QED BY <2>6, <2>7
<1>4. ASSUME ch \in Async /\ Running(ch, k)
             /\ (WrongWay(ch, k) \/ Moved(ch, k, av, c) = k.words)
      PROVE  k.words # 0 /\ Moved(ch, k, av, c) = k.words
  BY <1>4 DEF Running
<1> QED BY <1>2, <1>3, <1>4 DEF Ends

\* In a state of the right types the estimates are lower bounds.
LEMMA EstimateOK == IInv => NothingDueEarly
<1> SUFFICES ASSUME IInv, NEW c \in Charges
             PROVE  LET ends == {ch \in used : Ends(ch, chan[ch], avail[ch], c)
                                                /\ ~ WrongWay(ch, chan[ch])}
                    IN  /\ ends # {} => \E n \in dma_cycles_to_irq : n <= c
                        /\ ends \cap (Advanced(Now, c).dicr.flags \ dicr.flags) # {} =>
                               \E n \in dma_cycles_to_deliverable_irq : n <= c
  BY DEF NothingDueEarly
<1> DEFINE ends == {ch \in used : Ends(ch, chan[ch], avail[ch], c)
                                   /\ ~ WrongWay(ch, chan[ch])}
           news == Advanced(Now, c).dicr.flags \ dicr.flags
<1>1. ASSUME NEW ch \in ends PROVE \E n \in Distance(chan[ch]) : n <= c
  <2>1. ch \in Channels /\ ChannelOK(chan[ch]) /\ avail[ch] \in 0..MaxAvail
    BY DEF IInv, ChansOK, RestOK
  <2>2. avail[ch] \in Nat /\ c \in Nat
    BY <2>1, DmaAssumption
  <2> QED BY <2>1, <2>2, DistanceOK
<1>2. ends # {} => \E n \in dma_cycles_to_irq : n <= c
  <2> SUFFICES ASSUME NEW ch \in ends PROVE \E n \in dma_cycles_to_irq : n <= c
    OBVIOUS
  <2>1. PICK n \in Distance(chan[ch]) : n <= c
    BY <1>1
  <2>2. n \in dma_cycles_to_irq
    BY DEF dma_cycles_to_irq
  <2> QED BY <2>1, <2>2
<1>3. ends \cap news # {} => \E n \in dma_cycles_to_deliverable_irq : n <= c
  <2> SUFFICES ASSUME NEW ch \in ends, ch \in news
               PROVE  \E n \in dma_cycles_to_deliverable_irq : n <= c
    OBVIOUS
  <2>1. channel_irq_flag_armed(dicr, ch)
    <3> DEFINE done == {d \in used : Ends(d, chan[d], avail[d], c)}
    <3>1. Advanced(Now, c).dicr = Latched(dicr, done)
      BY DEF Advanced, Now
    <3> HIDE DEF done
    <3>2. Latched(dicr, done).flags
              = dicr.flags \cup {d \in done : channel_irq_flag_armed(dicr, d)}
      BY DEF IInv, RestOK, Dicr, Latched
    <3> QED BY <3>1, <3>2
  <2>2. PICK n \in Distance(chan[ch]) : n <= c
    BY <1>1
  <2>3. n \in dma_cycles_to_deliverable_irq
    BY <2>1 DEF dma_cycles_to_deliverable_irq
  <2> QED BY <2>2, <2>3
<1> QED BY <1>2, <1>3

\* dma_cycles_to_irq is a "conservative under-estimate": a deadline or a skip
\* that stops there misses no completion of a channel pointed at its device.
THEOREM DmaNothingDueEarly == Spec => []NothingDueEarly
BY Inductive, EstimateOK, PTL

----------------------------------------------------------------------------
(* Slices. *)

\* A quotient is the only number of whole divisors that fits.
LEMMA DivIs ==
  ASSUME NEW a \in Nat, NEW d \in Nat \ {0}, NEW q \in Nat, q * d <= a, a < q * d + d
  PROVE  a \div d = q
OBVIOUS

\* And one more does not fit.
LEMMA DivNext ==
  ASSUME NEW a \in Nat, NEW d \in Nat \ {0}
  PROVE  a < (a \div d) * d + d
OBVIOUS

\* Taking whole divisors away takes as many off the quotient.
LEMMA DivShift ==
  ASSUME NEW a \in Nat, NEW d \in Nat \ {0}, NEW n \in Nat, n * d <= a
  PROVE  n <= a \div d /\ a - n * d \in Nat /\ (a - n * d) \div d = (a \div d) - n
<1> DEFINE q == a \div d
<1>1. q \in Nat /\ q * d <= a /\ a < q * d + d
  BY DivTimes, DivNext
<1> HIDE DEF q
<1>2. n * d \in Nat /\ q * d \in Nat
  BY <1>1, TimesMonotone
<1>3. n <= q
  <2> SUFFICES ASSUME q + 1 <= n PROVE FALSE
    BY <1>1
  <2>1. (q + 1) * d <= n * d
    BY <1>1, TimesMonotone
  <2>2. (q + 1) * d = q * d + d
    BY <1>1
  <2> QED BY <1>1, <1>2, <2>1, <2>2
<1>4. (q - n) * d = q * d - n * d
  BY <1>1
<1>5. q - n \in Nat /\ a - n * d \in Nat
  BY <1>1, <1>2, <1>3
<1>6. (q - n) * d <= a - n * d /\ a - n * d < (q - n) * d + d
  BY <1>1, <1>2, <1>4
<1>7. (a - n * d) \div d = q - n
  BY <1>5, <1>6, DivIs
<1> QED BY <1>3, <1>5, <1>7 DEF q

\* A quotient grows with its dividend, and is no greater.
LEMMA DivMonotone ==
  ASSUME NEW a \in Nat, NEW b \in Nat, a <= b, NEW d \in Nat \ {0}
  PROVE  a \div d \in Nat /\ b \div d \in Nat /\ a \div d <= b \div d /\ a \div d <= a
<1> DEFINE q == a \div d
<1>1. q \in Nat /\ q * d <= a /\ b \div d \in Nat
  BY DivTimes
<1> HIDE DEF q
<1>2. q * d <= b /\ q * d \in Nat
  BY <1>1, TimesMonotone
<1>3. q <= b \div d
  BY <1>1, <1>2, DivShift
<1>4. q * 1 <= q * d
  BY <1>1
<1> QED BY <1>1, <1>2, <1>3, <1>4 DEF q

\* Charging c1 and then c2 does to one channel what charging both at once does.
SameSlices(ch, k, av, c1, c2) ==
    LET n1 == Moved(ch, k, av, c1)
        k1 == AdvanceChannel(ch, k, av, c1)
    IN  /\ AdvanceChannel(ch, k1, av - n1, c2) = AdvanceChannel(ch, k, av, c1 + c2)
        /\ n1 + Moved(ch, k1, av - n1, c2) = Moved(ch, k, av, c1 + c2)
        /\ n1 \in Nat /\ Moved(ch, k1, av - n1, c2) \in Nat
        /\ Ends(ch, k, av, c1 + c2) <=> Ends(ch, k, av, c1) \/ Ends(ch, k1, av - n1, c2)

\* An asynchronous channel that dma_advance leaves alone.
LEMMA RestingSlices ==
  ASSUME NEW ch, NEW k, NEW av \in Nat, NEW c1 \in Nat \ {0}, NEW c2 \in Nat \ {0},
         ch \in Async, k.delay = 0, ~ Running(ch, k)
  PROVE  SameSlices(ch, k, av, c1, c2)
<1>1. \A a, c : /\ AdvanceChannel(ch, k, a, c) = k /\ Moved(ch, k, a, c) = 0
                /\ ~ Ends(ch, k, a, c)
  BY DEF AdvanceChannel, AdvanceAsync, AdvanceDelayed, Moved, Ends
<1> QED BY <1>1 DEF SameSlices

\* A channel of the MDEC pointed the wrong way.
LEMMA WrongWaySlices ==
  ASSUME NEW ch, NEW k, ChannelOK(k), NEW av \in Nat, NEW c1 \in Nat \ {0}, NEW c2 \in Nat \ {0},
         ch \in Async, k.delay = 0, Running(ch, k), WrongWay(ch, k)
  PROVE  SameSlices(ch, k, av, c1, c2)
<1> DEFINE e == Completed(Cancelled(k))
<1>1. e.words = 0 /\ e.delay = 0
  BY CancelledOK, CompletedOK
<1>2. \A c : AdvanceAsync(ch, k, av, c) = e /\ Moved(ch, k, av, c) = 0 /\ Ends(ch, k, av, c)
  BY DEF AdvanceAsync, Moved, Ends
<1> HIDE DEF e
<1>3. \A c : AdvanceChannel(ch, k, av, c) = e
  BY <1>1, <1>2 DEF AdvanceChannel, AdvanceDelayed
<1>4. \A a, c : /\ AdvanceChannel(ch, e, a, c) = e /\ Moved(ch, e, a, c) = 0
                /\ ~ Ends(ch, e, a, c)
  BY <1>1 DEF AdvanceChannel, AdvanceAsync, AdvanceDelayed, Moved, Ends, Running
<1> QED BY <1>2, <1>3, <1>4 DEF SameSlices

\* A transfer of w words with a cycles saved up, charged c of them, while its
\* device has enough and the charge does not go past the estimate.
LEMMA Charged ==
  ASSUME NEW ch \in Channels, NEW k, ChannelOK(k), NEW av \in Nat, NEW c \in Nat \ {0},
         ch \in Async, k.delay = 0, Running(ch, k), ~ WrongWay(ch, k),
         k.words <= av, k.words <= MaxAccum, k.accum + c <= k.words
  PROVE  LET d == CyclesPerWord[ch]
             n == (k.accum + c) \div d
         IN  /\ Moved(ch, k, av, c) = n /\ n \in Nat /\ n <= k.words
             /\ AdvanceChannel(ch, k, av, c) =
                    IF n = k.words THEN Completed(Cancelled(k))
                    ELSE WithWork(k, k.words - n, (k.accum + c) - n * d)
             /\ Ends(ch, k, av, c) <=> n = k.words
             /\ (k.accum + c) - n * d \in Nat /\ (k.accum + c) - n * d <= MaxAccum
<1> DEFINE d == CyclesPerWord[ch]
           a == k.accum + c
           n == a \div d
<1>0. /\ k.words \in Nat \ {0} /\ k.accum \in Nat /\ a \in Nat /\ d \in Nat \ {0} /\ MaxAccum \in Nat
  BY DmaAssumption DEF ChannelOK, Channel, Running
<1>1. Accum(k, c) = a
  BY <1>0 DEF Accum
<1>2. n \in Nat /\ n <= a /\ n * d <= a /\ n * d \in Nat
  <2> HIDE DEF a, d
  <2>1. n \in Nat /\ n <= a /\ n * d <= a
    BY <1>0, DivMonotone, DivTimes
  <2> QED BY <1>0, <2>1, TimesMonotone
<1>3. a <= k.words
  OBVIOUS
<1>4. Moved(ch, k, av, c) = Lesser(k.words, Lesser(av, n))
  <2> HIDE DEF a, d
  <2> QED BY <1>0, <1>1 DEF Moved, a, d
<1> HIDE DEF a, d, n
<1>5. Moved(ch, k, av, c) = n /\ n <= k.words
  BY <1>0, <1>2, <1>3, <1>4 DEF Lesser
<1>6. av # 0
  BY <1>0
<1>7. AdvanceAsync(ch, k, av, c) = IF n = k.words THEN Completed(Cancelled(k))
                                   ELSE WithWork(k, k.words - n, a - n * d)
  BY <1>1, <1>5, <1>6 DEF AdvanceAsync, d
<1>8. Completed(Cancelled(k)).delay = 0
  BY CancelledOK, CompletedOK
<1>9. a - n * d \in Nat /\ a - n * d <= MaxAccum /\ k.words - n \in Nat
  BY <1>0, <1>2, <1>3, <1>5
<1>10. WithWork(k, k.words - n, a - n * d).delay = 0
  <2> DEFINE x == k.words - n
             y == a - n * d
  <2>1. x \in Nat /\ y \in Nat /\ y <= MaxAccum
    BY <1>9
  <2> HIDE DEF x, y
  <2>2. WithWork(k, x, y).delay = 0
    BY <2>1, ProgressOK
  <2> QED BY <2>2 DEF x, y
<1>11. AdvanceChannel(ch, k, av, c) = AdvanceAsync(ch, k, av, c)
  BY <1>7, <1>8, <1>10 DEF AdvanceChannel, AdvanceDelayed
<1>12. Ends(ch, k, av, c) <=> n = k.words
  BY <1>5 DEF Ends
<1>13. /\ Moved(ch, k, av, c) = n /\ n \in Nat /\ n <= k.words
       /\ AdvanceChannel(ch, k, av, c) =
              IF n = k.words THEN Completed(Cancelled(k))
              ELSE WithWork(k, k.words - n, a - n * d)
       /\ Ends(ch, k, av, c) <=> n = k.words
       /\ a - n * d \in Nat /\ a - n * d <= MaxAccum
  BY <1>2, <1>5, <1>7, <1>9, <1>11, <1>12
<1> QED BY <1>13 DEF n, a, d

\* A transfer that moves on.
LEMMA RunningSlices ==
  ASSUME NEW ch \in Channels, NEW k, ChannelOK(k), NEW av \in Nat,
         NEW c1 \in Nat \ {0}, NEW c2 \in Nat \ {0},
         ch \in Async, k.delay = 0, Running(ch, k), ~ WrongWay(ch, k),
         k.words <= av, k.words <= MaxAccum, k.accum + (c1 + c2) <= k.words
  PROVE  SameSlices(ch, k, av, c1, c2)
<1> DEFINE d == CyclesPerWord[ch]
           w == k.words
           a == k.accum
           n1 == (a + c1) \div d
           n == (a + (c1 + c2)) \div d
           w1 == w - n1
           a1 == (a + c1) - n1 * d
           k1 == WithWork(k, w1, a1)
           n2 == (a1 + c2) \div d
           Fin == Completed(Cancelled(k))
<1>0. /\ w \in Nat \ {0} /\ a \in Nat /\ d \in Nat \ {0} /\ MaxAccum \in Nat
      /\ c1 + c2 \in Nat \ {0} /\ a + c1 <= w /\ a + c1 < w /\ k \in Channel
  BY DmaAssumption DEF ChannelOK, Channel, Running
<1>1. /\ Moved(ch, k, av, c1) = n1 /\ n1 \in Nat /\ n1 <= w
      /\ AdvanceChannel(ch, k, av, c1) = IF n1 = w THEN Fin ELSE k1
      /\ Ends(ch, k, av, c1) <=> n1 = w
      /\ a1 \in Nat /\ a1 <= MaxAccum
  <2> HIDE DEF d
  <2> QED BY <1>0, Charged DEF d
<1>2. /\ Moved(ch, k, av, c1 + c2) = n /\ n \in Nat /\ n <= w
      /\ AdvanceChannel(ch, k, av, c1 + c2) =
             IF n = w THEN Fin ELSE WithWork(k, w - n, (a + (c1 + c2)) - n * d)
      /\ Ends(ch, k, av, c1 + c2) <=> n = w
  <2> DEFINE c == c1 + c2
  <2>1. c \in Nat \ {0} /\ k.accum + c <= k.words
    BY <1>0
  <2> HIDE DEF c, d
  <2> QED BY <1>0, <2>1, Charged DEF d, c
<1>3. n1 * d <= a + c1 /\ n1 <= a + c1 /\ n1 * d \in Nat /\ n * d \in Nat
  <2> DEFINE s == a + c1
  <2>1. s \in Nat
    BY <1>0
  <2>0. d \in Nat \ {0}
    BY <1>0
  <2> HIDE DEF s, d, a
  <2>2. (s \div d) * d <= s /\ s \div d <= s /\ s \div d \in Nat
    <3>1. s <= s
      BY <2>1
    <3> QED BY <2>0, <2>1, <3>1, DivTimes, DivMonotone
  <2>3. (s \div d) * d \in Nat
    BY <1>0, <2>2, TimesMonotone
  <2>4. n * d \in Nat
    <3> HIDE DEF n
    <3> QED BY <1>0, <1>2, TimesMonotone
  <2> QED BY <2>2, <2>3, <2>4 DEF s
<1>4. n1 # w
  <2> HIDE DEF n1, d
  <2> QED BY <1>0, <1>1, <1>3
<1>5. n2 = n - n1 /\ n1 <= n
  <2> DEFINE s == a + (c1 + c2)
  <2>1. s \in Nat /\ n1 * d <= s
    <3> HIDE DEF n1, d
    <3> QED BY <1>0, <1>1, <1>3
  <2>2. a1 + c2 = s - n1 * d
    <3> HIDE DEF n1, d
    <3>1. n1 * d \in Nat
      BY <1>3
    <3> QED BY <1>0, <1>1, <3>1
  <2>3. n1 <= s \div d /\ (s - n1 * d) \div d = (s \div d) - n1
    <3>1. d \in Nat \ {0} /\ n1 \in Nat
      BY <1>0, <1>1
    <3> HIDE DEF s, n1, d
    <3> QED BY <2>1, <3>1, DivShift
  <2>4. n2 = (s - n1 * d) \div d
    <3> HIDE DEF d, s, a1
    <3> QED BY <2>2
  <2> QED BY <2>3, <2>4
<1>6. w1 \in Nat \ {0}
  <2> HIDE DEF n1
  <2> QED BY <1>0, <1>1, <1>4
<1>7. /\ ChannelOK(k1) /\ k1.words = w1 /\ k1.accum = a1 /\ k1.delay = 0
      /\ k1.start = k.start /\ k1.out = k.out
  <2> HIDE DEF a1, w1
  <2>1. ChannelOK(k1) /\ k1.words = w1 /\ k1.delay = 0
    BY <1>1, <1>6, ProgressOK
  <2>2. k1.accum = a1 /\ k1.start = k.start /\ k1.out = k.out
    BY <1>0 DEF WithWork, Channel
  <2> QED BY <2>1, <2>2
<1>8. Running(ch, k1) /\ ~ WrongWay(ch, k1)
  <2> HIDE DEF k1
  <2> QED BY <1>6, <1>7 DEF Running, WrongWay
<1>9. av - n1 \in Nat /\ w1 <= av - n1 /\ w1 <= MaxAccum
  <2> HIDE DEF n1
  <2> QED BY <1>0, <1>1
<1>10. a1 + c2 <= w1
  <2>1. n1 <= n1 * d
    <3> HIDE DEF n1
    <3>1. 1 * n1 <= d * n1
      BY <1>0, <1>1, TimesMonotone
    <3>2. d * n1 = n1 * d
      BY <1>0, <1>1
    <3> QED BY <1>1, <3>1, <3>2
  <2> DEFINE p == n1 * d
  <2>2. p \in Nat
    BY <1>3
  <2> HIDE DEF p, n1
  <2>3. n1 <= p
    BY <2>1 DEF p
  <2>4. ((a + c1) - p) + c2 <= w - n1
    BY <1>0, <1>1, <2>2, <2>3
  <2> QED BY <2>4 DEF p
<1>11. /\ Moved(ch, k1, av - n1, c2) = n2 /\ n2 \in Nat /\ n2 <= w1
       /\ AdvanceChannel(ch, k1, av - n1, c2) =
              IF n2 = w1 THEN Completed(Cancelled(k1))
              ELSE WithWork(k1, w1 - n2, (a1 + c2) - n2 * d)
       /\ Ends(ch, k1, av - n1, c2) <=> n2 = w1
  <2> DEFINE av1 == av - n1
  <2>1. av1 \in Nat /\ w1 <= av1
    BY <1>9
  <2> HIDE DEF av1, k1, a1, w1, d
  <2> QED BY <1>7, <1>8, <1>9, <1>10, <2>1, Charged DEF d, av1
<1>12. n2 = w1 <=> n = w
  <2>1. n \in Nat /\ n1 \in Nat /\ w \in Nat
    BY <1>0, <1>1, <1>2
  <2> HIDE DEF n1, n2, n, w
  <2> QED BY <1>5, <2>1
<1>13. Completed(Cancelled(k1)) = Fin
  <2> HIDE DEF w1, a1
  <2> QED BY <1>0 DEF Completed, Cancelled, WithWork, Channel
<1>14. WithWork(k1, w1 - n2, (a1 + c2) - n2 * d) = WithWork(k, w - n, (a + (c1 + c2)) - n * d)
  <2>1. w1 - n2 = w - n
    <3> HIDE DEF n1, n2, n
    <3> QED BY <1>0, <1>1, <1>2, <1>5
  <2>2. (a1 + c2) - n2 * d = (a + (c1 + c2)) - n * d
    <3> DEFINE p1 == n1 * d
               p == n * d
    <3>1. p1 \in Nat /\ p \in Nat
      BY <1>3
    <3>2. n2 * d = p - p1
      <4> HIDE DEF n, n1, n2, d
      <4>1. (n - n1) * d = n * d - n1 * d
        BY <1>0, <1>1, <1>2
      <4> QED BY <1>5, <4>1
    <3>3. a1 = (a + c1) - p1
      OBVIOUS
    <3> HIDE DEF p1, p, a1, n2
    <3>4. (a1 + c2) - (p - p1) = (a + (c1 + c2)) - p
      BY <1>0, <3>1, <3>3
    <3> QED BY <3>2, <3>4 DEF p
  <2>3. \A x, y : WithWork(k1, x, y) = WithWork(k, x, y)
    <3> HIDE DEF w1, a1
    <3> QED BY <1>0 DEF WithWork, Channel
  <2> HIDE DEF w1, a1, n2, n, k1
  <2> QED BY <2>1, <2>2, <2>3
<1>15. AdvanceChannel(ch, k, av, c1) = k1
  <2> HIDE DEF n1, k1
  <2> QED BY <1>1, <1>4
<1> HIDE DEF k1, n1, n2, n, w1, a1, Fin
<1>16. AdvanceChannel(ch, k1, av - n1, c2) = AdvanceChannel(ch, k, av, c1 + c2)
  BY <1>2, <1>11, <1>12, <1>13, <1>14
<1>17. n1 + n2 = n
  BY <1>1, <1>2, <1>5, <1>11
<1>18. Ends(ch, k, av, c1 + c2) <=> Ends(ch, k, av, c1) \/ Ends(ch, k1, av - n1, c2)
  BY <1>1, <1>2, <1>4, <1>11, <1>12
<1> QED BY <1>1, <1>2, <1>11, <1>15, <1>16, <1>17, <1>18 DEF SameSlices

\* A delayed completion.
LEMMA DelayedSlices ==
  ASSUME NEW ch, NEW k, ChannelOK(k), NEW av \in Nat, NEW c1 \in Nat \ {0}, NEW c2 \in Nat \ {0},
         ch \notin Async, k.words = 0, k.delay # 0 => c1 + c2 <= k.delay
  PROVE  SameSlices(ch, k, av, c1, c2)
<1>0. k \in Channel /\ k.delay \in Nat
  BY DEF ChannelOK, Channel
<1>1. \A x, a, c : /\ AdvanceChannel(ch, x, a, c) = AdvanceDelayed(x, c)
                   /\ Ends(ch, x, a, c) <=> x.delay # 0 /\ c >= x.delay
                   /\ x.words = 0 => Moved(ch, x, a, c) = 0
  BY DEF AdvanceChannel, Ends, Moved, Running
<1>2. CASE k.delay = 0
  <2>1. \A c : AdvanceDelayed(k, c) = k
    BY <1>2 DEF AdvanceDelayed
  <2> QED BY <1>1, <1>2, <2>1 DEF SameSlices
<1>3. CASE k.delay # 0
  <2> DEFINE d1 == k.delay - c1
             k1 == [k EXCEPT !.delay = d1]
  <2>1. d1 \in Nat \ {0} /\ c1 < k.delay /\ c1 + c2 \in Nat
    BY <1>0, <1>3
  <2>2. AdvanceDelayed(k, c1) = k1
    BY <1>3, <2>1 DEF AdvanceDelayed
  <2>3. k1.delay = d1 /\ k1.words = 0
    BY <1>0 DEF Channel
  <2>4. (c2 < d1 <=> c1 + c2 < k.delay) /\ d1 - c2 = k.delay - (c1 + c2)
    BY <1>0
  <2>5. AdvanceDelayed(k1, c2) = AdvanceDelayed(k, c1 + c2)
    <3>1. CASE c1 + c2 < k.delay
      <4> DEFINE e == k.delay - (c1 + c2)
      <4>1. AdvanceDelayed(k, c1 + c2) = [k EXCEPT !.delay = e]
        BY <1>3, <3>1 DEF AdvanceDelayed
      <4>2. AdvanceDelayed(k1, c2) = [k1 EXCEPT !.delay = d1 - c2]
        BY <2>1, <2>3, <2>4, <3>1 DEF AdvanceDelayed
      <4>3. [k1 EXCEPT !.delay = e] = [k EXCEPT !.delay = e]
        <5> HIDE DEF e, d1
        <5> QED BY <1>0 DEF Channel
      <4> QED BY <2>4, <4>1, <4>2, <4>3
    <3>2. CASE ~ (c1 + c2 < k.delay)
      <4>1. AdvanceDelayed(k, c1 + c2) = Completed([k EXCEPT !.delay = 0])
        BY <1>3, <3>2 DEF AdvanceDelayed
      <4>2. AdvanceDelayed(k1, c2) = Completed([k1 EXCEPT !.delay = 0])
        <5> HIDE DEF k1
        <5> QED BY <2>1, <2>3, <2>4, <3>2 DEF AdvanceDelayed
      <4>3. [k1 EXCEPT !.delay = 0] = [k EXCEPT !.delay = 0]
        <5> HIDE DEF d1
        <5> QED BY <1>0 DEF Channel
      <4> QED BY <4>1, <4>2, <4>3
    <3> QED BY <3>1, <3>2
  <2>6. /\ k.delay # 0 /\ c1 + c2 >= k.delay <=> d1 # 0 /\ c2 >= d1
        /\ ~ (c1 >= k.delay)
    BY <1>0, <1>3, <2>1
  <2> HIDE DEF k1, d1
  <2>7. Ends(ch, k, av, c1 + c2) <=> Ends(ch, k, av, c1) \/ Ends(ch, k1, av, c2)
    BY <1>1, <2>3, <2>6
  <2>8. Moved(ch, k, av, c1) = 0 /\ Moved(ch, k1, av, c2) = 0 /\ Moved(ch, k, av, c1 + c2) = 0
    BY <1>1, <2>3
  <2>9. av - 0 = av
    OBVIOUS
  <2>10. AdvanceChannel(ch, k, av, c1) = k1 /\ AdvanceChannel(ch, k1, av, c2) = AdvanceChannel(ch, k, av, c1 + c2)
    BY <1>1, <2>2, <2>5
  <2> QED BY <2>7, <2>8, <2>9, <2>10 DEF SameSlices
<1> QED BY <1>2, <1>3

\* No asynchronous transfer is longer than validate_transfer_length allows.
Short == \A ch \in used : chan[ch].words <= MaxTransfer

\* A kick starts none that is longer.
LEMMA ExecutedShort ==
  ASSUME NEW ch \in Channels \ {Pio}, NEW k, ChannelOK(k), ~ Refused(ch, k),
         k.words <= MaxTransfer, NEW after \in Executed(ch, k)
  PROVE  after.words <= MaxTransfer
<1>0. k \in Channel /\ MaxTransfer \in Nat
  BY DmaAssumption DEF ChannelOK
<1>1. \A n : Scheduled(ch, k, n).words = k.words
  <2> TAKE n
  <2>1. CASE n = 0
    BY <1>0, <2>1 DEF Scheduled, Completed, Channel
  <2>2. CASE n # 0
    <3> DEFINE d == n * CyclesPerWord[ch]
    <3>1. Scheduled(ch, k, n) = [k EXCEPT !.delay = d]
      BY <2>2 DEF Scheduled
    <3> HIDE DEF d
    <3> QED BY <1>0, <3>1 DEF Channel
  <2> QED BY <2>1, <2>2
<1>2. Completed(k).words = k.words
  BY <1>0 DEF Completed, Channel
<1>3. ch \notin {Gpu, Spu} => Started(ch, k).words <= MaxTransfer
  <2> DEFINE n == transfer_word_count(ch, k)
  <2>1. ch \notin {Gpu, Spu} => n <= MaxTransfer
    <3>1. n \in Nat
      BY <1>0, DmaAssumption DEF transfer_word_count, Channel
    <3> HIDE DEF n
    <3> QED BY <1>0, <3>1 DEF Refused, n
  <2>2. Started(ch, k) = IF k.words # 0 THEN k ELSE WithWork(k, n, 0)
    BY DEF Started
  <2> HIDE DEF n
  <2>3. WithWork(k, n, 0).words = n
    BY <1>0 DEF WithWork, Channel
  <2> QED BY <2>1, <2>2, <2>3
<1>4. \/ \E n : after = Scheduled(ch, k, n)
      \/ after = Completed(k)
      \/ ch \notin {Gpu, Spu} /\ after = Started(ch, k)
  BY DEF Executed
<1> QED BY <1>1, <1>2, <1>3, <1>4

\* Time only takes words away.
LEMMA AdvanceShort ==
  ASSUME NEW ch \in Channels, NEW k, ChannelOK(k), NEW av \in Nat, NEW c \in Nat
  PROVE  AdvanceChannel(ch, k, av, c).words <= k.words
<1> DEFINE b == AdvanceAsync(ch, k, av, c)
           n == Moved(ch, k, av, c)
           r == Accum(k, c) - n * CyclesPerWord[ch]
<1>0. k \in Channel /\ k.words \in Nat /\ n \in Nat /\ n <= k.words
  BY MovedOK DEF ChannelOK, Channel
<1>1. ChannelOK(b)
  BY AsyncOK
<1>2. b.words <= k.words
  <2>1. b = k \/ b = Completed(Cancelled(k)) \/ b = WithWork(k, k.words - n, r)
    <3> HIDE DEF n
    <3> QED BY DEF AdvanceAsync, n
  <2>2. Completed(Cancelled(k)).words = 0
    BY CancelledOK, CompletedOK
  <2> DEFINE x == k.words - n
  <2>3. x <= k.words
    <3> HIDE DEF n
    <3> QED BY <1>0
  <2> HIDE DEF b, n, x, r
  <2>4. WithWork(k, x, r).words = x
    BY <1>0 DEF WithWork, Channel
  <2> QED BY <1>0, <2>1, <2>2, <2>3, <2>4 DEF x
<1> HIDE DEF b
<1>3. AdvanceDelayed(b, c).words = b.words /\ AdvanceDelayed(k, c).words = k.words
  BY <1>1, DelayedOK
<1> QED BY <1>0, <1>2, <1>3 DEF AdvanceChannel, b

\* Every step keeps the transfers short.
LEMMA ShortOK == IInv /\ Short /\ [Next]_vars => Short'
<1> SUFFICES ASSUME IInv, Short, [Next]_vars PROVE Short'
  OBVIOUS
<1>0. /\ chan \in [used -> Channel] /\ used \subseteq Channels
      /\ \A ch \in used : ChannelOK(chan[ch])
  BY DEF IInv, ChansOK, RestOK
<1>1. ASSUME used' = used, NEW ch \in used, NEW x, x.words <= MaxTransfer,
             chan' = [chan EXCEPT ![ch] = x]
      PROVE  Short'
  BY <1>0, <1>1 DEF Short
<1>2. CASE used' = used /\ chan' = chan
  BY <1>2 DEF Short
<1>3. ASSUME NEW ch \in Channels, write_bcr(ch) PROVE Short'
  <2>1. PICK n \in Lengths : chan' = [chan EXCEPT ![ch].bcr = n]
    BY <1>3 DEF write_bcr
  <2> DEFINE x == [chan[ch] EXCEPT !.bcr = n]
  <2>2. ch \in used /\ used' = used
    BY <1>3 DEF write_bcr, ghostVars
  <2>3. x.words <= MaxTransfer
    BY <1>0, <2>2 DEF Short, Channel
  <2>4. chan' = [chan EXCEPT ![ch] = x]
    BY <2>1
  <2> HIDE DEF x
  <2> QED BY <1>1, <2>2, <2>3, <2>4
<1>4. ASSUME NEW ch \in Channels, write_chcr_low(ch) PROVE Short'
  <2>1. PICK m \in Modes(ch) : chan' = [chan EXCEPT ![ch].out = m.out, ![ch].sync = m.sync]
    BY <1>4 DEF write_chcr_low
  <2> DEFINE x == [chan[ch] EXCEPT !.out = m.out, !.sync = m.sync]
  <2>2. ch \in used /\ used' = used
    BY <1>4 DEF write_chcr_low, ghostVars
  <2>3. x.words <= MaxTransfer
    BY <1>0, <2>2 DEF Short, Channel
  <2>4. chan' = [chan EXCEPT ![ch] = x]
    BY <1>0, <2>1, <2>2
  <2> HIDE DEF x
  <2> QED BY <1>1, <2>2, <2>3, <2>4
<1>5. ASSUME NEW ch \in Channels, write_chcr_stop(ch) PROVE Short'
  <2> DEFINE x == Completed(Cancelled(chan[ch]))
  <2>1. ch \in used /\ used' = used /\ chan' = [chan EXCEPT ![ch] = x]
    BY <1>5 DEF write_chcr_stop
  <2>2. x.words = 0
    BY <1>0, <2>1, CancelledOK, CompletedOK
  <2>3. 0 <= MaxTransfer
    BY DmaAssumption
  <2> HIDE DEF x
  <2> QED BY <1>1, <2>1, <2>2, <2>3
<1>6. ASSUME NEW ch \in Channels, write_chcr_start(ch) PROVE Short'
  <2> DEFINE k == [chan[ch] EXCEPT !.start = TRUE]
  <2>1. ch \in used /\ used' = used
    BY <1>6 DEF write_chcr_start
  <2>2. k \in Channel /\ k.words = chan[ch].words /\ k.accum = chan[ch].accum
    BY <1>0, <2>1 DEF Channel
  <2>3. ChannelOK(k) /\ k.words <= MaxTransfer
    BY <1>0, <2>1, <2>2 DEF ChannelOK, Short
  <2>4. \/ chan' = [chan EXCEPT ![ch] = k]
        \/ ~ Refused(ch, k) /\ \E after \in Executed(ch, k) : chan' = [chan EXCEPT ![ch] = after]
    BY <1>6 DEF write_chcr_start
  <2> HIDE DEF k
  <2>5. CASE chan' = [chan EXCEPT ![ch] = k]
    BY <1>1, <2>1, <2>3, <2>5
  <2>6. CASE ~ Refused(ch, k) /\ \E after \in Executed(ch, k) : chan' = [chan EXCEPT ![ch] = after]
    <3>1. PICK after \in Executed(ch, k) : chan' = [chan EXCEPT ![ch] = after]
      BY <2>6
    <3>2. ch \in Channels \ {Pio}
      BY <2>6 DEF Refused
    <3>3. after.words <= MaxTransfer
      BY <2>3, <2>6, <3>2, ExecutedShort
    <3> QED BY <1>1, <2>1, <3>1, <3>3
  <2> QED BY <2>4, <2>5, <2>6
<1>7. ASSUME NEW c \in Charges, dma_advance(c) PROVE Short'
  <2>1. /\ chan' = [ch \in used |-> AdvanceChannel(ch, chan[ch], avail[ch], c)] /\ used' = used
    BY <1>7 DEF dma_advance, Advanced, Now
  <2>2. ASSUME NEW ch \in used PROVE chan'[ch].words <= MaxTransfer
    <3>1. avail[ch] \in Nat /\ c \in Nat /\ ch \in Channels /\ MaxTransfer \in Nat
      <4>1. avail[ch] \in 0..MaxAvail
        BY <2>2 DEF IInv, RestOK
      <4> QED BY <1>0, <4>1, DmaAssumption
    <3> DEFINE x == AdvanceChannel(ch, chan[ch], avail[ch], c)
    <3>2. x.words <= chan[ch].words
      BY <1>0, <3>1, AdvanceShort
    <3>3. ChannelOK(x)
      BY <1>0, <3>1, AdvanceOK DEF IInv, ChansOK
    <3>4. x.words \in Nat /\ chan[ch].words \in Nat /\ chan[ch].words <= MaxTransfer
      BY <1>0, <3>3 DEF ChannelOK, Channel, Short
    <3>5. chan'[ch] = x
      BY <2>1
    <3> HIDE DEF x
    <3> QED BY <3>1, <3>2, <3>4, <3>5
  <2> QED BY <2>1, <2>2 DEF Short
<1> QED BY <1>2, <1>3, <1>4, <1>5, <1>6, <1>7
        DEF Next, WriteChcr, write_dpcr, write_dicr, Acknowledge, Supply, vars, ghostVars

\* Completions latched in two calls are those latched in one.
LEMMA LatchedTwice ==
  ASSUME NEW d \in Dicr, NEW E1, NEW E2
  PROVE  /\ Latched(Latched(d, E1), E2) = Latched(d, E1 \cup E2)
         /\ RisesFrom(d, Latched(d, E1)) \/ RisesFrom(Latched(d, E1), Latched(Latched(d, E1), E2))
              <=> RisesFrom(d, Latched(d, E1 \cup E2))
<1> DEFINE F(E) == d.flags \cup {ch \in E : channel_irq_flag_armed(d, ch)}
           d1 == Latched(d, E1)
           d2 == Latched(d1, E2)
           dd == Latched(d, E1 \cup E2)
<1>1. \A E : Latched(d, E) = [ctl |-> d.ctl, flags |-> F(E)]
  BY DEF Latched, Dicr
<1>2. d1.ctl = d.ctl /\ d1.flags = F(E1) /\ d1 = [ctl |-> d.ctl, flags |-> F(E1)]
  <2> HIDE DEF F
  <2> QED BY <1>1
<1>3. \A ch : channel_irq_flag_armed(d1, ch) <=> channel_irq_flag_armed(d, ch)
  BY <1>2 DEF channel_irq_flag_armed
<1>4. d2 = [ctl |-> d.ctl, flags |-> F(E1) \cup {ch \in E2 : channel_irq_flag_armed(d1, ch)}]
  <2> DEFINE G == {ch \in E2 : channel_irq_flag_armed(d1, ch)}
             f == F(E1)
  <2>1. d1 = [ctl |-> d.ctl, flags |-> f]
    BY <1>2
  <2>2. d2 = [d1 EXCEPT !.flags = @ \cup G]
    BY DEF Latched
  <2> HIDE DEF d1, d2, G, f
  <2>3. d2 = [ctl |-> d.ctl, flags |-> f \cup G]
    BY <2>1, <2>2
  <2> QED BY <2>3 DEF f, G
<1>5. F(E1) \cup {ch \in E2 : channel_irq_flag_armed(d1, ch)} = F(E1 \cup E2)
  <2> HIDE DEF d1
  <2> QED BY <1>3
<1>6. d2 = dd
  <2> HIDE DEF F, d1, d2
  <2> QED BY <1>1, <1>4, <1>5
<1>7. d1.flags \subseteq dd.flags /\ dd.ctl = d.ctl
  <2>1. F(E1) \subseteq F(E1 \cup E2)
    OBVIOUS
  <2>2. dd.flags = F(E1 \cup E2) /\ dd.ctl = d.ctl
    <3> HIDE DEF F
    <3> QED BY <1>1
  <2> QED BY <1>2, <2>1, <2>2
<1> HIDE DEF d1, d2, dd
<1>8. /\ dicr_master_flag(d) => dicr_master_flag(d1)
      /\ dicr_master_flag(d1) => dicr_master_flag(dd)
  BY <1>2, <1>7 DEF dicr_master_flag
<1>9. RisesFrom(d, d1) \/ RisesFrom(d1, d2) <=> RisesFrom(d, dd)
  BY <1>6, <1>8 DEF RisesFrom
<1> QED BY <1>6, <1>9 DEF d1, d2, dd

\* In a state of the invariant a chunk within the estimate may be cut in two.
LEMMA SlicesOK == IInv /\ Short => SlicesAgree
<1> SUFFICES ASSUME IInv, Short,
                    \A ch \in used \cap Async : chan[ch].words <= avail[ch],
                    NEW p \in Cuts
             PROVE  Advanced(Advanced(Now, p[1]), p[2]) = Advanced(Now, p[1] + p[2])
  BY DEF SlicesAgree
<1> DEFINE c1 == p[1]
           c2 == p[2]
           c == c1 + c2
<1>1. c1 \in Nat \ {0} /\ c2 \in Nat \ {0} /\ \A n \in dma_cycles_to_irq : c <= n
  BY DmaAssumption DEF Cuts
<1> HIDE DEF c1, c2
<1>2. ASSUME NEW ch \in used PROVE SameSlices(ch, chan[ch], avail[ch], c1, c2) /\ avail[ch] \in Nat
  <2> DEFINE k == chan[ch]
             av == avail[ch]
  <2>1. ChannelOK(k) /\ OfKind(ch, k) /\ ch \in Channels /\ k.words <= MaxTransfer
    BY <1>2 DEF IInv, ChansOK, RestOK, Short
  <2>2. av \in Nat
    <3>1. av \in 0..MaxAvail
      BY <1>2 DEF IInv, RestOK
    <3> QED BY <3>1, DmaAssumption
  <2>3. \A n \in Distance(k) : c <= n
    BY <1>1, <1>2 DEF dma_cycles_to_irq
  <2>4. k.words \in Nat /\ k.accum \in Nat /\ k.delay \in Nat /\ MaxTransfer \in Nat /\ MaxAccum \in Nat
    BY <2>1, DmaAssumption DEF ChannelOK, Channel
  <2>5. k.delay # 0 => c <= k.delay
    BY <2>3 DEF Distance
  <2>6. k.words # 0 => k.accum + c <= k.words
    <3> SUFFICES ASSUME k.words # 0 PROVE k.accum + c <= k.words
      OBVIOUS
    <3> DEFINE n == IF k.words > k.accum THEN k.words - k.accum ELSE 0
    <3>1. n \in Distance(k)
      BY DEF Distance
    <3>2. c <= n
      BY <2>3, <3>1
    <3> QED BY <1>1, <2>4, <3>2
  <2>7. k.words <= MaxAccum
    BY <2>1, <2>4, AccumAssumption
  <2>8. CASE ch \notin Async
    BY <1>1, <2>1, <2>2, <2>5, <2>8, DelayedSlices DEF OfKind
  <2>9. CASE ch \in Async
    <3>1. k.delay = 0 /\ k.words <= av
      BY <1>2, <2>1, <2>9 DEF OfKind
    <3> HIDE DEF k, av
    <3>2. CASE ~ Running(ch, k)
      BY <1>1, <2>2, <2>9, <3>1, <3>2, RestingSlices DEF k, av
    <3>3. CASE Running(ch, k) /\ WrongWay(ch, k)
      BY <1>1, <2>1, <2>2, <2>9, <3>1, <3>3, WrongWaySlices DEF k, av
    <3>4. CASE Running(ch, k) /\ ~ WrongWay(ch, k)
      <4>1. k.accum + (c1 + c2) <= k.words
        BY <2>6, <3>4 DEF Running
      <4> QED BY <1>1, <2>1, <2>2, <2>7, <2>9, <3>1, <3>4, <4>1, RunningSlices DEF k, av
    <3> QED BY <3>2, <3>3, <3>4
  <2> QED BY <2>2, <2>8, <2>9
<1> DEFINE s1 == Advanced(Now, c1)
           K(ch) == AdvanceChannel(ch, chan[ch], avail[ch], c1)
           A(ch) == avail[ch] - Moved(ch, chan[ch], avail[ch], c1)
           E1 == {ch \in used : Ends(ch, chan[ch], avail[ch], c1)}
           E2 == {ch \in used : Ends(ch, K(ch), A(ch), c2)}
           E == {ch \in used : Ends(ch, chan[ch], avail[ch], c)}
           d1 == Latched(dicr, E1)
<1>3. s1 = [chan |-> [ch \in used |-> K(ch)], dicr |-> d1,
            irq |-> irq \/ RisesFrom(dicr, d1), avail |-> [ch \in used |-> A(ch)]]
  BY DEF Advanced, Now
<1>4. /\ \A ch \in used : s1.chan[ch] = K(ch) /\ s1.avail[ch] = A(ch)
      /\ s1.dicr = d1 /\ (s1.irq <=> irq \/ RisesFrom(dicr, d1))
  <2> HIDE DEF s1, K, A, d1
  <2> QED BY <1>3
<1>5. ASSUME NEW ch \in used
      PROVE  /\ AdvanceChannel(ch, K(ch), A(ch), c2) = AdvanceChannel(ch, chan[ch], avail[ch], c)
             /\ A(ch) - Moved(ch, K(ch), A(ch), c2) = avail[ch] - Moved(ch, chan[ch], avail[ch], c)
             /\ Ends(ch, chan[ch], avail[ch], c) <=>
                    Ends(ch, chan[ch], avail[ch], c1) \/ Ends(ch, K(ch), A(ch), c2)
  <2> DEFINE n1 == Moved(ch, chan[ch], avail[ch], c1)
             n2 == Moved(ch, K(ch), A(ch), c2)
             n == Moved(ch, chan[ch], avail[ch], c)
  <2>1. /\ AdvanceChannel(ch, K(ch), A(ch), c2) = AdvanceChannel(ch, chan[ch], avail[ch], c)
        /\ n1 + n2 = n /\ n1 \in Nat /\ n2 \in Nat /\ avail[ch] \in Nat
        /\ Ends(ch, chan[ch], avail[ch], c) <=>
               Ends(ch, chan[ch], avail[ch], c1) \/ Ends(ch, K(ch), A(ch), c2)
    BY <1>2, <1>5 DEF SameSlices
  <2>2. A(ch) = avail[ch] - n1
    OBVIOUS
  <2> HIDE DEF n1, n2, n, A
  <2>3. A(ch) - n2 = avail[ch] - n
    BY <2>1, <2>2
  <2> QED BY <2>1, <2>3 DEF n2, n
<1>6. E = E1 \cup E2
  <2> HIDE DEF K, A
  <2> QED BY <1>5
<1>7. {ch \in used : Ends(ch, s1.chan[ch], s1.avail[ch], c2)} = E2
  <2> HIDE DEF s1, K, A
  <2> QED BY <1>4
<1>8. dicr \in Dicr
  BY DEF IInv, RestOK
<1> HIDE DEF E1, E2, E
<1>9. /\ Latched(d1, E2) = Latched(dicr, E)
      /\ RisesFrom(dicr, d1) \/ RisesFrom(d1, Latched(d1, E2)) <=> RisesFrom(dicr, Latched(dicr, E))
  BY <1>6, <1>8, LatchedTwice
<1>10. Advanced(Now, c) =
         [chan |-> [ch \in used |-> AdvanceChannel(ch, chan[ch], avail[ch], c)],
          dicr |-> Latched(dicr, E),
          irq |-> irq \/ RisesFrom(dicr, Latched(dicr, E)),
          avail |-> [ch \in used |-> avail[ch] - Moved(ch, chan[ch], avail[ch], c)]]
  BY DEF Advanced, Now, E
<1> HIDE DEF s1
<1>11. Advanced(s1, c2) =
         [chan |-> [ch \in used |-> AdvanceChannel(ch, s1.chan[ch], s1.avail[ch], c2)],
          dicr |-> Latched(s1.dicr, E2),
          irq |-> s1.irq \/ RisesFrom(s1.dicr, Latched(s1.dicr, E2)),
          avail |-> [ch \in used |-> s1.avail[ch] - Moved(ch, s1.chan[ch], s1.avail[ch], c2)]]
  BY <1>7 DEF Advanced
<1>12. [ch \in used |-> AdvanceChannel(ch, s1.chan[ch], s1.avail[ch], c2)]
         = [ch \in used |-> AdvanceChannel(ch, chan[ch], avail[ch], c)]
  <2> HIDE DEF K, A
  <2> QED BY <1>4, <1>5
<1>13. [ch \in used |-> s1.avail[ch] - Moved(ch, s1.chan[ch], s1.avail[ch], c2)]
         = [ch \in used |-> avail[ch] - Moved(ch, chan[ch], avail[ch], c)]
  <2> HIDE DEF K, A
  <2> QED BY <1>4, <1>5
<1>14. Latched(s1.dicr, E2) = Latched(dicr, E)
  BY <1>4, <1>9
<1>15. (s1.irq \/ RisesFrom(s1.dicr, Latched(s1.dicr, E2))) = (irq \/ RisesFrom(dicr, Latched(dicr, E)))
  BY <1>4, <1>9
<1>16. Advanced(s1, c2) = Advanced(Now, c)
  BY <1>10, <1>11, <1>12, <1>13, <1>14, <1>15, Zenon
<1> QED BY <1>16 DEF s1, c1, c2, c

\* "Guest-visible semantics are IDENTICAL": for every cost per word and every
\* guest, the batched dma_advance leaves what finer calls leave.
THEOREM DmaSlicesAgree == Spec => []SlicesAgree
<1>1. Init => Short
  BY DmaAssumption DEF Init, Short
<1>2. Spec => []Short
  BY <1>1, Inductive, ShortOK, PTL DEF Spec
<1> QED BY <1>2, Inductive, SlicesOK, PTL
=============================================================================
