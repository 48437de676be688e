--------------------------------- MODULE Dma --------------------------------
(***************************************************************************)
(* The DMA controller (dma.c): seven channels with their control and length *)
(* registers, DPCR (which channels are enabled), DICR (which completions    *)
(* interrupt) and bit 3 of I_STAT.                                          *)
(*                                                                         *)
(* A kick moves the data of the GPU, SPU and OTC channels at once; GPU and   *)
(* SPU stay busy for a delay.  MDEC and CD-ROM move words as guest time      *)
(* passes and their device has data (or room).  Addresses and data are left *)
(* out, and with them the trigger bit 28, which nothing reads.              *)
(***************************************************************************)
EXTENDS Integers

CONSTANTS
    Lengths,        \* BCR values: the words of a transfer, 0 for "all"
    Whole,          \* 0x10000, what length 0 stands for
    SectorWords,    \* cdrom_dma_sector_word_count
    ListWords,      \* possible lengths of a linked list, headers included
    MaxTransfer,    \* DMA_MAX_TRANSFER_WORDS
    CyclesPerWord,  \* DMA_..._CYCLES_PER_WORD, by channel
    MaxAccum,       \* UINT32_MAX, where cycles_accum saturates
    MaxAvail,       \* bound: words a device holds
    Charges,        \* cycle counts dma_advance is called with
    Enables,        \* the DPCR values the guest writes
    Controls,       \* the DICR control values the guest writes
    Programs        \* the sets of channels a guest may drive

Channels == 0..6
MdecIn == 0
MdecOut == 1
Gpu == 2
Cdrom == 3
Spu == 4
Pio == 5
Otc == 6
Async == {MdecIn, MdecOut, Cdrom}

Control == [force : BOOLEAN, master : BOOLEAN, en : SUBSET Channels]

ASSUME DmaAssumption ==
    /\ Lengths \subseteq Nat /\ 0 \in Lengths /\ ListWords \subseteq Nat \ {0}
    /\ Whole \in Nat \ {0} /\ SectorWords \in Nat \ {0}
    /\ MaxTransfer \in Nat /\ MaxAccum \in Nat /\ MaxAvail \in Nat
    /\ CyclesPerWord \in [Channels -> Nat \ {0}]
    /\ Charges \subseteq Nat \ {0}
    /\ Enables \subseteq SUBSET Channels /\ Controls \subseteq Control
    /\ Programs \subseteq SUBSET Channels

\* 0x80000 and UINT32_MAX: the cycles of a transfer at one a word can be saved up.
ASSUME AccumAssumption == MaxTransfer <= MaxAccum

VARIABLES
    chan,      \* channels, mdec_async, cdrom_async and delayed_complete
    dpcr,      \* the enabled channels
    dicr,      \* bits 15 to 30
    irq,       \* I_STAT bit 3
    avail,     \* words the device of an asynchronous channel can move now
    halted,    \* psx_fatal_halt
    used,      \* the channels this guest drives
    acked,     \* the guest cleared irq since the master flag last rose
    rekicked   \* channels kicked again in the middle of a transfer

ghostVars == <<used, acked, rekicked>>
vars == <<chan, dpcr, dicr, irq, avail, halted, ghostVars>>

\* words: async remaining_words, 0 when not active; accum: cycles_accum;
\* delay: delayed_complete cycles_remaining, 0 when not active.
Channel == [start : BOOLEAN, out : BOOLEAN, sync : {"burst", "block", "list"},
            bcr : Nat, words : Nat, accum : Nat, delay : Nat]

Dicr == [ctl : Control, flags : SUBSET Channels]

\* The directions and modes a guest may write, as far as the code looks.
Modes(ch) ==
    [out : IF ch \in Async \cup {Gpu} THEN BOOLEAN ELSE {FALSE},
     sync : IF ch = Gpu THEN {"burst", "block", "list"} ELSE {"burst"}]

----------------------------------------------------------------------------
(* DICR. *)

\* dicr_master_flag: bit 31.
dicr_master_flag(d) == d.ctl.force \/ (d.ctl.master /\ d.flags # {})

\* raise_dma_irq_on_master_edge
RisesFrom(before, after) == ~ dicr_master_flag(before) /\ dicr_master_flag(after)

channel_irq_flag_armed(d, ch) == ch \in d.ctl.en /\ d.ctl.master

\* complete_transfer, on DICR, for the channels of done.
Latched(d, done) ==
    [d EXCEPT !.flags = @ \cup {ch \in done : channel_irq_flag_armed(d, ch)}]

----------------------------------------------------------------------------
(* Kicks.  k is the record of channel ch. *)

transfer_word_count(ch, k) ==
    IF k.bcr # 0 THEN k.bcr ELSE IF ch = Cdrom THEN SectorWords ELSE Whole

\* validate_transfer_length, and the channel nobody implements.
Refused(ch, k) ==
    \/ ch = Pio
    \/ /\ ~ (ch = Gpu /\ k.sync = "list")
       /\ transfer_word_count(ch, k) > MaxTransfer

\* The words execute_ch2_gpu moves; a length of 0 is everything only in burst
\* mode, and a read from the GPU works in block mode only.
GpuWords(k) ==
    IF k.sync = "block" THEN {k.bcr}
    ELSE IF ~ k.out THEN {0}
    ELSE IF k.sync = "list" THEN ListWords ELSE {transfer_word_count(Gpu, k)}

\* n words left, with a cycles towards the next.
WithWork(k, n, a) == [k EXCEPT !.words = n, !.accum = a]

\* Mutant of Cancelled: the delayed completion stays.
CancelledAsync(k) == WithWork(k, 0, 0)

\* cancel_async_transfer
Cancelled(k) == [k EXCEPT !.words = 0, !.accum = 0, !.delay = 0]

\* complete_transfer, on the channel.
Completed(k) == [k EXCEPT !.start = FALSE]

\* schedule_delayed_complete, after n words.
Scheduled(ch, k, n) ==
    IF n = 0 THEN Completed(k) ELSE [k EXCEPT !.delay = n * CyclesPerWord[ch]]

\* start_async_mdec_transfer, start_async_cdrom_transfer: a transfer that is
\* under way goes on.
Started(ch, k) ==
    IF k.words # 0 THEN k
    ELSE WithWork(k, transfer_word_count(ch, k), 0)

\* try_execute, on an enabled channel: what the kick may leave.  The CD-ROM
\* takes no data: such a kick only clears the start bit.
Executed(ch, k) ==
    CASE ch = Gpu -> {Scheduled(ch, k, n) : n \in GpuWords(k)}
      [] ch = Spu -> {Scheduled(ch, k, transfer_word_count(ch, k))}
      [] ch = Otc -> {Completed(k)}
      [] ch = Cdrom /\ k.out -> {Completed(k)}
      [] OTHER -> {Started(ch, k)}

\* Of those, the ones in which complete_transfer also touches DICR.
Finishes(ch, k, after) == ~ after.start /\ ~ (ch = Cdrom /\ k.out)

\* A transfer is under way.
Job(ch) == chan[ch].words # 0 \/ chan[ch].delay # 0

----------------------------------------------------------------------------
(* Time. *)

\* The transfers dma_advance moves on.
Running(ch, k) ==
    /\ k.words # 0 /\ k.start /\ ch \in dpcr
    /\ ch = Cdrom => ~ k.out

\* An MDEC channel pointed the wrong way ends at once.
WrongWay(ch, k) == (ch = MdecIn /\ ~ k.out) \/ (ch = MdecOut /\ k.out)

Accum(k, c) == IF k.accum + c > MaxAccum THEN MaxAccum ELSE k.accum + c

Lesser(a, b) == IF a < b THEN a ELSE b

\* The words of one call: as many as there are cycles, data and words left.
Moved(ch, k, av, c) ==
    IF ~ Running(ch, k) \/ WrongWay(ch, k) \/ av = 0 THEN 0
    ELSE Lesser(k.words, Lesser(av, Accum(k, c) \div CyclesPerWord[ch]))

\* Mutant of AdvanceAsync: cycles that do not make a word are dropped.
AdvanceAsyncDrops(ch, k, av, c) ==
    LET n == Moved(ch, k, av, c)
    IN  IF ~ Running(ch, k) THEN k
        ELSE IF WrongWay(ch, k) \/ n = k.words THEN Completed(Cancelled(k))
        ELSE IF av = 0 THEN k
        ELSE WithWork(k, k.words - n, 0)

\* Mutant of AdvanceAsync: the accumulator has no limit.
AdvanceAsyncUncapped(ch, k, av, c) ==
    LET n == Moved(ch, k, av, c)
    IN  IF ~ Running(ch, k) THEN k
        ELSE IF WrongWay(ch, k) \/ n = k.words THEN Completed(Cancelled(k))
        ELSE IF av = 0 THEN k
        ELSE WithWork(k, k.words - n, k.accum + c - n * CyclesPerWord[ch])

\* advance_mdec_channel and the CD-ROM part of dma_advance.
AdvanceAsync(ch, k, av, c) ==
    LET n == Moved(ch, k, av, c)
    IN  IF ~ Running(ch, k) THEN k
        ELSE IF WrongWay(ch, k) \/ n = k.words THEN Completed(Cancelled(k))
        ELSE IF av = 0 THEN k
        ELSE WithWork(k, k.words - n, Accum(k, c) - n * CyclesPerWord[ch])

\* Mutant of AdvanceDelayed: a charge that does not reach the end is forgotten.
AdvanceDelayedStuck(k, c) ==
    IF k.delay = 0 \/ c < k.delay THEN k ELSE Completed([k EXCEPT !.delay = 0])

\* advance_delayed_complete
AdvanceDelayed(k, c) ==
    IF k.delay = 0 THEN k
    ELSE IF c < k.delay THEN [k EXCEPT !.delay = @ - c]
    ELSE Completed([k EXCEPT !.delay = 0])

AdvanceChannel(ch, k, av, c) ==
    IF ch \in Async THEN AdvanceDelayed(AdvanceAsync(ch, k, av, c), c)
    ELSE AdvanceDelayed(k, c)

\* complete_transfer is called, for a start bit already clear too.
Ends(ch, k, av, c) ==
    \/ ch \in Async /\ Running(ch, k) /\ (WrongWay(ch, k) \/ Moved(ch, k, av, c) = k.words)
    \/ k.delay # 0 /\ c >= k.delay

Now == [chan |-> chan, dicr |-> dicr, irq |-> irq, avail |-> avail]

\* dma_advance.  Completions only add flags, so the order in which the
\* channels complete does not show.
Advanced(s, c) ==
    LET d == Latched(s.dicr, {ch \in used : Ends(ch, s.chan[ch], s.avail[ch], c)})
    IN  [chan |-> [ch \in used |-> AdvanceChannel(ch, s.chan[ch], s.avail[ch], c)],
         dicr |-> d,
         irq |-> s.irq \/ RisesFrom(s.dicr, d),
         avail |-> [ch \in used |-> s.avail[ch] - Moved(ch, s.chan[ch], s.avail[ch], c)]]

\* Mutant of Distance: completions that are only delayed are forgotten.
DistanceAsync(k) ==
    IF k.words # 0 THEN {IF k.words > k.accum THEN k.words - k.accum ELSE 0} ELSE {}

\* Cycles until a channel may complete, at one cycle a word.
Distance(k) ==
    (IF k.words # 0 THEN {IF k.words > k.accum THEN k.words - k.accum ELSE 0} ELSE {})
        \cup (IF k.delay # 0 THEN {k.delay} ELSE {})

\* dma_cycles_to_irq with the interrupt unmasked; the sets are those it takes
\* the minimum of.
dma_cycles_to_irq == UNION {Distance(chan[ch]) : ch \in used}

dma_cycles_to_deliverable_irq ==
    UNION {Distance(chan[ch]) : ch \in {x \in used : channel_irq_flag_armed(dicr, x)}}

----------------------------------------------------------------------------
(* What the guest, the clock and the devices do. *)

Raise(before, after) ==
    /\ irq' = (irq \/ RisesFrom(before, after))
    /\ acked' = (acked /\ ~ RisesFrom(before, after))

write_dpcr ==
    /\ ~ halted
    /\ dpcr' \in Enables
    /\ UNCHANGED <<chan, dicr, irq, avail, halted, ghostVars>>

\* Mutant of write_dicr: no interrupt when the write itself raises bit 31.
WriteDicrSilent ==
    /\ ~ halted
    /\ \E ctl \in Controls \cup {dicr.ctl}, ack \in SUBSET dicr.flags :
           dicr' = [ctl |-> ctl, flags |-> dicr.flags \ ack]
    /\ UNCHANGED <<chan, dpcr, irq, avail, halted, ghostVars>>

\* Control bits and flags to acknowledge, either of them possibly outside the
\* mask of the store.
write_dicr ==
    /\ ~ halted
    /\ \E ctl \in Controls \cup {dicr.ctl}, ack \in SUBSET dicr.flags :
           dicr' = [ctl |-> ctl, flags |-> dicr.flags \ ack]
    /\ Raise(dicr, dicr')
    /\ UNCHANGED <<chan, dpcr, avail, halted, used, rekicked>>

write_bcr(ch) ==
    /\ ~ halted /\ ch \in used
    /\ \E n \in Lengths : chan' = [chan EXCEPT ![ch].bcr = n]
    /\ UNCHANGED <<dpcr, dicr, irq, avail, halted, ghostVars>>

\* A store to the low half of CHCR: direction and mode, no start bit.
write_chcr_low(ch) ==
    /\ ~ halted /\ ch \in used
    /\ \E m \in Modes(ch) : chan' = [chan EXCEPT ![ch].out = m.out, ![ch].sync = m.sync]
    /\ UNCHANGED <<dpcr, dicr, irq, avail, halted, ghostVars>>

\* CHCR is written with the start bit clear.
write_chcr_stop(ch) ==
    /\ ~ halted /\ ch \in used
    /\ chan' = [chan EXCEPT ![ch] = Completed(Cancelled(@))]
    /\ rekicked' = rekicked \ {ch}
    /\ UNCHANGED <<dpcr, dicr, irq, avail, halted, used, acked>>

\* CHCR is written with the start bit set: try_execute.
write_chcr_start(ch) ==
    LET k == [chan[ch] EXCEPT !.start = TRUE]
    IN  /\ ~ halted /\ ch \in used
        /\ \/ /\ ch \notin dpcr
              /\ chan' = [chan EXCEPT ![ch] = k]
              /\ UNCHANGED <<dicr, irq, acked, halted>>
           \/ /\ ch \in dpcr /\ Refused(ch, k)
              /\ chan' = [chan EXCEPT ![ch] = k]
              /\ halted' = TRUE
              /\ UNCHANGED <<dicr, irq, acked>>
           \/ /\ ch \in dpcr /\ ~ Refused(ch, k)
              /\ \E after \in Executed(ch, k) :
                     /\ chan' = [chan EXCEPT ![ch] = after]
                     /\ dicr' = Latched(dicr, IF Finishes(ch, k, after) THEN {ch} ELSE {})
                     /\ Raise(dicr, dicr')
              /\ halted' = halted
        /\ rekicked' = IF Job(ch) THEN rekicked \cup {ch} ELSE rekicked
        /\ UNCHANGED <<dpcr, avail, used>>

dma_advance(c) ==
    LET s == Advanced(Now, c)
    IN  /\ ~ halted
        /\ chan' = s.chan /\ dicr' = s.dicr /\ avail' = s.avail
        /\ Raise(dicr, s.dicr)
        /\ UNCHANGED <<dpcr, halted, used, rekicked>>

\* The device behind an asynchronous channel has data or room again.
Supply(ch) ==
    /\ ~ halted /\ ch \in used
    /\ avail[ch] = 0
    /\ \E n \in 1..MaxAvail : avail' = [avail EXCEPT ![ch] = n]
    /\ UNCHANGED <<chan, dpcr, dicr, irq, halted, ghostVars>>

\* The guest clears bit 3 of I_STAT.
Acknowledge ==
    /\ ~ halted
    /\ irq
    /\ irq' = FALSE /\ acked' = TRUE
    /\ UNCHANGED <<chan, dpcr, dicr, avail, halted, used, rekicked>>

\* dma_init
Init ==
    /\ used \in Programs
    /\ chan = [ch \in used |-> [start |-> FALSE, out |-> FALSE, sync |-> "burst",
                                bcr |-> 0, words |-> 0, accum |-> 0, delay |-> 0]]
    /\ dpcr = {}
    /\ dicr = [ctl |-> [force |-> FALSE, master |-> FALSE, en |-> {}], flags |-> {}]
    /\ irq = FALSE /\ acked = FALSE /\ halted = FALSE /\ rekicked = {}
    /\ avail = [ch \in used |-> 0]

WriteChcr(ch) == write_chcr_low(ch) \/ write_chcr_stop(ch) \/ write_chcr_start(ch)

Next ==
    \/ write_dpcr \/ write_dicr \/ Acknowledge
    \/ \E ch \in Channels : write_bcr(ch) \/ WriteChcr(ch)
    \/ \E ch \in Async : Supply(ch)
    \/ \E c \in Charges : dma_advance(c)

Spec == Init /\ [][Next]_vars

\* Guest time passes, and a device that is out of data gets more.
LiveSpec ==
    /\ Spec
    /\ WF_vars(\E c \in Charges : dma_advance(c))
    /\ \A ch \in Async : WF_vars(Supply(ch))

----------------------------------------------------------------------------
(* Properties. *)

TypeOK ==
    /\ used \subseteq Channels /\ rekicked \subseteq used
    /\ chan \in [used -> Channel] /\ avail \in [used -> 0..MaxAvail]
    /\ dpcr \subseteq Channels
    /\ dicr \in Dicr
    /\ irq \in BOOLEAN /\ halted \in BOOLEAN /\ acked \in BOOLEAN
    /\ \A ch \in used : chan[ch].accum <= MaxAccum

\* Nothing completes a transfer the guest has stopped or has seen end: a channel
\* with work left shows busy.  (A guest that kicks a busy channel again is left
\* out: a second transfer of no words leaves the first one's completion due.)
JobBusy == \A ch \in used \ rekicked : Job(ch) => chan[ch].start

\* No DMA interrupt is lost: while bit 31 of DICR is up, I_STAT bit 3 is
\* pending or the guest cleared it after bit 31 rose.
IrqNotLost == dicr_master_flag(dicr) => irq \/ acked

\* "Conservative under-estimate": a channel pointed at its device completes no
\* earlier than dma_cycles_to_irq says, and none that may interrupt earlier
\* than dma_cycles_to_deliverable_irq says.
NothingDueEarly ==
    \A c \in Charges :
        LET ends == {ch \in used : Ends(ch, chan[ch], avail[ch], c)
                                    /\ ~ WrongWay(ch, chan[ch])}
        IN  /\ ends # {} => \E n \in dma_cycles_to_irq : n <= c
            /\ ends \cap (Advanced(Now, c).dicr.flags \ dicr.flags) # {} =>
                   \E n \in dma_cycles_to_deliverable_irq : n <= c

\* A chunk that does not go past dma_cycles_to_irq may be cut in two.
Cuts == {p \in Charges \X Charges : \A n \in dma_cycles_to_irq : p[1] + p[2] <= n}

\* "Guest-visible semantics are IDENTICAL": while no device runs dry, charging
\* a chunk at once or in two parts leaves the same state.
SlicesAgree ==
    (\A ch \in used \cap Async : chan[ch].words <= avail[ch]) =>
        \A p \in Cuts : Advanced(Advanced(Now, p[1]), p[2]) = Advanced(Now, p[1] + p[2])

\* A transfer that has started ends, unless the guest disables or points away
\* its channel or keeps writing its CHCR, or the machine halts.
TransferEnds ==
    \A ch \in Async \cup {Gpu, Spu} :
        \/ []<>(ch \in used => ~ Job(ch) \/ ch \notin dpcr \/ ~ chan[ch].start
                                 \/ (ch = Cdrom /\ chan[ch].out))
        \/ []<><<WriteChcr(ch)>>_vars
        \/ <>halted
=============================================================================
