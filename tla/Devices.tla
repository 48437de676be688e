------------------------------- MODULE Devices ------------------------------
(***************************************************************************)
(* What runs on guest time: the root counters and the VBlank clock of       *)
(* interrupts.c, as functions on one record d:                              *)
(*   tm     the timers,                                                     *)
(*   since  cycles_since_vblank,                                            *)
(*   vblank the VBlank bit of I_STAT.                                       *)
(* CD-ROM, DMA and SIO are not in the model: no transfer is in progress.    *)
(***************************************************************************)
EXTENDS Timers

CONSTANTS
    VBLANK_CYCLES,
    Modes,       \* the mode values the guest writes
    Targets      \* the targets the guest writes

ASSUME DevicesAssumption ==
    VBLANK_CYCLES \in Nat \ {0} /\ Modes \subseteq Mode /\ Targets \subseteq Count

VBlank == -1     \* its place among the interrupt sources
Sources == Timers \cup {VBlank}

InitDev == [tm |-> [t \in Timers |-> timers_init], since |-> 0, vblank |-> FALSE]

\* I_STAT.
Stat(d) == {t \in Timers : d.tm[t].irq} \cup (IF d.vblank THEN {VBlank} ELSE {})

\* interrupts_service_scheduled_events: the VBlanks that are due, unless the
\* guest is in an exception.
interrupts_service_scheduled_events(d, exc) ==
    IF exc \/ d.since < VBLANK_CYCLES THEN d
    ELSE [d EXCEPT !.since = @ % VBLANK_CYCLES, !.vblank = TRUE]

interrupts_cycles_to_vblank(d) ==
    IF d.since >= VBLANK_CYCLES THEN 0 ELSE VBLANK_CYCLES - d.since

advance_devices(d, c, exc) ==
    interrupts_service_scheduled_events(
        [d EXCEPT !.tm = [t \in Timers |-> timers_advance(t, @[t], c)], !.since = @ + c], exc)

\* One round of the loop of psx_advance_cycles_exact, on [d, left].
ExactRound(s, exc) ==
    LET v == interrupts_cycles_to_vblank(s.d)
        step == IF v > 0 /\ v < s.left THEN v ELSE s.left
    IN  IF s.left = 0 THEN s
        ELSE [d |-> advance_devices(s.d, step, exc), left |-> s.left - step]

\* psx_advance_cycles_exact: every charge advances every device.
psx_advance_cycles_exact(d, cycles, exc) ==
    LET Round(s) == ExactRound(s, exc)
    IN  Iterate(Round, [d |-> interrupts_service_scheduled_events(d, exc), left |-> cycles],
                cycles).d

----------------------------------------------------------------------------
(* Device registers. *)

\* I_STAT is written with the bits to keep.
interrupt_write_stat(d, keep) ==
    [d EXCEPT !.vblank = @ /\ VBlank \in keep,
              !.tm = [t \in Timers |-> [d.tm[t] EXCEPT !.irq = @ /\ t \in keep]]]

\* What the guest may read, as <<value, state afterwards>>.
Reads(d) ==
    {<<<<"stat", Stat(d)>>, d>>}
    \cup {<<<<"counter", t, d.tm[t].counter>>, d>> : t \in Timers}
    \cup {<<<<"mode", t, d.tm[t].mode, d.tm[t].request, d.tm[t].targetFlag, d.tm[t].overflowFlag>>,
            [d EXCEPT !.tm[t] = ReadMode(@)]>> : t \in Timers}

\* What a register write may leave.
Writes(d) ==
    {interrupt_write_stat(d, Sources \ {i}) : i \in Sources}
    \cup {[d EXCEPT !.tm[t] = WriteMode(@, m)] : t \in Timers, m \in Modes}
    \cup {[d EXCEPT !.tm[t].target = v] : t \in Timers, v \in Targets}
    \cup {[d EXCEPT !.tm[t].counter = v] : t \in Timers, v \in Targets}
=============================================================================
