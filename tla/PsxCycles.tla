------------------------------ MODULE PsxCycles -----------------------------
(***************************************************************************)
(* The cycle clock of production builds (psx_cycles.c): a charge only moves *)
(* the clock, and the devices are brought up to it when a deadline is       *)
(* reached or the guest touches a device register.                          *)
(*                                                                         *)
(* Times are relative to psx_cycle_count: debt is how far the devices are   *)
(* behind it, left how far the deadline is ahead (0: to be recomputed).     *)
(***************************************************************************)
EXTENDS ExactClock

CONSTANTS
    HardCap,     \* PSX_DEADLINE_HARD_CAP
    MaxHeld      \* bound: cycles_since_vblank while an exception holds VBlank back

ASSUME CyclesAssumption == HardCap \in Nat \ {0} /\ MaxHeld \in Nat

VARIABLES
    debt,        \* psx_cycle_count - s_devices_synced_cycle
    left         \* s_next_service_cycle - psx_cycle_count, 0 when dirty

vars == <<clockVars, debt, left>>

\* devices_cycles_to_next_internal_event: blind to the interrupt mask.
NextInternal(d) ==
    LET best == LowestOf({interrupts_cycles_to_vblank(d)}
                         \cup timers_cycles_to_irq(d.tm, Timers))
    IN  IF best = 0 THEN 1 ELSE best

\* psx_devices_recompute_deadline
Deadline(d) == LowestOf({NextInternal(d), HardCap})

\* One round of the replay of psx_devices_service_to_now: no chunk crosses an
\* event.
ReplayRound(s, e) ==
    LET step == LowestOf({s.left, NextInternal(s.d)})
    IN  IF s.left = 0 THEN s
        ELSE [d |-> advance_devices(s.d, step, e), left |-> s.left - step]

psx_devices_service_to_now(d, behind, e) ==
    LET Round(s) == ReplayRound(s, e)
    IN  IF behind = 0 THEN d
        ELSE Iterate(Round, [d |-> interrupts_service_scheduled_events(d, e), left |-> behind],
                     behind).d

Synced == psx_devices_service_to_now(dev, debt, exc)

----------------------------------------------------------------------------

\* psx_advance_cycles
psx_advance_cycles(c) ==
    /\ exc => dev.since + debt + c <= MaxHeld
    /\ IF left = 0 \/ c >= left
       THEN /\ dev' = psx_devices_service_to_now(dev, debt + c, exc)
            /\ debt' = 0
            /\ left' = Deadline(dev')
       ELSE /\ dev' = dev
            /\ debt' = debt + c
            /\ left' = left - c
    /\ cooldown' = Later(cooldown, c)
    /\ seen' = <<>> /\ UNCHANGED <<mask, exc, pre>>

\* Mutant of MmioSync: the deadline stays as it was.
MmioSyncKeeps == debt' = 0 /\ left' = (IF debt = 0 THEN left ELSE Deadline(Synced))

\* psx_devices_mmio_sync: the deadline is recomputed on the next charge.
MmioSync == debt' = 0 /\ left' = 0

mmio_read ==
    /\ MmioSync
    /\ \E r \in Reads(Synced) : seen' = r[1] /\ dev' = r[2]
    /\ UNCHANGED <<mask, exc, pre, cooldown>>

mmio_write ==
    /\ MmioSync
    /\ \/ mask' \in Masks /\ dev' = Synced
       \/ dev' \in Writes(Synced) /\ mask' = mask
    /\ seen' = <<>> /\ UNCHANGED <<exc, pre, cooldown>>

\* psx_check_interrupts looks at I_STAT without bringing the devices up.
psx_check_interrupts == Deliver /\ UNCHANGED <<debt, left>>
CheckNothing == CheckOnly /\ UNCHANGED <<debt, left>>
ExceptionReturn == Return /\ UNCHANGED <<debt, left>>

InitCycles == Init /\ debt = 0 /\ left = 0

RunNext == \/ \E c \in Charges : psx_advance_cycles(c)
           \/ mmio_read \/ mmio_write
           \/ psx_check_interrupts \/ CheckNothing \/ ExceptionReturn

CyclesSpec == InitCycles /\ [][RunNext]_vars

----------------------------------------------------------------------------
(* Properties. *)

\* "The deadline is by construction <= the earliest device event" and never
\* further than the hard cap from the point the devices are at, whatever was
\* written, read or delivered since it was computed.
DeadlineBeforeEvent ==
    /\ left = 0 => debt = 0
    /\ left # 0 => debt + left <= NextInternal(dev) /\ debt + left <= HardCap

\* The devices as they would be had every cycle been charged to them.
CaughtUp == IF debt = 0 THEN dev ELSE psx_advance_cycles_exact(dev, debt, exc)

\* What the guest sees: those devices, with the I_STAT of the devices as they are.
GuestDev == [CaughtUp EXCEPT !.vblank = dev.vblank,
                             !.tm = [t \in Timers |-> [@[t] EXCEPT !.irq = dev.tm[t].irq]]]

Exact == INSTANCE ExactClock WITH dev <- GuestDev

\* "Guest-visible semantics are IDENTICAL": with devices brought up late the
\* guest reads the same register values, sees the same I_STAT at every check
\* and takes the same interrupts as when every cycle reaches every device.
ImplementsExact == Exact!Spec

\* Bulk counting is counting: timer_advance_counts does what timer_tick_one
\* does tick by tick, flags, one-shots, toggles and resets included.
BulkIsTicks ==
    \A t \in Timers, n \in 1..(2 * Wrap) :
        timer_advance_counts(dev.tm[t], n) = Iterate(timer_tick_one, dev.tm[t], n)
=============================================================================
