----------------------------- MODULE ExactClock -----------------------------
(***************************************************************************)
(* The guest's view of time: every charged cycle reaches every device at    *)
(* once (psx_advance_cycles_exact, the path of the PSX_COSIM oracle).  The   *)
(* guest charges cycles, reads and writes device registers, takes interrupts*)
(* and returns from them.                                                   *)
(***************************************************************************)
EXTENDS Devices

CONSTANTS
    Charges,           \* cycle counts charged at once
    Masks,             \* values of I_MASK
    ClaimedCooldown,   \* POST_EXC_CLAIMED_COOLDOWN_CYCLES
    UnclaimedCooldown, \* POST_EXC_UNCLAIMED_COOLDOWN_CYCLES
    NoCooldown,        \* post_exception_cooldown_until = 0
    MaxElapsed         \* bound: how far behind an elapsed cooldown is told apart

ASSUME ClockAssumption ==
    /\ Charges \subseteq Nat \ {0} /\ Masks \subseteq SUBSET Sources
    /\ ClaimedCooldown \in Nat /\ UnclaimedCooldown \in Nat /\ MaxElapsed \in Nat
    /\ NoCooldown \notin Int

VARIABLES
    dev,         \* the devices
    mask,        \* I_MASK
    exc,         \* in_exception
    pre,         \* pre_handler_istat
    cooldown,    \* post_exception_cooldown_until, counted from now
    seen         \* the value a register read returned, else <<>>

clockVars == <<dev, mask, exc, pre, cooldown, seen>>

Init == /\ dev = InitDev /\ mask = {} /\ exc = FALSE /\ pre = {}
        /\ cooldown = NoCooldown /\ seen = <<>>

Later(cd, c) == IF cd = NoCooldown THEN cd
                ELSE IF cd - c < - MaxElapsed THEN - MaxElapsed ELSE cd - c

Cooling == IF cooldown = NoCooldown THEN FALSE ELSE cooldown > 0

Charge(c) ==
    /\ dev' = psx_advance_cycles_exact(dev, c, exc)
    /\ cooldown' = Later(cooldown, c)
    /\ seen' = <<>> /\ UNCHANGED <<mask, exc, pre>>

ReadRegister ==
    /\ \E r \in Reads(dev) : seen' = r[1] /\ dev' = r[2]
    /\ UNCHANGED <<mask, exc, pre, cooldown>>

WriteRegister ==
    /\ \/ mask' \in Masks /\ dev' = dev
       \/ dev' \in Writes(dev) /\ mask' = mask
    /\ seen' = <<>> /\ UNCHANGED <<exc, pre, cooldown>>

\* psx_check_interrupts takes an interrupt that is pending, unmasked and past
\* the cooldown (the status register lets it through).
Deliver ==
    /\ ~ exc /\ Stat(dev) \cap mask # {}
    /\ ~ Cooling
    /\ dev' = interrupts_service_scheduled_events(dev, FALSE)
    /\ exc' = TRUE
    /\ pre' = Stat(dev')
    /\ cooldown' = NoCooldown
    /\ seen' = <<>> /\ UNCHANGED mask

\* Held back by the cooldown or the status register, the check still services
\* the VBlank clock and forgets a cooldown that is over.
CheckOnly ==
    /\ ~ exc /\ Stat(dev) \cap mask # {}
    /\ dev' = interrupts_service_scheduled_events(dev, FALSE)
    /\ cooldown' = IF Cooling THEN cooldown ELSE NoCooldown
    /\ seen' = <<>> /\ UNCHANGED <<mask, exc, pre>>

\* The handler returns: a longer pause if it acknowledged nothing.
Return ==
    /\ exc
    /\ exc' = FALSE
    /\ cooldown' = IF Stat(dev) \cap mask # {} /\ Stat(dev) = pre
                   THEN UnclaimedCooldown ELSE ClaimedCooldown
    /\ pre' = {}
    /\ seen' = <<>> /\ UNCHANGED <<dev, mask>>

Next == \/ \E c \in Charges : Charge(c)
        \/ ReadRegister \/ WriteRegister \/ Deliver \/ CheckOnly \/ Return

Spec == Init /\ [][Next]_clockVars
=============================================================================
