------------------------------- MODULE Timers -------------------------------
(***************************************************************************)
(* The three root counters (timers.c), as functions on the state of one     *)
(* timer.  The IRQ a timer raises is the field irq, its bit of I_STAT.      *)
(*                                                                         *)
(* The counter is Wrap values wide (16 bits in the code).  Of the mode       *)
(* register only the bits the code looks at are kept; the two clock source  *)
(* bits become div: the timer counts every Divisor[t] cycles, not every one.*)
(***************************************************************************)
EXTENDS Integers

CONSTANTS
    Timers,      \* the timers, a subset of 0..2
    Wrap,        \* 0x10000
    Divisor      \* [Timers -> Nat]: 5 dotclock, 2146 HBlank, 8 sysclk/8

ASSUME TimersAssumption ==
    Wrap \in Nat \ {0, 1} /\ Divisor \in [Timers -> Nat \ {0}]

\* The bits of a mode write that the code acts on.
Mode == [reset : BOOLEAN, irqTarget : BOOLEAN, irqOverflow : BOOLEAN,
         repeat : BOOLEAN, toggle : BOOLEAN, div : BOOLEAN]

Count == 0..(Wrap - 1)

LowestOf(S) == CHOOSE x \in S : \A y \in S : x <= y

\* F(x), with x evaluated once.
On(x, F(_)) == CHOOSE y \in {F(z) : z \in {x}} : TRUE

\* F applied n times to x.
Iterate(F(_), x, n) ==
    LET f[i \in 0..n] == IF i = 0 THEN x ELSE On(f[i - 1], F) IN f[n]

----------------------------------------------------------------------------

\* timer_fire_irq: a pulse, or one edge of a toggled line; a one-shot disarms
\* both sources.
timer_fire_irq(tm) ==
    LET line == IF tm.mode.toggle THEN ~ tm.line ELSE tm.line
        edge == tm.mode.toggle => line
        keep == tm.mode.repeat
    IN  [tm EXCEPT !.line = line,
                   !.irq = @ \/ edge,
                   !.request = tm.mode.toggle => ~ line,
                   !.mode.irqTarget = @ /\ keep,
                   !.mode.irqOverflow = @ /\ keep]

AtTarget(tm) ==
    LET a == [tm EXCEPT !.targetFlag = TRUE]
        b == IF a.mode.irqTarget THEN timer_fire_irq(a) ELSE a
    IN  IF b.mode.reset THEN [b EXCEPT !.counter = 0] ELSE b

AtOverflow(tm) ==
    LET a == [tm EXCEPT !.overflowFlag = TRUE]
    IN  IF a.mode.irqOverflow THEN timer_fire_irq(a) ELSE a

\* timer_tick_one: the reference, one count at a time.
timer_tick_one(tm) ==
    LET a == [tm EXCEPT !.counter = (@ + 1) % Wrap]
        b == IF a.counter = tm.target THEN AtTarget(a) ELSE a
    IN  IF tm.counter = Wrap - 1 THEN AtOverflow(b) ELSE b

\* Counts until the target, or until the wrap.
TargetDist(tm) ==
    IF tm.target = tm.counter THEN Wrap ELSE (tm.target - tm.counter) % Wrap

OverflowDist(tm) == Wrap - tm.counter

\* Mutant of AdvanceRound: a target at the wrap hides the overflow.
AdvanceRoundElse(s) ==
    LET tm == s.tm
        step == LowestOf({s.left, TargetDist(tm), OverflowDist(tm)})
        a == [tm EXCEPT !.counter = (@ + step) % Wrap]
        b == IF step = TargetDist(tm) THEN AtTarget(a)
             ELSE IF step = OverflowDist(tm) THEN AtOverflow(a) ELSE a
    IN  IF s.left = 0 THEN s ELSE [tm |-> b, left |-> s.left - step]

\* One round of the loop of timer_advance_counts, on a timer and the ticks
\* left: no step crosses the target or the wrap, and none is empty.
AdvanceRound(s) ==
    LET tm == s.tm
        step == LowestOf({s.left, TargetDist(tm), OverflowDist(tm)})
        a == [tm EXCEPT !.counter = (@ + step) % Wrap]
        b == IF step = TargetDist(tm) THEN AtTarget(a) ELSE a
        c == IF step = OverflowDist(tm) THEN AtOverflow(b) ELSE b
    IN  IF s.left = 0 THEN s ELSE [tm |-> c, left |-> s.left - step]

\* Every round takes at least one tick, so ticks rounds are enough.
timer_advance_counts(tm, ticks) ==
    Iterate(AdvanceRound, [tm |-> tm, left |-> ticks], ticks).tm

timer_divisor(t, tm) == IF tm.mode.div THEN Divisor[t] ELSE 1

\* timers_advance and timer_advance_divided, for one timer.
timers_advance(t, tm, cycles) ==
    LET d == timer_divisor(t, tm)
        total == tm.frac + cycles
    IN  timer_advance_counts([tm EXCEPT !.frac = total % d], total \div d)

\* Mutant of ArmedDists: only the overflow is looked at.
ArmedDistsOverflow(tm) == IF tm.mode.irqOverflow THEN {OverflowDist(tm)} ELSE {}

\* Counts until each armed interrupt source of a timer.
ArmedDists(tm) ==
    (IF tm.mode.irqTarget THEN {TargetDist(tm)} ELSE {})
        \cup (IF tm.mode.irqOverflow THEN {OverflowDist(tm)} ELSE {})

\* timers_cycles_to_irq: the cycles to the interrupts of the unmasked timers.
timers_cycles_to_irq(tms, unmasked) ==
    {LowestOf(ArmedDists(tms[t])) * timer_divisor(t, tms[t]) - tms[t].frac :
        t \in {u \in Timers \cap unmasked : ArmedDists(tms[u]) # {}}}

----------------------------------------------------------------------------
(* Registers. *)

timers_init == [counter |-> 0, target |-> 0,
                mode |-> [reset |-> FALSE, irqTarget |-> FALSE, irqOverflow |-> FALSE,
                          repeat |-> FALSE, toggle |-> FALSE, div |-> FALSE],
                request |-> FALSE, targetFlag |-> FALSE, overflowFlag |-> FALSE,
                line |-> FALSE, frac |-> 0, irq |-> FALSE]

\* Reading the mode clears the two "reached" flags.
ReadMode(tm) == [tm EXCEPT !.targetFlag = FALSE, !.overflowFlag = FALSE]

\* Writing the mode restarts the counter, the line and the fraction.
WriteMode(tm, m) == [tm EXCEPT !.mode = m, !.counter = 0, !.request = TRUE, !.line = FALSE,
                               !.targetFlag = FALSE, !.overflowFlag = FALSE, !.frac = 0]
=============================================================================
