---------------------------- MODULE MCPsxCycles -----------------------------
(***************************************************************************)
(* One root counter with a narrow count and modes that cover one-shot,      *)
(* repeating, toggling, resetting, divided, target and overflow interrupts. *)
(***************************************************************************)
EXTENDS PsxCycles

MCDivisor == [t \in Timers |-> 2]

\* A mode with exactly the given bits set.
ModeOf(bits) == [b \in DOMAIN timers_init.mode |-> b \in bits]

MCModes == {ModeOf({"reset", "irqTarget", "irqOverflow"}),
            ModeOf({"irqTarget", "irqOverflow", "repeat", "toggle", "div"})}
MCMasks == {{}, Sources}
=============================================================================
