----------------------------- MODULE MCSaveState ----------------------------
(***************************************************************************)
(* One slot, a few steps of the guest, and two updates of the program: one  *)
(* of the runtime alone, which keeps the key, then one of the recompiler.    *)
(***************************************************************************)
EXTENDS SaveState

MCKeyOf == [b \in Builds |-> IF b < 2 THEN 0 ELSE 1]
=============================================================================
