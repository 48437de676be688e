----------------------------- MODULE MCOverlay -----------------------------
(***************************************************************************)
(* Small instances of OverlayLoader.  Two variants of one overlay slot     *)
(* (DLLs d1 and d2 both compile entry e) that straddle two pages, a second *)
(* function of d1 in the shared page; and, in one page, a DLL function     *)
(* with a shard at its entry and a shard at its tail.                      *)
(***************************************************************************)
EXTENDS OverlayLoader, TLC

CONSTANTS e, m, t, p0, p1, d1, d2, none

MCPageOf == (e :> p0) @@ (m :> p1) @@ (t :> p1)
MCOnePage == (e :> p0) @@ (t :> p0)
MCValues == {0, 1}

\* 1, 2 : variants of the function entered at e, with a tail at t; 3 : a
\* function of d1 at m; 4, 5 : JIT shards of one range each, at e and at t.
MCEntry == [f \in Fns |-> <<e, e, m, e, t>>[f]]
MCR1 == MCEntry
MCR2 == [f \in Fns |-> <<t, t, m, e, t>>[f]]
MCC1 == [f \in Fns |-> <<1, 0, 1, 1, 0>>[f]]
MCC2 == [f \in Fns |-> <<1, 1, 1, 1, 0>>[f]]
MCBundle == [f \in Fns \ Shards |-> <<d1, d2, d1>>[f]]
MCInitRam == [c \in Cells |-> 1]
=============================================================================
