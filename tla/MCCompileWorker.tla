-------------------------- MODULE MCCompileWorker --------------------------
(***************************************************************************)
(* Small instance of OverlayCompileWorker: three regions, two of which     *)
(* compile to the same shard file.                                          *)
(***************************************************************************)
EXTENDS OverlayCompileWorker, TLC

CONSTANTS k1, k2, k3, b1, b2

MCKeys == {k1, k2, k3}
MCBlobs == {b1, b2}
MCBlobOf == (k1 :> b1) @@ (k2 :> b1) @@ (k3 :> b2)
=============================================================================
