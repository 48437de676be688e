---------------------------- MODULE MCAutocapture ---------------------------
(***************************************************************************)
(* Two overlays, of which the index of the loader holds one; restarts,      *)
(* failing host calls and debug commands each for themselves.               *)
(***************************************************************************)
EXTENDS Autocapture

MCModes == {[fail |-> FALSE, commands |-> 0, restarts |-> 1],
            [fail |-> TRUE, commands |-> 0, restarts |-> 0],
            [fail |-> FALSE, commands |-> 2, restarts |-> 0]}
=============================================================================
