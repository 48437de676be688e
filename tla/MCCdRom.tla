------------------------------- MODULE MCCdRom ------------------------------
(***************************************************************************)
(* Guests with different habits, each with a few commands.                  *)
(***************************************************************************)
EXTENDS CdRom

Guest(commands, limit) ==
    [commands |-> commands, limit |-> limit, masks |-> {}, disc |-> TRUE, dma |-> {},
     continues |-> FALSE]

MCSessions == {
    Guest({"ReadN", "Pause", "SeekL", "GetStat"}, 3),
    Guest({"ReadN", "Play", "Stop", "SetMode", "Pause"}, 3),
    [Guest({"ReadN", "GetID", "Init"}, 2) EXCEPT !.continues = TRUE, !.dma = BOOLEAN],
    [Guest({"Play", "ReadN", "MotorOn", "ReadTOC"}, 2) EXCEPT !.masks = {{0, 1}, {0, 1, 2}}],
    [Guest(Commands, 2) EXCEPT !.disc = FALSE]}
=============================================================================
