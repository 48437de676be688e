-------------------------------- MODULE MCDma -------------------------------
(***************************************************************************)
(* Guests that drive one or two channels, with short transfers.             *)
(***************************************************************************)
EXTENDS Dma

MCCyclesPerWord == [ch \in Channels |-> IF ch \in {MdecOut, Spu} THEN 2 ELSE 1]
MCEnables == {{}, Channels}
MCControls == {[force |-> FALSE, master |-> TRUE, en |-> Channels],
               [force |-> TRUE, master |-> TRUE, en |-> {}]}
MCPrograms == {{MdecIn}, {MdecOut}, {Gpu}, {Cdrom}, {Pio}, {Spu, Otc}}
=============================================================================
