-------------------------------- MODULE MCSio -------------------------------
(***************************************************************************)
(* A guest that saves to its card between polls of the pad, one that changes *)
(* slots in the middle, one that polls and configures a pad.  Sectors of two *)
(* bytes, one sector a card; every transfer can be cut off and started over. *)
(***************************************************************************)
EXTENDS Sio

Open == {"SELECT", "TX_EN", "ACK_IRQ_EN"}
Store == <<CardSelect, Write, 0, 0, 0, 0, 5, 6, 3, 0, 0, 0>>
Fetch == <<CardSelect, Read, 0, 0, 0, 0, 0, 0, 0, 0, 0, 0, 0, 0>>
Identify == <<CardSelect, GetId, 0, 0, 0, 0, 0, 0>>
PollPad == <<PadSelect, Poll, 0, 0, 0>>

MCDrivers ==
    {[sends |-> {Store}, controls |-> {{}, Open}, hasty |-> 1, also |-> {}],
     [sends |-> {Store}, controls |-> {Open, Open \cup {"SLOT"}}, hasty |-> 0, also |-> {}],
     [sends |-> {Fetch, Identify}, controls |-> {{}, Open \cup {"ACK"}}, hasty |-> 1, also |-> {}],
     [sends |-> {<<CardSelect>>, <<PadSelect>>},
      controls |-> {{}, Open, Open \cup {"SLOT"}}, hasty |-> 1, also |-> {"read STAT"}],
     [sends |-> {<<CardSelect, GetId>>},
      controls |-> {Open, {"SELECT"}, {"RESET"}}, hasty |-> 1, also |-> {"read STAT"}],
     [sends |-> {PollPad, <<PadSelect, Config, 0, 1>>, <<PadSelect, Config, 0, 0, 0>>,
                 <<PadSelect, SetMode, 0, 1, 3, 0>>, <<PadSelect, SetMode, 0, 0, 2, 0>>},
      controls |-> {{}, Open}, hasty |-> 1, also |-> {"switch pad"}]}
=============================================================================
