--------------------------------- MODULE Sio --------------------------------
(***************************************************************************)
(* The serial port (sio.c, cycle-paced build) with the controllers and the  *)
(* memory cards (memcard.c) behind it.                                      *)
(*                                                                         *)
(* The guest writes TX and CTRL and reads STAT and RX; bytes for a card go   *)
(* through a shifter with a one-byte buffer, bytes for a pad are exchanged   *)
(* at once; both answer with an acknowledge that raises IRQ 7 later.  What   *)
(* the devices send back is left out, except for the verdict on a write.     *)
(* Build: SIO_MODEL_CYCLE_PACED, g_pad_legacy_cfg off, DualShock pads.       *)
(***************************************************************************)
EXTENDS Integers, Sequences

CONSTANTS
    Drivers,        \* bound: what a guest does: the byte sequences it sends,
                    \* the CTRL values it writes, how often in a transfer it
                    \* writes to a full port, if it reads STAT, and if it has
                    \* a user who switches the pad
    Connected,      \* pad_connected
    SectorBytes,    \* MEMCARD_SECTOR_SIZE
    SectorCount,    \* MEMCARD_SECTORS
    Baud,           \* SIO_BAUD_CYCLES_DEFAULT
    AckDelay,       \* SIO_ACK_CYCLES_DEFAULT
    MaxTransitions, \* MAX_TRANSITIONS of sio_advance
    Chunks          \* bound: cycles the clock hands over at once

Slots == {0, 1}
Byte == 0 .. 255
NoByte == -1
NoRequest == -1

ControlBits == {"TX_EN", "SELECT", "ACK_IRQ_EN", "SLOT", "ACK", "RESET"}

ASSUME SioAssumption ==
    /\ \A d \in Drivers :
         /\ d.sends \subseteq Seq(Byte) \ {<<>>} /\ d.controls \subseteq SUBSET ControlBits
         /\ d.hasty \in Nat /\ d.also \subseteq {"read STAT", "switch pad"}
    /\ Connected \subseteq Slots
    /\ SectorBytes \in Nat \ {0, 1} /\ SectorCount \in Nat \ {0}
    /\ Baud \in Nat \ {0} /\ AckDelay \in Nat \ {0} /\ Chunks \subseteq Nat \ {0}
    /\ MaxTransitions \in Nat \ {0}

\* Bytes the protocols know.
PadSelect == 1
CardSelect == 129
Poll == 66
Config == 67
SetMode == 68
ConfigOnly == {68, 69, 70, 71, 76, 77, 79}
Read == 82
GetId == 83
Write == 87
Good == 71
BadChecksum == 78
BadSector == 255

\* McSlotState; data is the part of the buffer that data_idx has passed, and
\* fresh the flag 0x08.
McFresh == [state |-> "IDLE", cmd |-> 0, msb |-> 0, lsb |-> 0, idx |-> 0,
            data |-> <<>>, verdict |-> 0, fresh |-> TRUE]
McReset(m) == [McFresh EXCEPT !.fresh = m.fresh]

PadIdle == [state |-> "IDLE", cmd |-> 0, idx |-> 0, len |-> 0]

\* A card: its image in memory and in its file ("damaged" when the file is short).
Blank == [n \in 0 .. SectorCount - 1 |-> [i \in 1 .. SectorBytes |-> 0]]
Formatted == [present |-> TRUE, dirty |-> FALSE, data |-> Blank, file |-> Blank, whole |-> TRUE]

VARIABLES
    sio,       \* port, pads, card controllers, cards and their files
    driver,    \* what this guest does
    todo,      \* sio_advance under way: its cycles and transitions left
    rest,      \* the bytes it has still to send
    hasty      \* its writes to a full port

vars == <<sio, todo, driver, rest, hasty>>

Idle == [cycles |-> 0, transitions |-> 0]

\* No byte in the shifter or the buffer, no acknowledge under way.
Quiet == [shift |-> NoByte, left |-> 0, shift_en |-> FALSE,
          buf |-> NoByte, buf_en |-> FALSE,
          ack |-> FALSE, ack_left |-> 0, ack_en |-> FALSE]

\* sio_init.  txn is a ghost: what the card has heard since it was selected,
\* by position.
NoTxn == [n |-> 0, slot |-> 0, cmd |-> 0, msb |-> 0, lsb |-> 0, data |-> <<>>]

sio_init(cards) ==
    [stat |-> {"TX_RDY", "TX_EMPTY"}, ctrl |-> {}, visible |-> 0,
     device |-> "NONE", selected |-> 0, owner |-> "NONE", first |-> TRUE,
     pad |-> PadIdle, in_config |-> [s \in Slots |-> FALSE],
     analog |-> [s \in Slots |-> FALSE], type_req |-> [s \in Slots |-> NoRequest],
     locked |-> [s \in Slots |-> FALSE],
     mc |-> McFresh, mc_slot |-> 0, slots |-> [s \in Slots |-> McFresh],
     cards |-> cards, bus |-> Quiet, txn |-> NoTxn]

Init ==
    /\ sio = sio_init([s \in Slots |-> Formatted])
    /\ todo = Idle /\ driver \in Drivers
    /\ rest = <<>> /\ hasty = 0

----------------------------------------------------------------------------
(* Controllers. *)

Ready(st) == st \cup {"TX_RDY", "TX_EMPTY"}

\* Mutant of TypeApplied: the request is applied whatever the pad is doing.
TypeAppliedAlways(s) ==
    [s EXCEPT
       !.analog = [k \in Slots |-> IF s.type_req[k] # NoRequest
                                   THEN s.type_req[k] = 1 ELSE s.analog[k]],
       !.type_req = [k \in Slots |-> NoRequest]]

\* A host request to change the type waits for an idle bus and the end of
\* config mode.
TypeApplied(s) ==
    LET now(k) == /\ s.pad.state = "IDLE" /\ s.type_req[k] # NoRequest
                  /\ ~s.in_config[k] /\ ~s.locked[k]
    IN [s EXCEPT
          !.analog = [k \in Slots |-> IF now(k) THEN s.type_req[k] = 1 ELSE s.analog[k]],
          !.type_req = [k \in Slots |-> IF now(k) THEN NoRequest ELSE s.type_req[k]]]

PadAnswers(s, b) ==
    b = Poll \/ b = Config \/ (s.in_config[s.selected] /\ b \in ConfigOnly)

FrameLength(s, b) ==
    IF s.analog[s.selected] \/ s.in_config[s.selected] THEN 8 ELSE 4

PadNext(s, b) ==
    CASE s.pad.state = "IDLE" ->
           IF b = PadSelect /\ s.selected \in Connected
           THEN [s.pad EXCEPT !.state = "WAIT_ACCESS"] ELSE s.pad
      [] s.pad.state = "WAIT_ACCESS" ->
           IF PadAnswers(s, b)
           THEN [state |-> "SEND_RESPONSE", cmd |-> b, idx |-> 1, len |-> FrameLength(s, b)]
           ELSE PadIdle
      [] OTHER ->
           IF s.pad.idx + 1 < s.pad.len THEN [s.pad EXCEPT !.idx = @ + 1] ELSE PadIdle

\* Config mode, analog mode and its lock are latched from the bytes that ride
\* along with the response.
PadLatched(s, b) ==
    LET at(cmd, i) == s.pad.state = "SEND_RESPONSE" /\ s.pad.cmd = cmd /\ s.pad.idx = i
    IN [s EXCEPT
          !.in_config[s.selected] = IF at(Config, 2) THEN b = 1 ELSE @,
          !.analog[s.selected] = IF at(SetMode, 2) THEN b = 1 ELSE @,
          !.type_req[s.selected] = IF at(SetMode, 2) THEN NoRequest ELSE @,
          !.locked[s.selected] = IF at(SetMode, 3) /\ b \in {2, 3} THEN b = 3 ELSE @]

pad_process_byte(s, b) ==
    LET t == TypeApplied(s)
        next == PadNext(t, b)
    IN [PadLatched(t, b) EXCEPT
          !.pad = next,
          !.stat = Ready(@)
                     \cup (IF next.state # "IDLE" THEN {"ACK"} ELSE {})]

----------------------------------------------------------------------------
(* Memory cards. *)

\* The states that go on whatever byte comes.
McChain ==
    [s \in {"ID1", "GETID_1", "GETID_2", "GETID_3", "READ_ACK1", "READ_ACK2",
            "READ_MSB_ECHO", "READ_CHK", "WRITE_ACK1", "WRITE_ACK2"} |->
       CASE s = "ID1" -> "ID2"
         [] s = "GETID_1" -> "GETID_2"
         [] s = "GETID_2" -> "GETID_3"
         [] s = "GETID_3" -> "GETID_4"
         [] s = "READ_ACK1" -> "READ_ACK2"
         [] s = "READ_ACK2" -> "READ_MSB_ECHO"
         [] s = "READ_MSB_ECHO" -> "READ_LSB_ECHO"
         [] s = "READ_CHK" -> "READ_END"
         [] s = "WRITE_ACK1" -> "WRITE_ACK2"
         [] s = "WRITE_ACK2" -> "WRITE_END"]

Xor(x, y) ==
    LET bit(n) == n * (((x \div n) + (y \div n)) % 2)
    IN bit(1) + bit(2) + bit(4) + bit(8) + bit(16) + bit(32) + bit(64) + bit(128)

Checksum(m) ==
    LET upto[i \in 0 .. SectorBytes] ==
          IF i = 0 THEN Xor(m.msb, m.lsb) ELSE Xor(upto[i - 1], m.data[i])
    IN upto[SectorBytes]

Sector(m) == 256 * m.msb + m.lsb
Verdict(m, b) ==
    CASE Sector(m) >= SectorCount -> BadSector
      [] Sector(m) < SectorCount /\ b = Checksum(m) -> Good
      [] OTHER -> BadChecksum

AddressTaken(m, b) ==
    [m EXCEPT !.lsb = b, !.idx = 0, !.data = <<>>,
              !.state = IF m.cmd = Read THEN "READ_ACK1" ELSE "WRITE_LSB_ECHO"]

\* The card's next state; a card that does not go on is idle.
McNext(m, b, present) ==
    CASE m.state = "IDLE" -> IF present THEN [m EXCEPT !.state = "CMD"] ELSE m
      [] m.state = "CMD" ->
           IF b \in {Read, Write, GetId}
           THEN [m EXCEPT !.cmd = b, !.state = "ID1", !.fresh = FALSE]
           ELSE [m EXCEPT !.cmd = b, !.state = "IDLE"]
      [] m.state = "ID2" ->
           [m EXCEPT !.state = IF m.cmd = GetId THEN "GETID_1" ELSE "ADDR_MSB"]
      [] m.state = "ADDR_MSB" -> [m EXCEPT !.msb = b, !.state = "ADDR_LSB"]
      [] m.state = "ADDR_LSB" -> AddressTaken(m, b)
      [] m.state = "READ_LSB_ECHO" -> [m EXCEPT !.idx = 0, !.state = "READ_DATA"]
      [] m.state = "READ_DATA" ->
           [m EXCEPT !.idx = @ + 1,
                     !.state = IF m.idx + 1 >= SectorBytes THEN "READ_CHK" ELSE @]
      [] m.state \in {"WRITE_LSB_ECHO", "WRITE_DATA"} ->
           [m EXCEPT !.data = Append(@, b),
                     !.state = IF m.state = "WRITE_DATA" /\ Len(m.data) + 1 >= SectorBytes
                               THEN "WRITE_CHK" ELSE "WRITE_DATA"]
      [] m.state = "WRITE_CHK" ->
           [m EXCEPT !.verdict = Verdict(m, b), !.state = "WRITE_ACK1"]
      [] m.state = "WRITE_END" -> [m EXCEPT !.state = "IDLE", !.fresh = FALSE]
      [] m.state \in {"READ_END", "GETID_4"} -> [m EXCEPT !.state = "IDLE"]
      [] OTHER -> [m EXCEPT !.state = McChain[m.state]]

\* The ghost's view of the same byte: the n-th since the select.
Heard(t, b) ==
    [t EXCEPT !.n = IF @ > 8 + SectorBytes THEN @ ELSE @ + 1,
              !.cmd = IF t.n = 1 THEN b ELSE @,
              !.msb = IF t.n = 4 THEN b ELSE @,
              !.lsb = IF t.n = 5 THEN b ELSE @,
              !.data = IF t.n \in 6 .. 5 + SectorBytes THEN Append(@, b) ELSE @]

\* Mutant of Flushed: the card counts as clean although its file was cut short.
FlushedAnyway(c, io) ==
    CASE ~c.dirty \/ io = "no file" -> c
      [] c.dirty /\ io = "cut" -> [c EXCEPT !.whole = FALSE, !.dirty = FALSE]
      [] OTHER -> [c EXCEPT !.file = c.data, !.whole = TRUE, !.dirty = FALSE]

\* memcard_flush: the file is opened for writing, which empties it, and written
\* as a whole.  io is how that goes.
Flushed(c, io) ==
    CASE ~c.dirty \/ io = "no file" -> c
      [] c.dirty /\ io = "cut" -> [c EXCEPT !.whole = FALSE]
      [] OTHER -> [c EXCEPT !.file = c.data, !.whole = TRUE, !.dirty = FALSE]

memcard_write_sector(c, m) ==
    IF c.present THEN [c EXCEPT !.data[Sector(m)] = m.data, !.dirty = TRUE] ELSE c

SlotBit(s) == IF "SLOT" \in s.ctrl THEN 1 ELSE 0

\* Mutant of CardSlot: the slot CTRL selects now.
CardSlotNow(s) == SlotBit(s)

\* A transaction stays with the card it was opened on.
CardSlot(s) == IF s.mc.state = "IDLE" THEN s.selected ELSE s.mc_slot

mc_process_byte(s, b, io) ==
    LET starts == s.mc.state = "IDLE"
        k == CardSlot(s)
        next == McNext(s.mc, b, s.cards[k].present)
        good == s.mc.state = "WRITE_CHK" /\ next.verdict = Good
    IN [s EXCEPT
          !.mc = next,
          !.mc_slot = k,
          !.cards[k] = IF good THEN Flushed(memcard_write_sector(@, s.mc), io) ELSE @,
          !.stat = Ready(@)
                     \cup (IF next.state # "IDLE" THEN {"ACK"} ELSE {}),
          !.txn = IF starts THEN [NoTxn EXCEPT !.n = 1, !.slot = k] ELSE Heard(@, b)]

----------------------------------------------------------------------------
(* sio_process_byte: who hears the byte. *)

ToPad(s, b) == pad_process_byte([s EXCEPT !.device = "PAD"], b)
ToCard(s, b, io) == mc_process_byte([s EXCEPT !.device = "MEMCARD"], b, io)
ToNobody(s) == [s EXCEPT !.device = "NONE", !.mc.state = "IDLE", !.stat = Ready(@)]

\* With no device active, the slot is taken from CTRL.  A card transaction in
\* flight is put aside for a pad, started again by 0x81, or resumed.
Unclaimed(s, b, io) ==
    LET k == SlotBit(s)
        t == [s EXCEPT !.selected = k]
        resumed == [t EXCEPT !.mc = s.slots[k]]
    IN CASE b = PadSelect ->
              ToPad(IF s.mc.state = "IDLE" THEN t
                    ELSE [t EXCEPT !.slots[s.mc_slot] = s.mc, !.mc.state = "IDLE"], b)
         [] b = CardSelect ->
              ToCard([resumed EXCEPT !.mc.state = "IDLE", !.mc_slot = k], b, io)
         [] OTHER -> IF s.slots[k].state # "IDLE" /\ k = s.mc_slot
                     THEN ToCard(resumed, b, io) ELSE ToNobody(resumed)

\* A card that has finished leaves the bus to the next select byte.
Released(s, b, io) ==
    LET t == [s EXCEPT !.selected = SlotBit(s)]
    IN CASE b = CardSelect -> ToCard(s, b, io)
         [] b = PadSelect -> ToPad(t, b)
         [] OTHER -> ToNobody(t)

sio_process_byte(s, b, io) ==
    CASE s.device = "NONE" -> Unclaimed(s, b, io)
      [] s.device = "PAD" -> pad_process_byte(s, b)
      [] OTHER -> IF s.mc.state = "IDLE" THEN Released(s, b, io) ELSE ToCard(s, b, io)

----------------------------------------------------------------------------
(* Time: the shifter and the acknowledge. *)

\* sio_handle_shift_complete.  A buffered byte moves up into the shifter.
ShiftComplete(s, io) ==
    LET t == sio_process_byte(s, s.bus.shift, io)
        more == s.bus.buf # NoByte
        acked == "ACK" \in t.stat
    IN [t EXCEPT
          !.bus = [shift |-> s.bus.buf, left |-> IF more THEN Baud ELSE 0,
                   shift_en |-> IF more THEN s.bus.buf_en ELSE s.bus.shift_en,
                   buf |-> NoByte, buf_en |-> s.bus.buf_en /\ ~more,
                   ack |-> s.bus.ack \/ acked,
                   ack_left |-> IF acked THEN AckDelay ELSE s.bus.ack_left,
                   ack_en |-> IF acked THEN s.bus.shift_en ELSE s.bus.ack_en],
          !.stat = Ready(@ \ {"ACK"})]

sio_fire_ack_irq(s) ==
    LET enabled == s.bus.ack_en \/ "ACK_IRQ_EN" \in s.ctrl
    IN [s EXCEPT
          !.bus.ack = FALSE, !.bus.ack_en = FALSE, !.visible = 2,
          !.stat = @ \cup {"ACK"} \cup (IF enabled THEN {"IRQ"} ELSE {})]

Shifting(s) == s.bus.shift # NoByte

Passed(s, n) ==
    [s EXCEPT !.bus.left = IF Shifting(s) THEN @ - n ELSE @,
              !.bus.ack_left = IF s.bus.ack THEN @ - n ELSE @]

\* A countdown that ended exactly with a chunk is at 0 and not yet handled.
Due(s) == (Shifting(s) /\ s.bus.left = 0) \/ (s.bus.ack /\ s.bus.ack_left = 0)

\* What is reached before the chunk of n cycles ends.
NextEvent(s, n) ==
    LET shiftIn == Shifting(s) /\ s.bus.left \in 1 .. n - 1
        bound == IF shiftIn THEN s.bus.left ELSE n
        ackIn == s.bus.ack /\ s.bus.ack_left \in 1 .. bound - 1
    IN CASE Due(s) ->
              [after |-> 0, what |-> IF Shifting(s) /\ s.bus.left = 0 THEN "shift" ELSE "ack"]
         [] ~Due(s) /\ ackIn -> [after |-> s.bus.ack_left, what |-> "ack"]
         [] ~Due(s) /\ ~ackIn /\ shiftIn -> [after |-> s.bus.left, what |-> "shift"]
         [] OTHER -> [after |-> n, what |-> "none"]

\* One round of the loop of sio_advance.
Handled(s, e, io) ==
    LET t == Passed(s, e.after)
    IN CASE e.what = "shift" -> ShiftComplete(t, io)
         [] e.what = "ack" -> sio_fire_ack_irq(t)
         [] OTHER -> t

----------------------------------------------------------------------------
(* The registers. *)

\* A pad byte discards what is in the shifter and is exchanged at once; its
\* acknowledge comes a byte time and an acknowledge pulse later.
PadWrite(s, b, io) ==
    LET t == sio_process_byte([s EXCEPT !.bus = Quiet, !.owner = "PAD", !.first = FALSE], b, io)
    IN IF "ACK" \in t.stat /\ "ACK_IRQ_EN" \in t.ctrl
       THEN [t EXCEPT !.stat = @ \ {"ACK", "TX_RDY", "TX_EMPTY"},
                      !.bus = [Quiet EXCEPT !.ack = TRUE, !.ack_en = TRUE,
                                            !.ack_left = Baud + AckDelay]]
       ELSE [t EXCEPT !.stat = Ready(@)]

\* Anything else is shifted out, buffered, or dropped.
PacedWrite(s, b) ==
    LET en == "ACK_IRQ_EN" \in s.ctrl
        t == [s EXCEPT !.first = FALSE,
                       !.owner = CASE ~s.first -> @
                                   [] s.first /\ b = CardSelect -> "CARD"
                                   [] s.first /\ b = PadSelect -> "PAD"
                                   [] OTHER -> "UNKNOWN"]
    IN CASE ~Shifting(s) ->
              [t EXCEPT !.bus.shift = b, !.bus.left = Baud, !.bus.shift_en = en,
                        !.stat = @ \ {"TX_RDY", "TX_EMPTY"}]
         [] Shifting(s) /\ s.bus.buf = NoByte ->
              [t EXCEPT !.bus.buf = b, !.bus.buf_en = en, !.stat = @ \ {"TX_EMPTY"}]
         [] OTHER -> t

PadFastPath(s, b) ==
    s.device # "MEMCARD" /\ (s.device = "PAD" \/ s.owner = "PAD" \/ b = PadSelect)

Transmitted(s, b, io) ==
    IF PadFastPath(s, b) THEN PadWrite(s, b, io) ELSE PacedWrite(s, b)

\* The steps of a CTRL write v, in order.
Acknowledged(s, v) ==
    IF "ACK" \in v THEN [s EXCEPT !.stat = @ \ {"IRQ", "ACK"}, !.visible = 0] ELSE s

Reset(s, v) ==
    IF "RESET" \in v
    THEN [s EXCEPT !.stat = {"TX_RDY", "TX_EMPTY"}, !.ctrl = {}, !.pad = PadIdle,
                   !.mc.state = "IDLE", !.device = "NONE", !.visible = 0,
                   !.slots = [k \in Slots |-> [s.slots[k] EXCEPT !.state = "IDLE"]],
                   !.bus = Quiet, !.owner = "NONE", !.first = TRUE]
    ELSE s

Asserted(s, old, v) ==
    IF "SELECT" \in v \ old THEN [s EXCEPT !.owner = "NONE", !.first = TRUE] ELSE s

Disabled(s, old, v) ==
    IF "TX_EN" \in old \ v /\ (Shifting(s) \/ s.bus.buf # NoByte \/ s.bus.ack)
    THEN [s EXCEPT !.bus = Quiet, !.stat = Ready(@),
                   !.owner = IF "SELECT" \in v THEN @ ELSE "NONE",
                   !.first = @ \/ "SELECT" \notin v]
    ELSE s

\* Mutant of Deasserted: the transaction of the working card is left open.
DeassertedOpen(s, old, v) ==
    IF "SELECT" \in old \ v
    THEN [s EXCEPT !.slots = [k \in Slots |-> McReset(s.slots[k])],
                   !.pad = PadIdle, !.device = "NONE",
                   !.bus = Quiet, !.owner = "NONE", !.first = TRUE, !.stat = Ready(@)]
    ELSE s

\* SELECT drops: every device on the bus starts over; only the flag of the
\* active card is kept.
Deasserted(s, old, v) ==
    LET flag(k) == IF s.device = "MEMCARD" /\ k = s.mc_slot THEN s.mc.fresh ELSE s.slots[k].fresh
    IN IF "SELECT" \in old \ v
       THEN [s EXCEPT
               !.slots = [k \in Slots |-> [McReset(s.slots[k]) EXCEPT !.fresh = flag(k)]],
               !.mc.state = "IDLE", !.pad = PadIdle, !.device = "NONE",
               !.bus = Quiet, !.owner = "NONE", !.first = TRUE, !.stat = Ready(@)]
       ELSE s

Controlled(s, v) ==
    LET old == s.ctrl
        t1 == Reset(Acknowledged([s EXCEPT !.ctrl = v \ {"ACK", "RESET"}], v), v)
        t2 == Asserted(t1, old, v)
    IN Deasserted(Disabled(t2, old, v), old, v)

----------------------------------------------------------------------------
(* Steps. *)

\* How writing the file goes, where a file may be written.
Outcomes ==
    IF "WRITE_CHK" \in {sio.mc.state, sio.slots[0].state, sio.slots[1].state}
    THEN {"ok", "cut", "no file"} ELSE {"ok"}

\* With n cycles to go, the next event happens and the loop goes on; cycles
\* beyond the last transition are dropped.
Transition(n, transitions) ==
    LET e == NextEvent(sio, n)
        goesOn == e.what # "none" /\ transitions > 1
    IN /\ \E io \in Outcomes : sio' = Handled(sio, e, io)
       /\ todo' = IF goesOn THEN [cycles |-> n - e.after, transitions |-> transitions - 1]
                  ELSE Idle
       /\ UNCHANGED <<driver, rest, hasty>>

\* The clock hands over n cycles; an event that is due exactly then waits for
\* the next call.
sio_advance(n) ==
    /\ todo = Idle
    /\ Shifting(sio) \/ sio.bus.ack
    /\ Transition(n, MaxTransitions)

\* The loop goes on; nothing else runs meanwhile.
sio_advance_on == todo # Idle /\ Transition(todo.cycles, todo.transitions)

\* The guest sends the bytes of a transfer, now and then without waiting for room.
write_tx ==
    /\ todo = Idle
    /\ "TX_EN" \in sio.ctrl
    /\ sio.bus.buf = NoByte \/ hasty < driver.hasty
    /\ hasty' = CASE rest = <<>> -> 0
                  [] rest # <<>> /\ sio.bus.buf # NoByte -> hasty + 1
                  [] OTHER -> hasty
    /\ \E bytes \in IF rest # <<>> THEN {rest} ELSE driver.sends, io \in Outcomes :
         /\ sio' = Transmitted(sio, Head(bytes), io)
         /\ rest' = Tail(bytes)
    /\ UNCHANGED <<todo, driver>>

\* Dropping SELECT, the guest gives its transfer up.
write_ctrl(v) ==
    /\ todo = Idle
    /\ sio' = Controlled(sio, v)
    /\ rest' = IF "SELECT" \in v THEN rest ELSE <<>>
    /\ hasty' = IF "SELECT" \in v THEN hasty ELSE 0
    /\ UNCHANGED <<todo, driver>>

\* Reading STAT shows an acknowledge twice.
read_stat ==
    /\ todo = Idle /\ "read STAT" \in driver.also /\ sio.visible > 0
    /\ sio' = [sio EXCEPT !.visible = @ - 1,
                          !.stat = IF sio.visible = 1 THEN @ \ {"ACK"} ELSE @]
    /\ UNCHANGED <<todo, driver, rest, hasty>>

\* The host's analog button.
sio_request_pad_type(k, want) ==
    /\ todo = Idle /\ "switch pad" \in driver.also
    /\ sio' = [sio EXCEPT !.type_req[k] = IF sio.analog[k] = (want = 1) THEN NoRequest ELSE want]
    /\ UNCHANGED <<todo, driver, rest, hasty>>

\* memcard_init: a short file is no card, and is left alone.
Loaded(c) ==
    IF c.whole THEN [c EXCEPT !.present = TRUE, !.dirty = FALSE, !.data = c.file]
    ELSE [c EXCEPT !.present = FALSE, !.dirty = FALSE]

\* The program ends, after memcard_flush_all or in a crash, and starts again.
Restart ==
    /\ todo = Idle
    /\ \E io \in IF \E k \in Slots : sio.cards[k].dirty
                 THEN {"ok", "cut", "no file"} ELSE {"no file"} :
         sio' = sio_init([k \in Slots |-> Loaded(Flushed(sio.cards[k], io))])
    /\ rest' = <<>> /\ hasty' = 0
    /\ UNCHANGED <<todo, driver>>

Next ==
    \/ \E n \in Chunks : sio_advance(n)
    \/ sio_advance_on
    \/ write_tx
    \/ \E v \in driver.controls : write_ctrl(v)
    \/ read_stat
    \/ \E k \in Connected, want \in {0, 1} : sio_request_pad_type(k, want)
    \/ Restart

Spec == Init /\ [][Next]_vars

----------------------------------------------------------------------------
(* Properties. *)

\* The SELECT-deassert comment of sio_write: real cards restart on every fresh
\* 0x81.  Whatever was cut off before, while no device is active no card
\* transaction is open, neither the working one nor one put aside for a pad.
FreshSelect ==
    /\ sio.device = "NONE" => sio.mc.state = "IDLE"
    /\ \A k \in Slots : sio.slots[k].state = "IDLE"

\* A sector changes only to the 128 bytes of one transaction that the card heard
\* from its select on, at the address and on the slot of that transaction,
\* however pad polls, slot changes, lost bytes and deselects are mixed in.
WriteIsOneTransaction ==
    [][\A k \in Slots :
         sio'.cards[k].data # sio.cards[k].data /\ sio'.txn.n # 0 =>
           /\ sio'.txn.n = 7 + SectorBytes /\ sio'.txn.slot = k /\ sio'.txn.cmd = Write
           /\ sio'.cards[k].data =
                [sio.cards[k].data EXCEPT ![Sector(sio'.txn)] = sio'.txn.data]]_vars

\* A card whose sectors differ from its file is dirty, so that the next flush
\* or the one at exit tries again, also after failed writes and restarts.
CleanMeansSaved ==
    \A k \in Slots : LET c == sio.cards[k]
                     IN c.present /\ ~c.dirty => c.whole /\ c.file = c.data

\* The comment of pad_type_req: the type a pad reports is stable for the whole
\* of a poll or a config handshake; only the game's own set-mode changes it.
PadTypeStable ==
    [][\A k \in Slots :
         /\ sio.in_config[k] \/ (sio.device = "PAD" /\ sio.pad.state # "IDLE" /\ k = sio.selected)
         /\ sio'.in_config[k] \/ sio'.pad.state # "IDLE"
         /\ sio'.analog[k] # sio.analog[k]
         => sio.pad.cmd = SetMode /\ sio.in_config[k]]_vars
=============================================================================
