------------------------------ MODULE SioProofs -----------------------------
(***************************************************************************)
(* What holds of the serial port for every guest program, every sector     *)
(* size and every timing: no card transaction outlives its selection, a    *)
(* sector changes only to the bytes of one transaction, a clean card is    *)
(* saved, and the type of a pad is stable while the game talks to it.      *)
(***************************************************************************)
EXTENDS Sio, TLAPS

----------------------------------------------------------------------------
(* The types. *)

McStates == DOMAIN McChain \cup
    {"IDLE", "CMD", "ID2", "ADDR_MSB", "ADDR_LSB", "GETID_4", "READ_LSB_ECHO", "READ_DATA",
     "READ_END", "WRITE_LSB_ECHO", "WRITE_DATA", "WRITE_CHK", "WRITE_END"}

McSet == [state : McStates, cmd : Byte, msb : Byte, lsb : Byte, idx : Nat,
          data : Seq(Byte), verdict : {0, Good, BadChecksum, BadSector}, fresh : BOOLEAN]

PadSet == [state : {"IDLE", "WAIT_ACCESS", "SEND_RESPONSE"}, cmd : Byte, idx : Nat, len : Nat]

Image == [0 .. SectorCount - 1 -> Seq(Byte)]

CardSet == [present : BOOLEAN, dirty : BOOLEAN, data : Image, file : Image, whole : BOOLEAN]

TxnSet == [n : Nat, slot : Slots, cmd : Byte, msb : Byte, lsb : Byte, data : Seq(Byte)]

BusSet == [shift : Byte \cup {NoByte}, left : Int, shift_en : BOOLEAN,
           buf : Byte \cup {NoByte}, buf_en : BOOLEAN,
           ack : BOOLEAN, ack_left : Int, ack_en : BOOLEAN]

SioSet ==
    [stat : SUBSET {"TX_RDY", "TX_EMPTY", "ACK", "IRQ"}, ctrl : SUBSET ControlBits,
     visible : Int, device : {"NONE", "PAD", "MEMCARD"}, selected : Slots,
     owner : {"NONE", "PAD", "CARD", "UNKNOWN"}, first : BOOLEAN,
     pad : PadSet, in_config : [Slots -> BOOLEAN], analog : [Slots -> BOOLEAN],
     type_req : [Slots -> {NoRequest, 0, 1}], locked : [Slots -> BOOLEAN],
     mc : McSet, mc_slot : Slots, slots : [Slots -> McSet],
     cards : [Slots -> CardSet], bus : BusSet, txn : TxnSet]

----------------------------------------------------------------------------
(* The invariant, as a predicate on the port. *)

\* What the card has understood of a transaction is what was said since its
\* select, byte for byte, as long as that may end in a write.
Follows(m, t) ==
    /\ m.state = "CMD" => t.n = 1 /\ t.data = <<>>
    /\ m.state = "ID1" => t.n = 2 /\ t.data = <<>> /\ t.cmd = m.cmd
    /\ m.state = "ID2" => t.n = 3 /\ t.data = <<>> /\ t.cmd = m.cmd
    /\ m.state \in {"ID1", "ID2"} => m.cmd \in {Read, Write, GetId}
    /\ m.state = "ADDR_MSB" => t.n = 4 /\ t.data = <<>> /\ t.cmd = m.cmd
    /\ m.state = "ADDR_LSB" => t.n = 5 /\ t.data = <<>> /\ t.cmd = m.cmd /\ t.msb = m.msb
    /\ m.state \in {"ADDR_MSB", "ADDR_LSB"} => m.cmd \in {Read, Write}
    /\ m.state \in {"WRITE_LSB_ECHO", "WRITE_DATA", "WRITE_CHK"} =>
          /\ t.n = 6 + Len(m.data) /\ t.data = m.data
          /\ t.cmd = Write /\ t.msb = m.msb /\ t.lsb = m.lsb
    /\ m.state = "WRITE_LSB_ECHO" => m.data = <<>>
    /\ m.state = "WRITE_DATA" => Len(m.data) < SectorBytes
    /\ m.state = "WRITE_CHK" => Len(m.data) = SectorBytes

CardOK(c) == c.present /\ ~c.dirty => c.whole /\ c.file = c.data

\* Only the active device is in the middle of something; a card put aside is
\* idle; set-mode is answered in config mode only.
DevicesOK(s) ==
    /\ s.device # "MEMCARD" => s.mc.state = "IDLE"
    /\ s.device # "PAD" => s.pad.state = "IDLE"
    /\ \A k \in Slots : s.slots[k].state = "IDLE"
    /\ s.pad.state = "SEND_RESPONSE" /\ s.pad.cmd = SetMode => s.in_config[s.selected]

TxnOK(s) == s.mc.state # "IDLE" => s.txn.slot = s.mc_slot /\ Follows(s.mc, s.txn)

PortOK(s) ==
    /\ s \in SioSet
    /\ DevicesOK(s)
    /\ TxnOK(s)
    /\ \A k \in Slots : CardOK(s.cards[k])

\* The two action properties, of a step from s to r.
WroteOne(s, r) ==
    \A k \in Slots : r.cards[k].data # s.cards[k].data =>
        /\ r.txn.n = 7 + SectorBytes /\ r.txn.slot = k /\ r.txn.cmd = Write
        /\ r.cards[k].data = [s.cards[k].data EXCEPT ![Sector(r.txn)] = r.txn.data]

TypeKept(s, r) ==
    \A k \in Slots :
        /\ s.in_config[k] \/ (s.pad.state # "IDLE" /\ k = s.selected)
        /\ r.analog[k] # s.analog[k]
        => s.pad.cmd = SetMode /\ s.in_config[k]

StepOK(s, r) == PortOK(r) /\ WroteOne(s, r) /\ TypeKept(s, r)

\* The fields the invariant is about.
SameCore(s, r) ==
    /\ r.device = s.device /\ r.selected = s.selected /\ r.pad = s.pad
    /\ r.in_config = s.in_config /\ r.analog = s.analog
    /\ r.mc = s.mc /\ r.mc_slot = s.mc_slot /\ r.slots = s.slots
    /\ r.cards = s.cards /\ r.txn = s.txn

Ios == {"ok", "cut", "no file"}

\* A step that touches none of them is harmless.
LEMMA SameCoreOK ==
    ASSUME NEW s, NEW r \in SioSet, PortOK(s), SameCore(s, r)
    PROVE  StepOK(s, r)
BY DEF PortOK, SameCore, StepOK, DevicesOK, TxnOK, WroteOne, TypeKept

\* So it is after another step.
LEMMA StepThenSame ==
    ASSUME NEW s, NEW r, NEW q \in SioSet, StepOK(s, r), SameCore(r, q)
    PROVE  StepOK(s, q)
BY DEF PortOK, SameCore, StepOK, DevicesOK, TxnOK, WroteOne, TypeKept

\* And before another step.
LEMMA SameThenStep ==
    ASSUME NEW s, NEW r, NEW q, SameCore(s, r), StepOK(r, q)
    PROVE  StepOK(s, q)
BY DEF PortOK, SameCore, StepOK, DevicesOK, TxnOK, WroteOne, TypeKept

----------------------------------------------------------------------------
(* The pad. *)

\* A byte for the pad: the type changes only when the bus is idle and the slot
\* is out of config mode, or by set-mode, which the pad hears in config mode.
LEMMA PadByteOK ==
    ASSUME NEW s, NEW b \in Byte, PortOK(s), s.device = "PAD"
    PROVE  /\ StepOK(s, pad_process_byte(s, b))
           /\ pad_process_byte(s, b).bus = s.bus /\ pad_process_byte(s, b).ctrl = s.ctrl
<1> DEFINE t == TypeApplied(s)
           now(k) == /\ s.pad.state = "IDLE" /\ s.type_req[k] # NoRequest
                     /\ ~s.in_config[k] /\ ~s.locked[k]
           an == [k \in Slots |-> IF now(k) THEN s.type_req[k] = 1 ELSE s.analog[k]]
           rq == [k \in Slots |-> IF now(k) THEN NoRequest ELSE s.type_req[k]]
<1>0. s \in SioSet
  BY DEF PortOK
<1>1. /\ t \in SioSet /\ t.pad = s.pad /\ t.in_config = s.in_config /\ t.analog = an
      /\ t.selected = s.selected /\ t.device = s.device /\ t.bus = s.bus /\ t.ctrl = s.ctrl
      /\ t.mc = s.mc /\ t.mc_slot = s.mc_slot /\ t.slots = s.slots
      /\ t.cards = s.cards /\ t.txn = s.txn
  <2>1. an \in [Slots -> BOOLEAN]
    <3>1. \A k \in Slots : s.analog[k] \in BOOLEAN
      BY <1>0 DEF SioSet
    <3> QED BY <3>1, Zenon
  <2>2. rq \in [Slots -> {NoRequest, 0, 1}]
    BY <1>0 DEF SioSet
  <2>3. t = [s EXCEPT !.analog = an, !.type_req = rq]
    BY DEF TypeApplied
  <2> HIDE DEF t, an, rq
  <2> QED BY <1>0, <2>1, <2>2, <2>3 DEF SioSet
<1> DEFINE k0 == t.selected
           next == PadNext(t, b)
           L == PadLatched(t, b)
           at(cmd, i) == t.pad.state = "SEND_RESPONSE" /\ t.pad.cmd = cmd /\ t.pad.idx = i
           ic == IF at(Config, 2) THEN b = 1 ELSE t.in_config[k0]
           am == IF at(SetMode, 2) THEN b = 1 ELSE t.analog[k0]
           rm == IF at(SetMode, 2) THEN NoRequest ELSE t.type_req[k0]
           lm == IF at(SetMode, 3) /\ b \in {2, 3} THEN b = 3 ELSE t.locked[k0]
<1>2. next \in PadSet
  BY <1>1 DEF PadNext, PadSet, PadIdle, FrameLength, SioSet, Byte
<1>3. next.state = "SEND_RESPONSE" /\ next.cmd = SetMode =>
         \/ t.pad.state = "SEND_RESPONSE" /\ t.pad.cmd = SetMode
         \/ t.in_config[k0] /\ t.pad.state = "WAIT_ACCESS"
  BY <1>1 DEF PadNext, PadSet, PadIdle, PadAnswers, SioSet, SetMode, Poll, Config
<1> HIDE DEF t, next
<1>4. /\ ic \in BOOLEAN /\ am \in BOOLEAN /\ lm \in BOOLEAN /\ rm \in {NoRequest, 0, 1}
      /\ k0 \in Slots
  <2>1. /\ t.in_config[k0] \in BOOLEAN /\ t.analog[k0] \in BOOLEAN /\ t.locked[k0] \in BOOLEAN
        /\ k0 \in Slots /\ t.type_req[k0] \in {NoRequest, 0, 1}
    BY <1>1 DEF SioSet
  <2>2. rm \in {NoRequest, 0, 1}
    BY <2>1
  <2>3. ic \in BOOLEAN /\ am \in BOOLEAN /\ lm \in BOOLEAN
    BY <2>1, Zenon
  <2> QED BY <2>1, <2>2, <2>3
<1>5. L = [t EXCEPT !.in_config[k0] = ic, !.analog[k0] = am, !.type_req[k0] = rm, !.locked[k0] = lm]
  BY DEF PadLatched
<1> HIDE DEF L
<1>6. /\ L \in SioSet /\ L.pad = t.pad /\ L.selected = t.selected /\ L.device = t.device
      /\ L.bus = t.bus /\ L.ctrl = t.ctrl /\ L.mc = t.mc /\ L.mc_slot = t.mc_slot
      /\ L.slots = t.slots /\ L.cards = t.cards /\ L.txn = t.txn
      /\ \A k \in Slots : /\ L.in_config[k] = IF k = k0 THEN ic ELSE t.in_config[k]
                          /\ L.analog[k] = IF k = k0 THEN am ELSE t.analog[k]
  <2> HIDE DEF ic, am, rm, lm, k0
  <2>1. t \in SioSet
    BY <1>1
  <2> QED BY <1>4, <1>5, <2>1 DEF SioSet
<1> DEFINE r == pad_process_byte(s, b)
           st == Ready(L.stat) \cup (IF next.state # "IDLE" THEN {"ACK"} ELSE {})
<1>7. r = [L EXCEPT !.pad = next, !.stat = st]
  BY DEF pad_process_byte, t, next, L
<1>8. /\ r \in SioSet /\ r.pad = next /\ r.selected = s.selected /\ r.device = s.device
      /\ r.bus = s.bus /\ r.ctrl = s.ctrl /\ r.mc = s.mc /\ r.mc_slot = s.mc_slot
      /\ r.slots = s.slots /\ r.cards = s.cards /\ r.txn = s.txn
      /\ r.in_config = L.in_config /\ r.analog = L.analog
  <2>1. st \in SUBSET {"TX_RDY", "TX_EMPTY", "ACK", "IRQ"}
    BY <1>6 DEF Ready, SioSet
  <2> HIDE DEF r, st
  <2> QED BY <1>1, <1>2, <1>6, <1>7, <2>1 DEF SioSet
<1> HIDE DEF r
<1>9. r.pad.state = "SEND_RESPONSE" /\ r.pad.cmd = SetMode => r.in_config[r.selected]
  <2> SUFFICES ASSUME next.state = "SEND_RESPONSE" /\ next.cmd = SetMode
               PROVE  r.in_config[k0]
    BY <1>1, <1>8
  <2>1. t.in_config[k0]
    BY <1>1, <1>3 DEF PortOK, DevicesOK
  <2>2. ~ at(Config, 2)
    BY <1>3 DEF SetMode, Config
  <2> QED BY <1>4, <1>6, <1>8, <2>1, <2>2, Zenon
<1>10. TypeKept(s, r)
  <2> SUFFICES ASSUME NEW k \in Slots,
                      s.in_config[k] \/ (s.pad.state # "IDLE" /\ k = s.selected),
                      r.analog[k] # s.analog[k]
               PROVE  s.pad.cmd = SetMode /\ s.in_config[k]
    BY DEF TypeKept
  <2>1. t.analog[k] = s.analog[k]
    BY <1>1
  <2>2. k = k0 /\ at(SetMode, 2)
    BY <1>6, <1>8, <2>1
  <2> QED BY <1>1, <2>2 DEF PortOK, DevicesOK
<1>11. DevicesOK(r) /\ TxnOK(r) /\ WroteOne(s, r) /\ \A k \in Slots : CardOK(r.cards[k])
  BY <1>8, <1>9 DEF PortOK, DevicesOK, TxnOK, WroteOne
<1> QED BY <1>8, <1>10, <1>11 DEF StepOK, PortOK, r

----------------------------------------------------------------------------
(* The memory card. *)

\* A sector has at least two bytes.
LEMMA SectorSize == SectorBytes \in Nat /\ SectorBytes > 1
<1>1. SectorBytes \in Nat \ {0, 1}
  BY SioAssumption
<1> QED BY <1>1

\* The card's step function stays within its type.
LEMMA McNextType ==
    ASSUME NEW m \in McSet, NEW b \in Byte, NEW present \in BOOLEAN
    PROVE  McNext(m, b, present) \in McSet
<1>1. Verdict(m, b) \in {0, Good, BadChecksum, BadSector}
  BY DEF Verdict
<1>2. m.state \in DOMAIN McChain => McChain[m.state] \in McStates
  BY DEF McChain, McStates
<1>3. Append(m.data, b) \in Seq(Byte) /\ <<>> \in Seq(Byte)
  BY DEF McSet
<1>4. m.state \in DOMAIN McChain \/ m.state \in
    {"IDLE", "CMD", "ID2", "ADDR_MSB", "ADDR_LSB", "GETID_4", "READ_LSB_ECHO", "READ_DATA",
     "READ_END", "WRITE_LSB_ECHO", "WRITE_DATA", "WRITE_CHK", "WRITE_END"}
  BY DEF McSet, McStates
<1>5. {"IDLE", "CMD", "ID1", "ID2", "GETID_1", "ADDR_MSB", "ADDR_LSB", "READ_ACK1", "READ_DATA",
       "READ_CHK", "WRITE_LSB_ECHO", "WRITE_DATA", "WRITE_CHK", "WRITE_ACK1"} \subseteq McStates
  BY DEF McStates, McChain
<1>6. m.state \in DOMAIN McChain => m.state \notin
    {"IDLE", "CMD", "ID2", "ADDR_MSB", "ADDR_LSB", "GETID_4", "READ_LSB_ECHO", "READ_DATA",
     "READ_END", "WRITE_LSB_ECHO", "WRITE_DATA", "WRITE_CHK", "WRITE_END"}
  BY DEF McChain
<1> HIDE DEF McStates, McChain, Verdict
<1>7. CASE m.state \in DOMAIN McChain
  <2>1. McNext(m, b, present) = [m EXCEPT !.state = McChain[m.state]]
    BY <1>6, <1>7 DEF McNext
  <2> QED BY <1>2, <1>7, <2>1 DEF McSet
<1>8. CASE m.state \in {"IDLE", "CMD", "ID2"}
  BY <1>5, <1>8 DEF McNext, McSet
<1>9. CASE m.state \in {"ADDR_MSB", "ADDR_LSB", "READ_LSB_ECHO"}
  BY <1>3, <1>5, <1>9 DEF McNext, McSet, AddressTaken
<1>10. CASE m.state \in {"READ_DATA", "READ_END", "GETID_4", "WRITE_END"}
  <2>1. CASE m.state = "READ_DATA"
    <3>1. McNext(m, b, present) =
            [m EXCEPT !.idx = m.idx + 1,
                      !.state = IF m.idx + 1 >= SectorBytes THEN "READ_CHK" ELSE "READ_DATA"]
      BY <2>1 DEF McNext
    <3>2. m.idx + 1 \in Nat
      BY DEF McSet
    <3> QED BY <1>5, <3>1, <3>2 DEF McSet
  <2>2. CASE m.state \in {"READ_END", "GETID_4"}
    <3>1. McNext(m, b, present) = [m EXCEPT !.state = "IDLE"]
      BY <2>2 DEF McNext
    <3> QED BY <1>5, <3>1 DEF McSet
  <2>3. CASE m.state = "WRITE_END"
    <3>1. McNext(m, b, present) = [m EXCEPT !.state = "IDLE", !.fresh = FALSE]
      BY <2>3 DEF McNext
    <3> QED BY <1>5, <3>1 DEF McSet
  <2> QED BY <1>10, <2>1, <2>2, <2>3
<1>11. CASE m.state \in {"WRITE_LSB_ECHO", "WRITE_DATA"}
  BY <1>3, <1>5, <1>11 DEF McNext, McSet
<1>12. CASE m.state = "WRITE_CHK"
  BY <1>1, <1>5, <1>12 DEF McNext, McSet
<1> QED BY <1>4, <1>7, <1>8, <1>9, <1>10, <1>11, <1>12

\* The ghost stays within its type.
LEMMA HeardType ==
    ASSUME NEW t \in TxnSet, NEW b \in Byte
    PROVE  Heard(t, b) \in TxnSet
<1>1. t.n + 1 \in Nat /\ Append(t.data, b) \in Seq(Byte)
  BY DEF TxnSet
<1> QED BY <1>1 DEF Heard, TxnSet

\* Card and ghost hear a byte in step.
LEMMA FollowsNext ==
    ASSUME NEW m \in McSet, NEW t \in TxnSet, NEW b \in Byte, NEW present \in BOOLEAN,
           m.state # "IDLE", Follows(m, t)
    PROVE  Follows(McNext(m, b, present), Heard(t, b))
<1> DEFINE m1 == McNext(m, b, present)
           t1 == Heard(t, b)
           Midway == {"CMD", "ID1", "ID2", "ADDR_MSB", "ADDR_LSB",
                      "WRITE_LSB_ECHO", "WRITE_DATA", "WRITE_CHK"}
<1>0. /\ SectorBytes \in Nat /\ SectorBytes > 1 /\ Len(m.data) \in Nat /\ t.n \in Nat
      /\ t.data \in Seq(Byte) /\ m.data \in Seq(Byte)
  BY SectorSize DEF McSet, TxnSet
<1>t. /\ t1.n = IF t.n > 8 + SectorBytes THEN t.n ELSE t.n + 1
      /\ t1.slot = t.slot
      /\ t1.cmd = IF t.n = 1 THEN b ELSE t.cmd
      /\ t1.msb = IF t.n = 4 THEN b ELSE t.msb
      /\ t1.lsb = IF t.n = 5 THEN b ELSE t.lsb
      /\ t1.data = IF t.n \in 6 .. 5 + SectorBytes THEN Append(t.data, b) ELSE t.data
  BY DEF Heard, TxnSet
<1>1. CASE m.state = "CMD"
  <2>1. \/ m1.state = "ID1" /\ m1.cmd = b /\ b \in {Read, Write, GetId}
        \/ m1.state = "IDLE"
    BY <1>1 DEF McNext, McSet
  <2>2. t1.n = 2 /\ t1.cmd = b /\ t1.data = <<>>
    BY <1>0, <1>1, <1>t DEF Follows
  <2> QED BY <2>1, <2>2 DEF Follows
<1>2. CASE m.state = "ID1"
  <2>1. m1.state = "ID2" /\ m1.cmd = m.cmd
    BY <1>2 DEF McNext, McSet, McChain
  <2>2. t1.n = 3 /\ t1.cmd = m.cmd /\ t1.data = <<>>
    BY <1>0, <1>2, <1>t DEF Follows
  <2> QED BY <2>1, <2>2, <1>2 DEF Follows
<1>3. CASE m.state = "ID2"
  <2>1. m1.state = (IF m.cmd = GetId THEN "GETID_1" ELSE "ADDR_MSB") /\ m1.cmd = m.cmd
    BY <1>3 DEF McNext, McSet
  <2>2. t1.n = 4 /\ t1.cmd = m.cmd /\ t1.data = <<>>
    BY <1>0, <1>3, <1>t DEF Follows
  <2> QED BY <2>1, <2>2, <1>3 DEF Follows
<1>4. CASE m.state = "ADDR_MSB"
  <2>1. m1.state = "ADDR_LSB" /\ m1.cmd = m.cmd /\ m1.msb = b
    BY <1>4 DEF McNext, McSet
  <2>2. t1.n = 5 /\ t1.cmd = m.cmd /\ t1.data = <<>> /\ t1.msb = b
    BY <1>0, <1>4, <1>t DEF Follows
  <2> QED BY <2>1, <2>2, <1>4 DEF Follows
<1>5. CASE m.state = "ADDR_LSB"
  <2>1. /\ m1.state = (IF m.cmd = Read THEN "READ_ACK1" ELSE "WRITE_LSB_ECHO")
        /\ m1.cmd = m.cmd /\ m1.msb = m.msb /\ m1.lsb = b /\ m1.data = <<>>
    BY <1>5 DEF McNext, McSet, AddressTaken
  <2>2. /\ t1.n = 6 /\ t1.cmd = m.cmd /\ t1.data = <<>> /\ t1.msb = m.msb /\ t1.lsb = b
        /\ m.cmd \in {Read, Write}
    BY <1>0, <1>5, <1>t DEF Follows
  <2>3. Len(m1.data) = 0
    BY <2>1
  <2> QED BY <2>1, <2>2, <2>3 DEF Follows
<1>6. CASE m.state \in {"WRITE_LSB_ECHO", "WRITE_DATA"}
  <2>0. Len(m.data) < SectorBytes
    BY <1>0, <1>6 DEF Follows
  <2>1. /\ m1.state = IF m.state = "WRITE_DATA" /\ Len(m.data) + 1 >= SectorBytes
                      THEN "WRITE_CHK" ELSE "WRITE_DATA"
        /\ m1.cmd = m.cmd /\ m1.msb = m.msb /\ m1.lsb = m.lsb /\ m1.data = Append(m.data, b)
    BY <1>6 DEF McNext, McSet
  <2>2. t.n = 6 + Len(m.data) /\ t.data = m.data /\ t.cmd = Write /\ t.msb = m.msb /\ t.lsb = m.lsb
    BY <1>6 DEF Follows
  <2>3. Len(m1.data) = Len(m.data) + 1
    BY <1>0, <2>1
  <2>4. t.n \in 6 .. 5 + SectorBytes /\ ~ (t.n > 8 + SectorBytes) /\ t.n \notin {1, 4, 5}
    BY <1>0, <2>0, <2>2
  <2>5. /\ t1.n = 6 + Len(m1.data) /\ t1.data = m1.data
        /\ t1.cmd = Write /\ t1.msb = m1.msb /\ t1.lsb = m1.lsb
    BY <1>0, <1>t, <2>1, <2>2, <2>3, <2>4
  <2>6. m1.state = "WRITE_DATA" => Len(m1.data) < SectorBytes
    <3>1. m.state = "WRITE_LSB_ECHO" => Len(m.data) = 0
      BY DEF Follows
    <3> QED BY <1>0, <1>6, <2>0, <2>1, <2>3, <3>1
  <2>7. m1.state = "WRITE_CHK" => Len(m1.data) = SectorBytes
    BY <1>0, <2>0, <2>1, <2>3
  <2>8. m1.state \in {"WRITE_DATA", "WRITE_CHK"}
    BY <2>1
  <2> HIDE DEF m1, t1
  <2>9. Follows(m1, t1)
    BY <2>5, <2>6, <2>7, <2>8 DEF Follows
  <2> QED BY <2>9 DEF m1, t1
<1>7. CASE m.state \notin Midway \/ m.state = "WRITE_CHK"
  <2>1. m1.state \notin Midway
    BY <1>7 DEF McNext, McSet, McStates, McChain
  <2> HIDE DEF m1, t1
  <2>2. Follows(m1, t1)
    BY <2>1 DEF Follows
  <2> QED BY <2>2 DEF m1, t1
<1> QED BY <1>1, <1>2, <1>3, <1>4, <1>5, <1>6, <1>7

\* Writing a sector and its file: a card that is not saved stays dirty.
LEMMA SectorWritten ==
    ASSUME NEW c \in CardSet, NEW m \in McSet, NEW io \in Ios
    PROVE  /\ Flushed(memcard_write_sector(c, m), io) \in CardSet
           /\ CardOK(c) => CardOK(Flushed(memcard_write_sector(c, m), io))
           /\ Flushed(memcard_write_sector(c, m), io).data # c.data =>
                 Flushed(memcard_write_sector(c, m), io).data = [c.data EXCEPT ![Sector(m)] = m.data]
<1> DEFINE w == memcard_write_sector(c, m)
           D == [c.data EXCEPT ![Sector(m)] = m.data]
<1>1. D \in Image
  BY DEF CardSet, McSet, Image
<1>2. /\ w \in CardSet /\ w.data \in {c.data, D}
      /\ c.present => w.dirty
      /\ ~ c.present => w = c
  BY <1>1 DEF memcard_write_sector, CardSet
<1> HIDE DEF w, D
<1>3. /\ Flushed(w, io) \in CardSet
      /\ Flushed(w, io).data = w.data
      /\ CardOK(w) => CardOK(Flushed(w, io))
  <2>1. CASE ~ w.dirty \/ io = "no file"
    BY <1>2, <2>1 DEF Flushed
  <2>2. CASE w.dirty /\ io = "cut"
    <3>1. Flushed(w, io) = [w EXCEPT !.whole = FALSE]
      BY <2>2 DEF Flushed
    <3> QED BY <1>2, <2>2, <3>1 DEF CardSet, CardOK
  <2>3. CASE w.dirty /\ io = "ok"
    <3>1. Flushed(w, io) = [w EXCEPT !.file = w.data, !.whole = TRUE, !.dirty = FALSE]
      BY <2>3 DEF Flushed
    <3> QED BY <1>2, <2>3, <3>1 DEF CardSet, CardOK
  <2> QED BY <2>1, <2>2, <2>3 DEF Ios
<1>4. CardOK(c) => CardOK(w)
  <2>1. w \in CardSet /\ (c.present => w.dirty) /\ (~ c.present => w = c)
    BY <1>2
  <2>2. CASE c.present
    BY <2>1, <2>2 DEF CardOK
  <2>3. CASE ~ c.present
    BY <2>1, <2>3 DEF CardOK
  <2> QED BY <2>2, <2>3
<1> QED BY <1>2, <1>3, <1>4 DEF w, D

\* A byte for a card: a sector changes with the checksum byte of a write, to
\* the bytes heard since the select.
LEMMA CardByteOK ==
    ASSUME NEW s, NEW b \in Byte, NEW io \in Ios, PortOK(s), s.device = "MEMCARD"
    PROVE  /\ StepOK(s, mc_process_byte(s, b, io))
           /\ mc_process_byte(s, b, io).bus = s.bus /\ mc_process_byte(s, b, io).ctrl = s.ctrl
<1>0. s \in SioSet /\ s.mc \in McSet /\ s.txn \in TxnSet /\ s.cards \in [Slots -> CardSet]
      /\ s.mc_slot \in Slots /\ s.selected \in Slots
  BY DEF PortOK, SioSet
<1> DEFINE k0 == CardSlot(s)
           next == McNext(s.mc, b, s.cards[k0].present)
           good == s.mc.state = "WRITE_CHK" /\ next.verdict = Good
           c1 == IF good THEN Flushed(memcard_write_sector(s.cards[k0], s.mc), io) ELSE s.cards[k0]
           st == Ready(s.stat) \cup (IF next.state # "IDLE" THEN {"ACK"} ELSE {})
           t1 == IF s.mc.state = "IDLE" THEN [NoTxn EXCEPT !.n = 1, !.slot = k0]
                 ELSE Heard(s.txn, b)
           r == mc_process_byte(s, b, io)
<1>1. k0 \in Slots /\ (s.mc.state # "IDLE" => k0 = s.mc_slot)
  BY <1>0 DEF CardSlot
<1>2. s.cards[k0] \in CardSet /\ s.cards[k0].present \in BOOLEAN /\ CardOK(s.cards[k0])
  BY <1>0, <1>1 DEF CardSet, PortOK
<1> HIDE DEF k0
<1>3. next \in McSet
  BY <1>0, <1>2, McNextType
<1>4. /\ c1 \in CardSet /\ CardOK(c1)
      /\ c1.data # s.cards[k0].data =>
            good /\ c1.data = [s.cards[k0].data EXCEPT ![Sector(s.mc)] = s.mc.data]
  BY <1>0, <1>2, SectorWritten
<1>5. /\ t1 \in TxnSet /\ t1.slot = IF s.mc.state = "IDLE" THEN k0 ELSE s.txn.slot
      /\ s.mc.state = "IDLE" => t1.n = 1 /\ t1.data = <<>>
  <2>1. CASE s.mc.state = "IDLE"
    <3>1. t1 = [n |-> 1, slot |-> k0, cmd |-> 0, msb |-> 0, lsb |-> 0, data |-> <<>>]
      BY <2>1 DEF NoTxn
    <3>2. 0 \in Byte /\ <<>> \in Seq(Byte)
      BY DEF Byte
    <3> HIDE DEF t1
    <3> QED BY <1>1, <2>1, <3>1, <3>2 DEF TxnSet
  <2>2. CASE s.mc.state # "IDLE"
    BY <2>2, <1>0, HeardType DEF Heard, TxnSet
  <2> QED BY <2>1, <2>2
<1>6. st \in SUBSET {"TX_RDY", "TX_EMPTY", "ACK", "IRQ"}
  BY <1>0 DEF SioSet, Ready
<1>7. r = [s EXCEPT !.mc = next, !.mc_slot = k0, !.cards[k0] = c1, !.stat = st, !.txn = t1]
  BY DEF mc_process_byte, k0
<1>8. next.state # "IDLE" => Follows(next, t1)
  <2>1. CASE s.mc.state = "IDLE"
    <3>1. next.state # "IDLE" => next.state = "CMD"
      BY <1>0, <2>1 DEF McNext, McSet
    <3> HIDE DEF next, t1
    <3> QED BY <1>5, <2>1, <3>1 DEF Follows
  <2>2. CASE s.mc.state # "IDLE"
    BY <1>0, <1>2, <2>2, FollowsNext DEF PortOK, TxnOK
  <2> QED BY <2>1, <2>2
<1>9. good => /\ t1.n = 7 + SectorBytes /\ t1.slot = k0 /\ t1.cmd = Write
              /\ t1.data = s.mc.data /\ Sector(t1) = Sector(s.mc)
  <2> SUFFICES ASSUME s.mc.state = "WRITE_CHK"
               PROVE  /\ t1.n = 7 + SectorBytes /\ t1.slot = k0 /\ t1.cmd = Write
                      /\ t1.data = s.mc.data /\ Sector(t1) = Sector(s.mc)
    OBVIOUS
  <2>1. /\ s.txn.n = 6 + SectorBytes /\ s.txn.data = s.mc.data /\ s.txn.cmd = Write
        /\ s.txn.msb = s.mc.msb /\ s.txn.lsb = s.mc.lsb /\ s.txn.slot = s.mc_slot
    BY DEF PortOK, TxnOK, Follows
  <2>2. SectorBytes \in Nat /\ SectorBytes > 1
    BY SectorSize
  <2>3. /\ t1.n = 7 + SectorBytes /\ t1.cmd = s.txn.cmd /\ t1.data = s.txn.data
        /\ t1.msb = s.txn.msb /\ t1.lsb = s.txn.lsb
    BY <1>0, <2>1, <2>2 DEF Heard, TxnSet
  <2> QED BY <1>1, <1>5, <2>1, <2>3 DEF Sector
<1> HIDE DEF next, good, c1, st, t1, r
<1>10. /\ r \in SioSet /\ r.mc = next /\ r.mc_slot = k0 /\ r.txn = t1
       /\ \A k \in Slots : r.cards[k] = IF k = k0 THEN c1 ELSE s.cards[k]
       /\ r.bus = s.bus /\ r.ctrl = s.ctrl /\ r.device = s.device /\ r.pad = s.pad
       /\ r.in_config = s.in_config /\ r.analog = s.analog /\ r.selected = s.selected
       /\ r.slots = s.slots
  BY <1>0, <1>1, <1>3, <1>4, <1>5, <1>6, <1>7 DEF SioSet
<1>11. DevicesOK(r) /\ TypeKept(s, r)
  BY <1>10 DEF PortOK, DevicesOK, TypeKept
<1>12. TxnOK(r)
  BY <1>1, <1>5, <1>8, <1>10 DEF PortOK, TxnOK
<1>13. \A k \in Slots : CardOK(r.cards[k])
  BY <1>4, <1>10 DEF PortOK
<1>14. WroteOne(s, r)
  BY <1>4, <1>9, <1>10 DEF WroteOne
<1> QED BY <1>10, <1>11, <1>12, <1>13, <1>14 DEF StepOK, PortOK, r

----------------------------------------------------------------------------
(* sio_process_byte. *)

\* Turning to a device, or to a slot while no pad is in the middle of
\* something, changes nothing the two action properties look at.
LEMMA TurnedTo ==
    ASSUME NEW s, NEW t, NEW r, StepOK(t, r),
           t.pad = s.pad, t.in_config = s.in_config, t.analog = s.analog, t.cards = s.cards,
           t.selected = s.selected \/ s.pad.state = "IDLE"
    PROVE  StepOK(s, r)
BY DEF StepOK, WroteOne, TypeKept

\* Steps that touch neither the sectors nor the type of a pad.
Kept(s, r) == r.cards = s.cards /\ r.analog = s.analog

\* They keep the properties of a step if they keep the invariant.
LEMMA KeptOK ==
    ASSUME NEW s, NEW r, PortOK(r), Kept(s, r)
    PROVE  StepOK(s, r)
BY DEF StepOK, WroteOne, TypeKept, Kept

\* What a byte does, and that it leaves the shifter alone.
ProcessOK(s, r) == StepOK(s, r) /\ r.bus = s.bus /\ r.ctrl = s.ctrl

\* A byte for a pad while no card is in the middle of something.
LEMMA ToPadOK ==
    ASSUME NEW s, NEW b \in Byte, PortOK(s), s.mc.state = "IDLE"
    PROVE  ProcessOK(s, ToPad(s, b))
<1> DEFINE t == [s EXCEPT !.device = "PAD"]
<1>1. /\ t \in SioSet /\ t.device = "PAD" /\ t.pad = s.pad /\ t.in_config = s.in_config
      /\ t.analog = s.analog /\ t.cards = s.cards /\ t.selected = s.selected /\ t.mc = s.mc
      /\ t.slots = s.slots /\ t.mc_slot = s.mc_slot /\ t.txn = s.txn
      /\ t.bus = s.bus /\ t.ctrl = s.ctrl
  BY DEF PortOK, SioSet
<1>2. ToPad(s, b) = pad_process_byte(t, b)
  BY DEF ToPad
<1> HIDE DEF t
<1>3. PortOK(t)
  BY <1>1 DEF PortOK, DevicesOK, TxnOK
<1>4. StepOK(t, ToPad(s, b)) /\ ToPad(s, b).bus = t.bus /\ ToPad(s, b).ctrl = t.ctrl
  BY <1>1, <1>2, <1>3, PadByteOK
<1> QED BY <1>1, <1>4, TurnedTo DEF ProcessOK

\* A byte for a card while no pad is in the middle of something.
LEMMA ToCardOK ==
    ASSUME NEW s, NEW b \in Byte, NEW io \in Ios, PortOK(s), s.pad.state = "IDLE"
    PROVE  ProcessOK(s, ToCard(s, b, io))
<1> DEFINE t == [s EXCEPT !.device = "MEMCARD"]
<1>1. /\ t \in SioSet /\ t.device = "MEMCARD" /\ t.pad = s.pad /\ t.in_config = s.in_config
      /\ t.analog = s.analog /\ t.cards = s.cards /\ t.selected = s.selected /\ t.mc = s.mc
      /\ t.slots = s.slots /\ t.mc_slot = s.mc_slot /\ t.txn = s.txn
      /\ t.bus = s.bus /\ t.ctrl = s.ctrl
  BY DEF PortOK, SioSet
<1>2. ToCard(s, b, io) = mc_process_byte(t, b, io)
  BY DEF ToCard
<1> HIDE DEF t
<1>3. PortOK(t)
  BY <1>1 DEF PortOK, DevicesOK, TxnOK
<1>4. StepOK(t, ToCard(s, b, io)) /\ ToCard(s, b, io).bus = t.bus /\ ToCard(s, b, io).ctrl = t.ctrl
  BY <1>1, <1>2, <1>3, CardByteOK
<1> QED BY <1>1, <1>4, TurnedTo DEF ProcessOK

\* A byte nobody claims.
LEMMA ToNobodyOK ==
    ASSUME NEW s, PortOK(s), s.pad.state = "IDLE"
    PROVE  ProcessOK(s, ToNobody(s))
<1> DEFINE r == ToNobody(s)
           m == [s.mc EXCEPT !.state = "IDLE"]
           st == Ready(s.stat)
<1>1. m \in McSet /\ m.state = "IDLE"
  BY DEF PortOK, SioSet, McSet, McStates
<1>2. st \in SUBSET {"TX_RDY", "TX_EMPTY", "ACK", "IRQ"}
  BY DEF PortOK, SioSet, Ready
<1>3. r = [s EXCEPT !.device = "NONE", !.mc = m, !.stat = st]
  BY DEF ToNobody, PortOK, SioSet
<1> HIDE DEF r, m, st
<1>4. /\ r \in SioSet /\ r.device = "NONE" /\ r.mc = m /\ r.pad = s.pad /\ r.cards = s.cards
      /\ r.analog = s.analog /\ r.slots = s.slots /\ r.bus = s.bus /\ r.ctrl = s.ctrl
  BY <1>1, <1>2, <1>3 DEF PortOK, SioSet
<1>5. PortOK(r) /\ Kept(s, r)
  BY <1>1, <1>4 DEF PortOK, DevicesOK, TxnOK, Kept
<1> QED BY <1>4, <1>5, KeptOK DEF ProcessOK, r

\* Choosing the slot, and with it the card that was put aside there, while
\* neither pad nor card is in the middle of something.
LEMMA Reselected ==
    ASSUME NEW s, PortOK(s), s.pad.state = "IDLE", s.mc.state = "IDLE",
           NEW t \in SioSet, t.mc.state = "IDLE", t.slots = s.slots, t.pad = s.pad,
           t.cards = s.cards, t.in_config = s.in_config, t.analog = s.analog,
           t.bus = s.bus, t.ctrl = s.ctrl,
           NEW r, PortOK(t) => ProcessOK(t, r)
    PROVE  ProcessOK(s, r)
<1>1. PortOK(t)
  BY DEF PortOK, DevicesOK, TxnOK
<1> QED BY <1>1, TurnedTo DEF ProcessOK

\* sio_process_byte, whoever hears the byte.
LEMMA ProcessByteOK ==
    ASSUME NEW s, NEW b \in Byte, NEW io \in Ios, PortOK(s)
    PROVE  ProcessOK(s, sio_process_byte(s, b, io))
<1>0. s \in SioSet /\ SlotBit(s) \in Slots
  BY DEF PortOK, SlotBit, Slots
<1> DEFINE k0 == SlotBit(s)
           t == [s EXCEPT !.selected = k0]
<1>1. /\ t \in SioSet /\ t.mc = s.mc /\ t.slots = s.slots /\ t.pad = s.pad
      /\ t.cards = s.cards /\ t.in_config = s.in_config /\ t.analog = s.analog
      /\ t.bus = s.bus /\ t.ctrl = s.ctrl /\ t.mc_slot = s.mc_slot
  BY <1>0 DEF SioSet
<1>2. CASE s.device = "NONE"
  <2>0. s.mc.state = "IDLE" /\ s.pad.state = "IDLE" /\ s.slots[k0].state = "IDLE"
    BY <1>0, <1>2 DEF PortOK, DevicesOK
  <2> DEFINE u == [t EXCEPT !.mc = s.slots[k0]]
             v == [u EXCEPT !.mc.state = "IDLE", !.mc_slot = k0]
  <2> HIDE DEF k0, t
  <2>1. s.slots[k0] \in McSet /\ k0 \in Slots
    BY <1>0 DEF SioSet, k0
  <2>2. /\ u \in SioSet /\ u.mc.state = "IDLE" /\ u.slots = s.slots /\ u.pad = s.pad
        /\ u.cards = s.cards /\ u.in_config = s.in_config /\ u.analog = s.analog
        /\ u.bus = s.bus /\ u.ctrl = s.ctrl /\ u.mc = s.slots[k0]
    BY <1>1, <2>0, <2>1 DEF SioSet
  <2> HIDE DEF u
  <2>3. /\ v \in SioSet /\ v.mc.state = "IDLE" /\ v.slots = s.slots /\ v.pad = s.pad
        /\ v.cards = s.cards /\ v.in_config = s.in_config /\ v.analog = s.analog
        /\ v.bus = s.bus /\ v.ctrl = s.ctrl
    <3> DEFINE m == [u.mc EXCEPT !.state = "IDLE"]
    <3>1. m \in McSet /\ m.state = "IDLE"
      BY <2>1, <2>2 DEF McSet, McStates
    <3>2. v = [u EXCEPT !.mc = m, !.mc_slot = k0]
      BY <2>2 DEF SioSet
    <3> HIDE DEF v, m
    <3> QED BY <2>1, <2>2, <3>1, <3>2 DEF SioSet
  <2> HIDE DEF v
  <2>4. sio_process_byte(s, b, io) = IF b = PadSelect THEN ToPad(t, b)
                                     ELSE IF b = CardSelect THEN ToCard(v, b, io)
                                     ELSE ToNobody(u)
    <3>1. sio_process_byte(s, b, io) = Unclaimed(s, b, io)
      BY <1>2 DEF sio_process_byte
    <3>2. PadSelect # CardSelect
      BY DEF PadSelect, CardSelect
    <3> QED BY <2>0, <3>1, <3>2 DEF Unclaimed, t, u, v, k0
  <2>5. ProcessOK(s, ToPad(t, b))
    BY <1>1, <2>0, ToPadOK, Reselected
  <2>6. ProcessOK(s, ToCard(v, b, io))
    BY <2>0, <2>3, ToCardOK, Reselected
  <2>7. ProcessOK(s, ToNobody(u))
    BY <2>0, <2>2, ToNobodyOK, Reselected
  <2> QED BY <2>4, <2>5, <2>6, <2>7
<1>3. CASE s.device = "PAD"
  BY <1>3, PadByteOK DEF sio_process_byte, ProcessOK
<1>4. CASE s.device = "MEMCARD" /\ s.mc.state = "IDLE"
  <2>0. s.pad.state = "IDLE"
    BY <1>4 DEF PortOK, DevicesOK
  <2>1. sio_process_byte(s, b, io) = IF b = CardSelect THEN ToCard(s, b, io)
                                     ELSE IF b = PadSelect THEN ToPad(t, b) ELSE ToNobody(t)
    <3>1. sio_process_byte(s, b, io) = Released(s, b, io)
      BY <1>4 DEF sio_process_byte
    <3>2. PadSelect # CardSelect
      BY DEF PadSelect, CardSelect
    <3> QED BY <3>1, <3>2 DEF Released
  <2> HIDE DEF t
  <2>2. ProcessOK(s, ToCard(s, b, io))
    BY <2>0, ToCardOK
  <2>3. ProcessOK(s, ToPad(t, b)) /\ ProcessOK(s, ToNobody(t))
    BY <1>1, <1>4, <2>0, ToPadOK, ToNobodyOK, Reselected
  <2> QED BY <2>1, <2>2, <2>3
<1>5. CASE s.device = "MEMCARD" /\ s.mc.state # "IDLE"
  <2>1. s.pad.state = "IDLE" /\ sio_process_byte(s, b, io) = ToCard(s, b, io)
    BY <1>5 DEF PortOK, DevicesOK, sio_process_byte
  <2> QED BY <2>1, ToCardOK
<1> QED BY <1>0, <1>2, <1>3, <1>4, <1>5 DEF SioSet


----------------------------------------------------------------------------
(* Time. *)

\* The constants a countdown starts from.
LEMMA Delays == Baud \in Int /\ AckDelay \in Int /\ MaxTransitions \in Int
<1>1. Baud \in Nat \ {0} /\ AckDelay \in Nat \ {0} /\ MaxTransitions \in Nat \ {0}
  BY SioAssumption
<1> QED BY <1>1

\* An empty bus is one.
LEMMA QuietType == Quiet \in BusSet
BY DEF Quiet, BusSet

\* A new state of the bus, of STAT and of the fields that only pace the port.
LEMMA Repaced ==
    ASSUME NEW s \in SioSet, NEW bus \in BusSet, NEW stat \in SUBSET {"TX_RDY", "TX_EMPTY", "ACK", "IRQ"},
           NEW visible \in Int,
           NEW r, r = [s EXCEPT !.bus = bus, !.visible = visible, !.stat = stat]
    PROVE  r \in SioSet /\ SameCore(s, r) /\ r.ctrl = s.ctrl /\ r.bus = bus
BY DEF SioSet, SameCore

\* The shifter has sent its byte: the byte is heard and the next one moves up.
LEMMA ShiftCompleteOK ==
    ASSUME NEW s, NEW io \in Ios, PortOK(s), Shifting(s)
    PROVE  StepOK(s, ShiftComplete(s, io))
<1>1. s.bus \in BusSet /\ s.bus.shift \in Byte
  BY DEF PortOK, SioSet, BusSet, Shifting
<1> DEFINE t == sio_process_byte(s, s.bus.shift, io)
           more == s.bus.buf # NoByte
           acked == "ACK" \in t.stat
           B == [shift |-> s.bus.buf, left |-> IF more THEN Baud ELSE 0,
                 shift_en |-> IF more THEN s.bus.buf_en ELSE s.bus.shift_en,
                 buf |-> NoByte, buf_en |-> s.bus.buf_en /\ ~more,
                 ack |-> s.bus.ack \/ acked,
                 ack_left |-> IF acked THEN AckDelay ELSE s.bus.ack_left,
                 ack_en |-> IF acked THEN s.bus.shift_en ELSE s.bus.ack_en]
           st == Ready(t.stat \ {"ACK"})
           r == ShiftComplete(s, io)
<1>2. StepOK(s, t)
  BY <1>1, ProcessByteOK DEF ProcessOK
<1>3. t \in SioSet
  BY <1>2 DEF StepOK, PortOK
<1>4. r = [t EXCEPT !.bus = B, !.visible = t.visible, !.stat = st]
  BY <1>3 DEF ShiftComplete, SioSet
<1> HIDE DEF t, r
<1>5. st \in SUBSET {"TX_RDY", "TX_EMPTY", "ACK", "IRQ"} /\ t.visible \in Int
  BY <1>3 DEF SioSet, Ready
<1>6. B \in BusSet
  <2> HIDE DEF more, acked
  <2>1. /\ s.bus.buf \in Byte \cup {NoByte} /\ s.bus.buf_en \in BOOLEAN /\ s.bus.shift_en \in BOOLEAN
        /\ s.bus.ack \in BOOLEAN /\ s.bus.ack_left \in Int /\ s.bus.ack_en \in BOOLEAN
    BY <1>1 DEF BusSet
  <2>2. (IF more THEN Baud ELSE 0) \in Int /\ (IF acked THEN AckDelay ELSE s.bus.ack_left) \in Int
    BY <2>1, Delays
  <2>3. /\ (IF more THEN s.bus.buf_en ELSE s.bus.shift_en) \in BOOLEAN
        /\ (s.bus.buf_en /\ ~more) \in BOOLEAN /\ (s.bus.ack \/ acked) \in BOOLEAN
        /\ (IF acked THEN s.bus.shift_en ELSE s.bus.ack_en) \in BOOLEAN
    BY <2>1, Zenon
  <2>4. NoByte \in Byte \cup {NoByte}
    OBVIOUS
  <2> QED BY <2>1, <2>2, <2>3, <2>4, Zenon DEF BusSet
<1> HIDE DEF B, st
<1>7. r \in SioSet /\ SameCore(t, r)
  BY <1>3, <1>4, <1>5, <1>6, Repaced
<1> QED BY <1>2, <1>7, StepThenSame DEF r

\* Cycles pass on the countdowns.
LEMMA PassedOK ==
    ASSUME NEW s, PortOK(s), NEW n \in Int
    PROVE  PortOK(Passed(s, n)) /\ SameCore(s, Passed(s, n)) /\ (Shifting(Passed(s, n)) <=> Shifting(s))
<1> DEFINE left == IF Shifting(s) THEN s.bus.left - n ELSE s.bus.left
           ack_left == IF s.bus.ack THEN s.bus.ack_left - n ELSE s.bus.ack_left
           B == [s.bus EXCEPT !.left = left, !.ack_left = ack_left]
           r == Passed(s, n)
<1>0. s \in SioSet /\ s.bus \in BusSet
  BY DEF PortOK, SioSet
<1>1. B \in BusSet /\ B.shift = s.bus.shift
  <2>1. left \in Int /\ ack_left \in Int
    BY <1>0 DEF BusSet
  <2> HIDE DEF left, ack_left
  <2> QED BY <1>0, <2>1 DEF BusSet
<1>2. r = [s EXCEPT !.bus = B]
  BY <1>0 DEF Passed, SioSet, BusSet
<1> HIDE DEF B, r
<1>4. r \in SioSet /\ SameCore(s, r) /\ r.bus = B
  BY <1>0, <1>1, <1>2 DEF SioSet, SameCore
<1>5. PortOK(r)
  BY <1>4, SameCoreOK DEF StepOK
<1> QED BY <1>1, <1>4, <1>5 DEF r, Shifting

\* The acknowledge interrupt.
LEMMA AckOK ==
    ASSUME NEW s, PortOK(s)
    PROVE  StepOK(s, sio_fire_ack_irq(s))
<1> DEFINE B == [s.bus EXCEPT !.ack = FALSE, !.ack_en = FALSE]
           en == s.bus.ack_en \/ "ACK_IRQ_EN" \in s.ctrl
           st == s.stat \cup {"ACK"} \cup (IF en THEN {"IRQ"} ELSE {})
           r == sio_fire_ack_irq(s)
<1>0. s \in SioSet /\ s.bus \in BusSet
  BY DEF PortOK, SioSet
<1>1. B \in BusSet
  BY <1>0 DEF BusSet
<1>2. st \in SUBSET {"TX_RDY", "TX_EMPTY", "ACK", "IRQ"}
  BY <1>0 DEF SioSet
<1>3. r = [s EXCEPT !.bus = B, !.visible = 2, !.stat = st]
  BY <1>0 DEF sio_fire_ack_irq, SioSet, BusSet
<1> HIDE DEF B, st, r
<1>4. r \in SioSet /\ SameCore(s, r)
  <2>1. PICK w \in Int : w = 2
    OBVIOUS
  <2>2. r = [s EXCEPT !.bus = B, !.visible = w, !.stat = st]
    BY <1>3, <2>1
  <2> QED BY <1>0, <1>1, <1>2, <2>2, Repaced
<1> QED BY <1>4, SameCoreOK DEF r

\* One round of the loop of sio_advance: a byte is handled only if there is one.
LEMMA HandledOK ==
    ASSUME NEW s, PortOK(s), NEW n \in Int, NEW io \in Ios
    PROVE  StepOK(s, Handled(s, NextEvent(s, n), io)) /\ NextEvent(s, n).after \in Int
<1> DEFINE e == NextEvent(s, n)
           t == Passed(s, e.after)
<1>1. s.bus.left \in Int /\ s.bus.ack_left \in Int
  BY DEF PortOK, SioSet, BusSet
<1>2. e.after \in Int /\ (e.what = "shift" => Shifting(s))
  BY <1>1 DEF NextEvent
<1> HIDE DEF e
<1>3. PortOK(t) /\ SameCore(s, t) /\ (Shifting(t) <=> Shifting(s))
  BY <1>2, PassedOK
<1>4. t \in SioSet
  BY <1>3 DEF PortOK
<1>5. Handled(s, e, io) = CASE e.what = "shift" -> ShiftComplete(t, io)
                            [] e.what = "ack" -> sio_fire_ack_irq(t)
                            [] OTHER -> t
  BY DEF Handled
<1> HIDE DEF t
<1>6. CASE e.what = "shift"
  <2>1. StepOK(t, ShiftComplete(t, io))
    BY <1>2, <1>3, <1>6, ShiftCompleteOK
  <2> QED BY <1>2, <1>3, <1>5, <1>6, <2>1, SameThenStep DEF e
<1>7. CASE e.what = "ack"
  <2>1. StepOK(t, sio_fire_ack_irq(t))
    BY <1>3, AckOK
  <2>2. StepOK(s, sio_fire_ack_irq(t))
    BY <1>3, <2>1, SameThenStep
  <2>3. Handled(s, e, io) = sio_fire_ack_irq(t)
    BY <1>5, <1>7
  <2> QED BY <1>2, <2>2, <2>3 DEF e
<1>8. CASE e.what # "shift" /\ e.what # "ack"
  <2>1. StepOK(s, t)
    BY <1>3, <1>4, SameCoreOK
  <2>2. Handled(s, e, io) = t
    BY <1>5, <1>8
  <2> QED BY <1>2, <2>1, <2>2 DEF e
<1> QED BY <1>6, <1>7, <1>8

----------------------------------------------------------------------------
(* The registers. *)

\* A byte for a pad is exchanged at once.
LEMMA PadWriteOK ==
    ASSUME NEW s, NEW b \in Byte, NEW io \in Ios, PortOK(s)
    PROVE  StepOK(s, PadWrite(s, b, io))
<1> DEFINE u == [s EXCEPT !.bus = Quiet, !.owner = "PAD", !.first = FALSE]
           t == sio_process_byte(u, b, io)
           B == [Quiet EXCEPT !.ack = TRUE, !.ack_en = TRUE, !.ack_left = Baud + AckDelay]
           r == PadWrite(s, b, io)
<1>1. u \in SioSet /\ SameCore(s, u)
  BY QuietType DEF PortOK, SioSet, SameCore
<1>2. r = IF "ACK" \in t.stat /\ "ACK_IRQ_EN" \in t.ctrl
          THEN [t EXCEPT !.stat = @ \ {"ACK", "TX_RDY", "TX_EMPTY"}, !.bus = B]
          ELSE [t EXCEPT !.stat = Ready(@)]
  BY DEF PadWrite
<1> HIDE DEF u
<1>3. PortOK(u)
  BY <1>1, SameCoreOK DEF StepOK
<1>4. StepOK(u, t)
  BY <1>3, ProcessByteOK DEF ProcessOK
<1>5. StepOK(s, t) /\ t \in SioSet
  BY <1>1, <1>4, SameThenStep DEF StepOK, PortOK
<1>6. B \in BusSet
  <2>1. Baud + AckDelay \in Int
    BY Delays
  <2> DEFINE d == Baud + AckDelay
  <2> HIDE DEF d
  <2>2. [Quiet EXCEPT !.ack = TRUE, !.ack_en = TRUE, !.ack_left = d] \in BusSet
    BY <2>1, QuietType DEF BusSet, d
  <2> QED BY <2>2 DEF d
<1> HIDE DEF t, B, r
<1>7. r \in SioSet /\ SameCore(t, r)
  BY <1>2, <1>5, <1>6 DEF SioSet, SameCore, Ready
<1> QED BY <1>5, <1>7, StepThenSame DEF r

\* A byte for a card is shifted, buffered or dropped; it is heard later.
LEMMA PacedWriteOK ==
    ASSUME NEW s, NEW b \in Byte, PortOK(s)
    PROVE  StepOK(s, PacedWrite(s, b))
<1> DEFINE en == "ACK_IRQ_EN" \in s.ctrl
           ow == CASE ~s.first -> s.owner
                   [] s.first /\ b = CardSelect -> "CARD"
                   [] s.first /\ b = PadSelect -> "PAD"
                   [] OTHER -> "UNKNOWN"
           t == [s EXCEPT !.first = FALSE, !.owner = ow]
           B1 == [s.bus EXCEPT !.shift = b, !.left = Baud, !.shift_en = en]
           B2 == [s.bus EXCEPT !.buf = b, !.buf_en = en]
           r == PacedWrite(s, b)
<1>0. s \in SioSet /\ s.bus \in BusSet
  BY DEF PortOK, SioSet
<1>1. t \in SioSet /\ SameCore(s, t) /\ t.bus = s.bus /\ t.stat = s.stat
  <2>1. ow \in {"NONE", "PAD", "CARD", "UNKNOWN"}
    BY <1>0 DEF SioSet
  <2> HIDE DEF ow
  <2> QED BY <1>0, <2>1 DEF SioSet, SameCore
<1>2. r = CASE ~Shifting(s) -> [t EXCEPT !.bus = B1, !.stat = @ \ {"TX_RDY", "TX_EMPTY"}]
            [] Shifting(s) /\ s.bus.buf = NoByte -> [t EXCEPT !.bus = B2, !.stat = @ \ {"TX_EMPTY"}]
            [] OTHER -> t
  <2>1. /\ [t EXCEPT !.bus.shift = b, !.bus.left = Baud, !.bus.shift_en = en,
                     !.stat = @ \ {"TX_RDY", "TX_EMPTY"}]
             = [t EXCEPT !.bus = B1, !.stat = @ \ {"TX_RDY", "TX_EMPTY"}]
        /\ [t EXCEPT !.bus.buf = b, !.bus.buf_en = en, !.stat = @ \ {"TX_EMPTY"}]
             = [t EXCEPT !.bus = B2, !.stat = @ \ {"TX_EMPTY"}]
    <3> HIDE DEF t, en
    <3> QED BY <1>0, <1>1 DEF SioSet, BusSet
  <2> QED BY <2>1 DEF PacedWrite
<1>3. B1 \in BusSet /\ B2 \in BusSet
  <2>1. en \in BOOLEAN
    OBVIOUS
  <2> HIDE DEF en
  <2> QED BY <1>0, <2>1, Delays DEF BusSet
<1> HIDE DEF t, B1, B2, r
<1>4. r \in SioSet /\ SameCore(t, r)
  BY <1>1, <1>2, <1>3 DEF SioSet, SameCore
<1>5. SameCore(s, r)
  BY <1>1, <1>4 DEF SameCore
<1> QED BY <1>4, <1>5, SameCoreOK DEF r

\* sio_write to TX.
LEMMA TransmittedOK ==
    ASSUME NEW s, NEW b \in Byte, NEW io \in Ios, PortOK(s)
    PROVE  StepOK(s, Transmitted(s, b, io))
BY PadWriteOK, PacedWriteOK DEF Transmitted

\* The steps of a CTRL write keep the invariant, the sectors and the type.
CtlOK(s, r) == PortOK(r) /\ Kept(s, r)

\* Every device back to the start, with whatever the port says of it.
LEMMA StartedOver ==
    ASSUME NEW s, PortOK(s), NEW r \in SioSet, Kept(s, r),
           r.device = "NONE", r.mc.state = "IDLE", r.pad = PadIdle,
           \A k \in Slots : r.slots[k].state = "IDLE"
    PROVE  CtlOK(s, r)
BY DEF CtlOK, PortOK, DevicesOK, TxnOK, Kept, PadIdle

\* A fresh or interrupted card, idle, is of the type.
LEMMA IdleCards ==
    ASSUME NEW m \in McSet, NEW f \in BOOLEAN
    PROVE  /\ [m EXCEPT !.state = "IDLE"] \in McSet
           /\ [McReset(m) EXCEPT !.fresh = f] \in McSet /\ [McReset(m) EXCEPT !.fresh = f].state = "IDLE"
           /\ McFresh \in McSet
<1>1. <<>> \in Seq(Byte) /\ 0 \in Byte
  BY DEF Byte
<1>2. McFresh \in McSet /\ McFresh.state = "IDLE"
  BY <1>1 DEF McFresh, McSet, McStates
<1>3. McReset(m) \in McSet /\ McReset(m).state = "IDLE"
  BY <1>2 DEF McReset, McSet
<1> QED BY <1>2, <1>3 DEF McSet, McStates

\* An idle pad is of the type.
LEMMA IdlePad == PadIdle \in PadSet
BY DEF PadIdle, PadSet, Byte

\* CTRL.ACK.
LEMMA AcknowledgedOK ==
    ASSUME NEW s, PortOK(s), NEW v \in SUBSET ControlBits
    PROVE  CtlOK(s, Acknowledged(s, v))
<1> DEFINE w == 0
           r == [s EXCEPT !.stat = @ \ {"IRQ", "ACK"}, !.visible = w]
<1>1. r \in SioSet /\ SameCore(s, r)
  <2>1. w \in Int
    OBVIOUS
  <2> HIDE DEF w
  <2> QED BY <2>1 DEF PortOK, SioSet, SameCore
<1> HIDE DEF r
<1>2. PortOK(r) /\ Kept(s, r)
  BY <1>1, SameCoreOK DEF StepOK, SameCore, Kept
<1>3. Kept(s, s)
  BY DEF Kept
<1> QED BY <1>2, <1>3 DEF CtlOK, Acknowledged, r

\* CTRL.RESET.
LEMMA ResetOK ==
    ASSUME NEW s, PortOK(s), NEW v \in SUBSET ControlBits
    PROVE  CtlOK(s, Reset(s, v))
<1> DEFINE m == [s.mc EXCEPT !.state = "IDLE"]
           sl == [k \in Slots |-> [s.slots[k] EXCEPT !.state = "IDLE"]]
           w == 0
           r == Reset(s, v)
<1>0. s \in SioSet /\ s.mc \in McSet /\ \A k \in Slots : s.slots[k] \in McSet
  BY DEF PortOK, SioSet
<1>1. CASE "RESET" \in v
  <2>1. m \in McSet /\ m.state = "IDLE"
    BY <1>0 DEF McSet, McStates
  <2>2. sl \in [Slots -> McSet] /\ \A k \in Slots : sl[k].state = "IDLE"
    BY <1>0 DEF McSet, McStates
  <2>3. r = [s EXCEPT !.stat = {"TX_RDY", "TX_EMPTY"}, !.ctrl = {}, !.pad = PadIdle,
                      !.mc = m, !.device = "NONE", !.visible = w,
                      !.slots = sl, !.bus = Quiet, !.owner = "NONE", !.first = TRUE]
    BY <1>0, <1>1 DEF Reset, SioSet
  <2>0. w \in Int
    OBVIOUS
  <2> HIDE DEF m, sl, r, w
  <2>4. r \in SioSet /\ r.device = "NONE" /\ r.mc = m /\ r.pad = PadIdle /\ r.slots = sl /\ Kept(s, r)
    BY <1>0, <2>0, <2>1, <2>2, <2>3, QuietType, IdlePad DEF SioSet, Kept
  <2> QED BY <2>1, <2>2, <2>4, StartedOver DEF r
<1>2. CASE "RESET" \notin v
  BY <1>2 DEF Reset, CtlOK, Kept
<1> QED BY <1>1, <1>2

\* SELECT rises.
LEMMA AssertedOK ==
    ASSUME NEW s, PortOK(s), NEW old, NEW v \in SUBSET ControlBits
    PROVE  CtlOK(s, Asserted(s, old, v))
<1> DEFINE r == [s EXCEPT !.owner = "NONE", !.first = TRUE]
<1>1. r \in SioSet /\ SameCore(s, r)
  BY DEF PortOK, SioSet, SameCore
<1> HIDE DEF r
<1>2. PortOK(r) /\ Kept(s, r)
  BY <1>1, SameCoreOK DEF StepOK, SameCore, Kept
<1>3. Kept(s, s)
  BY DEF Kept
<1> QED BY <1>2, <1>3 DEF CtlOK, Asserted, r

\* TX_EN falls: the byte on the wire is lost, the devices keep their state.
LEMMA DisabledOK ==
    ASSUME NEW s, PortOK(s), NEW old, NEW v \in SUBSET ControlBits
    PROVE  CtlOK(s, Disabled(s, old, v))
<1> DEFINE ow == IF "SELECT" \in v THEN s.owner ELSE "NONE"
           fi == s.first \/ "SELECT" \notin v
           st == Ready(s.stat)
           r == [s EXCEPT !.bus = Quiet, !.stat = st, !.owner = ow, !.first = fi]
<1>0. s \in SioSet
  BY DEF PortOK
<1>1. r \in SioSet /\ SameCore(s, r)
  <2>1. /\ ow \in {"NONE", "PAD", "CARD", "UNKNOWN"} /\ fi \in BOOLEAN
        /\ st \in SUBSET {"TX_RDY", "TX_EMPTY", "ACK", "IRQ"}
    BY <1>0 DEF SioSet, Ready
  <2> HIDE DEF ow, fi, st
  <2> QED BY <1>0, <2>1, QuietType DEF SioSet, SameCore
<1>2. Disabled(s, old, v) \in {s, r}
  BY DEF Disabled
<1> HIDE DEF r
<1>3. PortOK(r) /\ Kept(s, r)
  BY <1>1, SameCoreOK DEF StepOK, SameCore, Kept
<1>4. Kept(s, s)
  BY DEF Kept
<1> QED BY <1>2, <1>3, <1>4 DEF CtlOK

\* SELECT falls: every device starts over.
LEMMA DeassertedOK ==
    ASSUME NEW s, PortOK(s), NEW old, NEW v \in SUBSET ControlBits
    PROVE  CtlOK(s, Deasserted(s, old, v))
<1> DEFINE flag(k) == IF s.device = "MEMCARD" /\ k = s.mc_slot THEN s.mc.fresh ELSE s.slots[k].fresh
           m == [s.mc EXCEPT !.state = "IDLE"]
           sl == [k \in Slots |-> [McReset(s.slots[k]) EXCEPT !.fresh = flag(k)]]
           st == Ready(s.stat)
           r == Deasserted(s, old, v)
<1>0. s \in SioSet /\ s.mc \in McSet /\ \A k \in Slots : s.slots[k] \in McSet
  BY DEF PortOK, SioSet
<1>1. CASE "SELECT" \in old \ v
  <2>1. m \in McSet /\ m.state = "IDLE"
    BY <1>0 DEF McSet, McStates
  <2>2. sl \in [Slots -> McSet] /\ \A k \in Slots : sl[k].state = "IDLE"
    <3>1. \A k \in Slots : flag(k) \in BOOLEAN
      <4>1. s.mc.fresh \in BOOLEAN /\ \A k \in Slots : s.slots[k].fresh \in BOOLEAN
        BY <1>0 DEF McSet
      <4> QED BY <4>1, Zenon
    <3> HIDE DEF flag
    <3>2. \A k \in Slots : /\ [McReset(s.slots[k]) EXCEPT !.fresh = flag(k)] \in McSet
                           /\ [McReset(s.slots[k]) EXCEPT !.fresh = flag(k)].state = "IDLE"
      <4> TAKE k \in Slots
      <4>1. s.slots[k] \in McSet /\ flag(k) \in BOOLEAN
        BY <1>0, <3>1
      <4> QED BY <4>1, IdleCards, Zenon
    <3> QED BY <3>2
  <2>3. st \in SUBSET {"TX_RDY", "TX_EMPTY", "ACK", "IRQ"}
    BY <1>0 DEF SioSet, Ready
  <2>4. r = [s EXCEPT !.slots = sl, !.mc = m, !.pad = PadIdle, !.device = "NONE",
                      !.bus = Quiet, !.owner = "NONE", !.first = TRUE, !.stat = st]
    BY <1>0, <1>1 DEF Deasserted, SioSet
  <2> HIDE DEF m, sl, r, st
  <2>5. r \in SioSet /\ r.device = "NONE" /\ r.mc = m /\ r.pad = PadIdle /\ r.slots = sl /\ Kept(s, r)
    BY <1>0, <2>1, <2>2, <2>3, <2>4, QuietType, IdlePad DEF SioSet, Kept
  <2> QED BY <2>1, <2>2, <2>5, StartedOver DEF r
<1>2. CASE "SELECT" \notin old \ v
  BY <1>2 DEF Deasserted, CtlOK, Kept
<1> QED BY <1>1, <1>2

\* sio_write to CTRL.
LEMMA ControlledOK ==
    ASSUME NEW s, PortOK(s), NEW v \in SUBSET ControlBits
    PROVE  StepOK(s, Controlled(s, v))
<1> DEFINE old == s.ctrl
           t0 == [s EXCEPT !.ctrl = v \ {"ACK", "RESET"}]
           ta == Acknowledged(t0, v)
           t1 == Reset(ta, v)
           t2 == Asserted(t1, old, v)
           t3 == Disabled(t2, old, v)
           r == Deasserted(t3, old, v)
<1>1. t0 \in SioSet /\ SameCore(s, t0)
  BY DEF PortOK, SioSet, SameCore
<1>2. Controlled(s, v) = r
  BY DEF Controlled
<1> HIDE DEF t0
<1>3. PortOK(t0) /\ Kept(s, t0)
  BY <1>1, SameCoreOK DEF StepOK, SameCore, Kept
<1>4. PortOK(ta) /\ Kept(t0, ta)
  BY <1>3, AcknowledgedOK DEF CtlOK
<1> HIDE DEF ta
<1>5. PortOK(t1) /\ Kept(ta, t1)
  BY <1>4, ResetOK DEF CtlOK
<1> HIDE DEF t1
<1>6. PortOK(t2) /\ Kept(t1, t2)
  BY <1>5, AssertedOK DEF CtlOK
<1> HIDE DEF t2
<1>7. PortOK(t3) /\ Kept(t2, t3)
  BY <1>6, DisabledOK DEF CtlOK
<1> HIDE DEF t3
<1>8. PortOK(r) /\ Kept(t3, r)
  BY <1>7, DeassertedOK DEF CtlOK
<1> HIDE DEF r
<1>9. Kept(s, r)
  BY <1>3, <1>4, <1>5, <1>6, <1>7, <1>8 DEF Kept
<1> QED BY <1>2, <1>8, <1>9, KeptOK

----------------------------------------------------------------------------
(* The steps of the specification. *)

SioInv ==
    /\ PortOK(sio)
    /\ todo \in [cycles : Int, transitions : Int]
    /\ driver \in Drivers
    /\ rest \in Seq(Byte)

\* The port after a start with good cards.
LEMMA StartOK ==
    ASSUME NEW cards \in [Slots -> CardSet], \A k \in Slots : CardOK(cards[k])
    PROVE  /\ PortOK(sio_init(cards)) /\ sio_init(cards).txn.n = 0
           /\ sio_init(cards).pad.state = "IDLE" /\ \A k \in Slots : ~sio_init(cards).in_config[k]
<1> DEFINE r == sio_init(cards)
           z == 0
           no == [k \in Slots |-> FALSE]
           rq == [k \in Slots |-> NoRequest]
           sl == [k \in Slots |-> McFresh]
<1>1. McFresh \in McSet /\ McFresh.state = "IDLE"
  <2>1. <<>> \in Seq(Byte) /\ 0 \in Byte
    BY DEF Byte
  <2> QED BY <2>1 DEF McFresh, McSet, McStates
<1>2. NoTxn \in TxnSet /\ NoTxn.n = 0
  <2>1. <<>> \in Seq(Byte) /\ 0 \in Byte /\ 0 \in Slots
    BY DEF Byte, Slots
  <2> QED BY <2>1 DEF NoTxn, TxnSet
<1>3. /\ no \in [Slots -> BOOLEAN] /\ rq \in [Slots -> {NoRequest, 0, 1}] /\ sl \in [Slots -> McSet]
      /\ z \in Slots /\ z \in Int
  BY <1>1 DEF Slots
<1>4. r = [stat |-> {"TX_RDY", "TX_EMPTY"}, ctrl |-> {}, visible |-> z,
           device |-> "NONE", selected |-> z, owner |-> "NONE", first |-> TRUE,
           pad |-> PadIdle, in_config |-> no, analog |-> no, type_req |-> rq, locked |-> no,
           mc |-> McFresh, mc_slot |-> z, slots |-> sl,
           cards |-> cards, bus |-> Quiet, txn |-> NoTxn]
  BY DEF sio_init
<1>5. sl = [k \in Slots |-> McFresh] /\ no = [k \in Slots |-> FALSE]
  OBVIOUS
<1> HIDE DEF r, z, no, rq, sl
<1>6. r \in SioSet
  BY <1>1, <1>2, <1>3, <1>4, IdlePad, QuietType DEF SioSet
<1>7. /\ r.device = "NONE" /\ r.mc = McFresh /\ r.pad = PadIdle /\ r.slots = sl
      /\ r.cards = cards /\ r.txn = NoTxn /\ r.in_config = no
  BY <1>4
<1>8. PadIdle.state = "IDLE" /\ (\A k \in Slots : sl[k].state = "IDLE") /\ \A k \in Slots : ~no[k]
  BY <1>1, <1>5 DEF PadIdle
<1>9. PortOK(r)
  BY <1>1, <1>6, <1>7, <1>8 DEF PortOK, DevicesOK, TxnOK
<1> QED BY <1>2, <1>7, <1>8, <1>9 DEF r

\* memcard_flush and memcard_init: what was saved is what is loaded.
LEMMA ReloadOK ==
    ASSUME NEW c \in CardSet, CardOK(c), NEW io \in Ios
    PROVE  Loaded(Flushed(c, io)) \in CardSet /\ CardOK(Loaded(Flushed(c, io)))
<1> DEFINE f == Flushed(c, io)
<1>1. f \in CardSet
  BY DEF Flushed, CardSet
<1> HIDE DEF f
<1>2. Loaded(f) \in CardSet /\ CardOK(Loaded(f))
  BY <1>1 DEF Loaded, CardSet, CardOK
<1> QED BY <1>2 DEF f

\* The first state.
LEMMA InitOK == Init => SioInv
<1> SUFFICES ASSUME Init PROVE SioInv
  OBVIOUS
<1>1. Formatted \in CardSet /\ CardOK(Formatted)
  <2>1. Blank \in Image
    <3>1. \A i \in 1 .. SectorBytes : 0 \in Byte
      BY DEF Byte
    <3>2. [i \in 1 .. SectorBytes |-> 0] \in Seq(Byte)
      BY <3>1, SectorSize
    <3> QED BY <3>2 DEF Blank, Image
  <2> QED BY <2>1 DEF Formatted, CardSet, CardOK
<1>2. [k \in Slots |-> Formatted] \in [Slots -> CardSet]
  BY <1>1
<1>3. PortOK(sio)
  <2> DEFINE cs == [k \in Slots |-> Formatted]
  <2>1. cs \in [Slots -> CardSet] /\ \A k \in Slots : CardOK(cs[k])
    BY <1>1, <1>2
  <2>2. sio = sio_init(cs)
    BY DEF Init
  <2> HIDE DEF cs
  <2> QED BY <2>1, <2>2, StartOK
<1>4. todo \in [cycles : Int, transitions : Int] /\ driver \in Drivers /\ rest \in Seq(Byte)
  BY DEF Init, Idle
<1> QED BY <1>3, <1>4 DEF SioInv

\* The one step that is not a step of the port: the program ends and starts again.
Restarted == sio'.txn.n = 0 /\ sio'.pad.state = "IDLE" /\ \A k \in Slots : ~sio'.in_config[k]

\* A step of sio_advance.
LEMMA TransitionOK ==
    ASSUME SioInv, NEW n \in Int, NEW transitions \in Int, Transition(n, transitions)
    PROVE  SioInv' /\ StepOK(sio, sio')
<1> DEFINE e == NextEvent(sio, n)
<1>1. PICK io \in Outcomes : sio' = Handled(sio, e, io)
  BY DEF Transition
<1>2. io \in Ios
  BY DEF Outcomes, Ios
<1>3. StepOK(sio, sio') /\ e.after \in Int
  BY <1>1, <1>2, HandledOK DEF SioInv
<1>4. todo' \in [cycles : Int, transitions : Int]
  <2>1. todo' = Idle \/ todo' = [cycles |-> n - e.after, transitions |-> transitions - 1]
    BY DEF Transition
  <2> HIDE DEF e
  <2> QED BY <1>3, <2>1 DEF Idle
<1>5. driver' = driver /\ rest' = rest
  BY DEF Transition
<1>6. PortOK(sio)'
  BY <1>3 DEF StepOK
<1> QED BY <1>3, <1>4, <1>5, <1>6 DEF SioInv

\* Every step keeps the invariant and is a step of the port or a restart.
LEMMA NextOK ==
    ASSUME SioInv, [Next]_vars
    PROVE  SioInv' /\ (StepOK(sio, sio') \/ Restarted)
<1>0. PortOK(sio) /\ sio \in SioSet /\ driver \in Drivers /\ rest \in Seq(Byte)
  BY DEF SioInv, PortOK
<1>1. ASSUME NEW n \in Chunks, sio_advance(n) PROVE SioInv' /\ StepOK(sio, sio')
  <2>1. Chunks \subseteq Nat \ {0}
    BY SioAssumption
  <2>2. n \in Int /\ MaxTransitions \in Int
    BY <2>1, Delays
  <2> QED BY <1>1, <2>2, TransitionOK DEF sio_advance
<1>2. CASE sio_advance_on
  <2>1. todo.cycles \in Int /\ todo.transitions \in Int
    BY DEF SioInv
  <2> QED BY <1>2, <2>1, TransitionOK DEF sio_advance_on
<1>3. CASE write_tx
  <2>1. PICK bytes \in IF rest # <<>> THEN {rest} ELSE driver.sends, io \in Outcomes :
           sio' = Transmitted(sio, Head(bytes), io) /\ rest' = Tail(bytes)
    BY <1>3 DEF write_tx
  <2>2. driver.sends \subseteq Seq(Byte) \ {<<>>}
    BY <1>0, SioAssumption
  <2>3. bytes \in Seq(Byte) /\ bytes # <<>>
    BY <1>0, <2>1, <2>2
  <2>4. Head(bytes) \in Byte /\ Tail(bytes) \in Seq(Byte)
    BY <2>3
  <2>5. io \in Ios
    BY DEF Outcomes, Ios
  <2>6. StepOK(sio, sio')
    BY <1>0, <2>1, <2>4, <2>5, TransmittedOK
  <2>7. PortOK(sio)'
    BY <2>6 DEF StepOK
  <2>8. todo' = todo /\ driver' = driver
    BY <1>3 DEF write_tx
  <2> QED BY <2>1, <2>4, <2>6, <2>7, <2>8 DEF SioInv
<1>4. ASSUME NEW v \in driver.controls, write_ctrl(v) PROVE SioInv' /\ StepOK(sio, sio')
  <2>1. driver.controls \subseteq SUBSET ControlBits
    BY <1>0, SioAssumption
  <2>2. StepOK(sio, sio')
    <3>1. v \in SUBSET ControlBits
      BY <2>1
    <3>2. sio' = Controlled(sio, v)
      BY <1>4 DEF write_ctrl
    <3> QED BY <1>0, <3>1, <3>2, ControlledOK
  <2>3. PortOK(sio)'
    BY <2>2 DEF StepOK
  <2>4. rest' \in Seq(Byte) /\ todo' = todo /\ driver' = driver
    BY <1>0, <1>4 DEF write_ctrl
  <2> QED BY <2>2, <2>3, <2>4 DEF SioInv
<1>5. CASE read_stat
  <2> DEFINE w == sio.visible - 1
             st == IF sio.visible = 1 THEN sio.stat \ {"ACK"} ELSE sio.stat
  <2>1. PICK r : r = [sio EXCEPT !.visible = w, !.stat = st]
    OBVIOUS
  <2>2. sio' = r
    BY <1>5, <2>1 DEF read_stat
  <2>3. w \in Int /\ st \in SUBSET {"TX_RDY", "TX_EMPTY", "ACK", "IRQ"}
    BY <1>0 DEF SioSet
  <2> HIDE DEF w, st
  <2>4. r \in SioSet /\ SameCore(sio, r)
    BY <1>0, <2>1, <2>3 DEF SioSet, SameCore
  <2>5. StepOK(sio, r)
    BY <1>0, <2>4, SameCoreOK
  <2>6. StepOK(sio, sio') /\ PortOK(sio)'
    BY <2>2, <2>5 DEF StepOK
  <2> QED BY <1>5, <2>6 DEF SioInv, read_stat
<1>6. ASSUME NEW k \in Connected, NEW want \in {0, 1}, sio_request_pad_type(k, want)
      PROVE  SioInv' /\ StepOK(sio, sio')
  <2> DEFINE q == IF sio.analog[k] = (want = 1) THEN NoRequest ELSE want
  <2>1. PICK r : r = [sio EXCEPT !.type_req[k] = q]
    OBVIOUS
  <2>2. sio' = r
    BY <1>6, <2>1 DEF sio_request_pad_type
  <2>3. q \in {NoRequest, 0, 1}
    OBVIOUS
  <2> HIDE DEF q
  <2>4. r \in SioSet /\ SameCore(sio, r)
    BY <1>0, <2>1, <2>3 DEF SioSet, SameCore
  <2>5. StepOK(sio, r)
    BY <1>0, <2>4, SameCoreOK
  <2>6. StepOK(sio, sio') /\ PortOK(sio)'
    BY <2>2, <2>5 DEF StepOK
  <2> QED BY <1>6, <2>6 DEF SioInv, sio_request_pad_type
<1>7. CASE Restart
  <2>1. PICK io \in Ios : sio' = sio_init([k \in Slots |-> Loaded(Flushed(sio.cards[k], io))])
    BY <1>7 DEF Restart, Ios
  <2>2. PICK cs : cs = [k \in Slots |-> Loaded(Flushed(sio.cards[k], io))]
    OBVIOUS
  <2>3. \A k \in Slots : sio.cards[k] \in CardSet /\ CardOK(sio.cards[k])
    BY <1>0 DEF PortOK, SioSet
  <2>4. cs \in [Slots -> CardSet] /\ \A k \in Slots : CardOK(cs[k])
    BY <2>2, <2>3, ReloadOK
  <2>5. sio' = sio_init(cs)
    BY <2>1, <2>2
  <2>6. PortOK(sio)' /\ Restarted
    BY <2>4, <2>5, StartOK DEF Restarted
  <2>7. rest' = <<>> /\ todo' = todo /\ driver' = driver
    BY <1>7 DEF Restart
  <2> QED BY <2>6, <2>7 DEF SioInv
<1>8. CASE UNCHANGED vars
  <2>1. sio' = sio /\ todo' = todo /\ driver' = driver /\ rest' = rest
    BY <1>8 DEF vars
  <2>2. SameCore(sio, sio)
    BY DEF SameCore
  <2>3. StepOK(sio, sio)
    BY <1>0, <2>2, SameCoreOK
  <2> QED BY <1>0, <2>1, <2>3 DEF SioInv
<1> QED BY <1>1, <1>2, <1>3, <1>4, <1>5, <1>6, <1>7, <1>8 DEF Next

\* Every state of the port is of its types, and the invariant holds.
LEMMA InvOK == Spec => []SioInv
<1>1. SioInv /\ [Next]_vars => SioInv'
  BY NextOK
<1> QED BY InitOK, <1>1, PTL DEF Spec

----------------------------------------------------------------------------
(* The theorems. *)

\* sio_write and sio_process_byte, for every guest: while no device is active
\* no card transaction is open, and none is ever left put aside for a pad.
THEOREM SioFreshSelect == Spec => []FreshSelect
<1>1. SioInv => FreshSelect
  BY DEF SioInv, PortOK, DevicesOK, FreshSelect
<1> QED BY InvOK, <1>1, PTL

\* memcard_write_sector, memcard_flush, memcard_init, for every sequence of
\* writes, failed flushes and restarts: a card that is clean is saved.
THEOREM SioCleanMeansSaved == Spec => []CleanMeansSaved
<1>1. SioInv => CleanMeansSaved
  BY DEF SioInv, PortOK, CardOK, CleanMeansSaved
<1> QED BY InvOK, <1>1, PTL

\* mc_process_byte, for every sector size and every guest: a sector changes
\* only to what one transaction said, at the place that transaction named.
THEOREM SioWriteIsOneTransaction == Spec => WriteIsOneTransaction
<1> DEFINE A == \A k \in Slots :
                  sio'.cards[k].data # sio.cards[k].data /\ sio'.txn.n # 0 =>
                    /\ sio'.txn.n = 7 + SectorBytes /\ sio'.txn.slot = k /\ sio'.txn.cmd = Write
                    /\ sio'.cards[k].data =
                         [sio.cards[k].data EXCEPT ![Sector(sio'.txn)] = sio'.txn.data]
<1>1. SioInv /\ [Next]_vars => [A]_vars
  BY NextOK DEF StepOK, WroteOne, Restarted
<1> QED BY InvOK, <1>1, PTL DEF Spec, WriteIsOneTransaction

\* pad_process_byte and sio_request_pad_type, for every guest: the type of a
\* pad changes inside a poll or a handshake by the game's own set-mode only.
THEOREM SioPadTypeStable == Spec => PadTypeStable
<1> DEFINE A == \A k \in Slots :
                  /\ sio.in_config[k] \/ (sio.device = "PAD" /\ sio.pad.state # "IDLE" /\ k = sio.selected)
                  /\ sio'.in_config[k] \/ sio'.pad.state # "IDLE"
                  /\ sio'.analog[k] # sio.analog[k]
                  => sio.pad.cmd = SetMode /\ sio.in_config[k]
<1>1. SioInv /\ [Next]_vars => [A]_vars
  BY NextOK DEF StepOK, TypeKept, Restarted
<1> QED BY InvOK, <1>1, PTL DEF Spec, PadTypeStable
=============================================================================
