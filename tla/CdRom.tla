-------------------------------- MODULE CdRom -------------------------------
(***************************************************************************)
(* The CD-ROM controller of cdrom.c: commands and their two responses, the  *)
(* one-deep command queue, the read stream with its one-deep pended         *)
(* data-ready, CD-DA playback, and the presentation of controller           *)
(* interrupts (INT1 to INT5) to bit 2 of I_STAT; with a guest whose handler *)
(* reads the flag, acknowledges what it read and then clears I_STAT.        *)
(*                                                                         *)
(* The disc is abstract: what the next sector is, how far a seek goes and   *)
(* where a track ends are chances.  Sector data, XA decoding and the        *)
(* contents of responses are left out, and so are the game-specific APv2    *)
(* modes.                                                                   *)
(***************************************************************************)
EXTENDS Integers

CONSTANTS
    PresentDelay,   \* CDROM_IRQ_PRESENT_DELAY
    SectorDelay,    \* sector_delay_cycles
    StartDelay,     \* initial_read_delay_cycles
    AudioDelay,     \* CDROM_SINGLE_SPEED_SECTOR_CYCLES
    ShortDelay,     \* second responses that come soon
    LongDelay,      \* second responses that take a mechanical while
    Charges,        \* the cycles of one cdrom_advance
    Latency,        \* guest: cycles from an interrupt to its handler
    HandlerCycles,  \* guest: cycles from reading the flag to clearing I_STAT
    Sessions        \* guest: commands and their number, masks, disc, DMA; the
                    \* setting PSX_CD_PENDING_TIME_CONTINUES

Commands == {"GetStat", "GetTD", "SetMode", "ReadN", "MotorOn", "Stop", "Pause", "Init",
             "Play", "SeekL", "GetID", "ReadTOC", "unknown"}

\* Commands with a second response.
TwoPhase == {"MotorOn", "Stop", "Pause", "Init", "SeekL", "GetID", "ReadTOC"}

Session == [commands : SUBSET Commands, limit : Nat, masks : SUBSET SUBSET (0 .. 4),
            disc : BOOLEAN, dma : SUBSET BOOLEAN, continues : BOOLEAN]

ASSUME CdRomAssumption ==
    /\ PresentDelay \in Nat \ {0} /\ SectorDelay \in Nat \ {0} /\ StartDelay \in Nat \ {0}
    /\ ShortDelay \in Nat \ {0} /\ LongDelay \in Nat \ {0}
    /\ Charges \subseteq Nat \ {0} /\ 1 \in Charges
    /\ AudioDelay \in Nat /\ \A n \in Charges : n < AudioDelay
    /\ Latency \in Nat /\ HandlerCycles \in Nat /\ HandlerCycles < PresentDelay
    /\ Sessions \subseteq Session

VARIABLES
    cd,       \* the controller, with bit 2 of I_STAT
    guest,    \* where the guest is in its handler
    spent,    \* bound: commands written
    session,  \* one of Sessions
    clock     \* parity of the calls of cdrom_advance

vars == <<cd, guest, spent, session, clock>>

\* An INT number is a bit pattern; the mask and the acknowledgement act on bits.
IntBits == <<{0}, {1}, {0, 1}, {2}, {0, 2}>>

NoPending == [cmd |-> "none", left |-> 0]

Status == {"MOTOR", "SHELL", "SEEK", "READ", "PLAY"}

\* The globals of cdrom.c, with bit 2 of I_STAT: of is what the response answers,
\* wait is cdrom_irq_present_delay, readIn and playIn are read_delay and
\* cdda_delay, pended is pending_dataready, end is cdda_data_end_pending.
Cd == [irq : SUBSET (0 .. 2), enable : SUBSET (0 .. 4), latched : BOOLEAN,
       wait : 0 .. PresentDelay, istat : BOOLEAN, of : Commands \cup {"none", "data", "end"},
       stat : SUBSET Status, reading : BOOLEAN, readIn : Nat, pended : BOOLEAN,
       pendedStat : SUBSET Status, pending : [cmd : TwoPhase \cup {"none"}, left : Nat],
       queued : Commands \cup {"none"}, playing : BOOLEAN, playIn : Nat, end : BOOLEAN,
       autopause : BOOLEAN, dma : BOOLEAN, disc : BOOLEAN, continues : BOOLEAN]

\* What the disc and the drive do next.
Chance == [xa : BOOLEAN, far : BOOLEAN, audio : BOOLEAN, ends : BOOLEAN]

\* Mutant of Minus: no clamp at zero.
MinusRaw(x, y) == x - y

\* A countdown.
Minus(x, y) == IF x > y THEN x - y ELSE 0

----------------------------------------------------------------------------
(* Interrupts *)

present_cdrom_irq(s) ==
    IF s.wait = 0 /\ s.irq \cap s.enable # {} /\ ~s.latched
    THEN [s EXCEPT !.istat = TRUE, !.latched = TRUE]
    ELSE s

\* Mutant of set_irq: no presentation latency.
set_irq_now(s, n, of) ==
    [s EXCEPT !.irq = IntBits[n], !.latched = FALSE, !.wait = 0, !.of = of]

\* The response FIFO now answers of.
set_irq(s, n, of) ==
    [s EXCEPT !.irq = IntBits[n], !.latched = FALSE, !.wait = PresentDelay, !.of = of]

Respond(s, n, of) == present_cdrom_irq(set_irq(s, n, of))

----------------------------------------------------------------------------
(* Drive state *)

\* Mutant of start_read_stream: the play bit stays.
start_read_stream_playing(s) ==
    [s EXCEPT !.playing = FALSE, !.playIn = 0, !.end = FALSE, !.pended = FALSE,
              !.pendedStat = {}, !.readIn = StartDelay, !.reading = TRUE,
              !.stat = @ \cup {"READ"}]

start_read_stream(s) ==
    [s EXCEPT !.playing = FALSE, !.playIn = 0, !.end = FALSE, !.pended = FALSE,
              !.pendedStat = {}, !.readIn = StartDelay, !.reading = TRUE,
              !.stat = (@ \ {"PLAY"}) \cup {"READ"}]

stop_read_stream(s) ==
    [s EXCEPT !.reading = FALSE, !.readIn = 0, !.pended = FALSE, !.pendedStat = {}]

stop_cdda_playback(s) ==
    [s EXCEPT !.playing = FALSE, !.playIn = 0, !.end = FALSE, !.stat = @ \ {"PLAY"}]

start_cdda_playback(s) ==
    [stop_read_stream(s) EXCEPT !.end = FALSE, !.playing = TRUE, !.playIn = AudioDelay,
                                !.stat = (@ \ {"SEEK", "READ"}) \cup {"MOTOR", "PLAY"}]

RestStat(s) == IF s.disc THEN {"MOTOR"} ELSE {"SHELL"}

----------------------------------------------------------------------------
(* Commands *)

\* Answered by INT5.
Refused(s, cmd, c) ==
    \/ cmd \in {"GetTD", "ReadN", "Play", "SeekL"} /\ ~s.disc
    \/ cmd = "Play" /\ ~c.audio
    \/ cmd = "MotorOn" /\ "MOTOR" \in s.stat
    \/ cmd = "unknown"

pause_complete_delay_cycles(s) ==
    IF ~s.reading /\ s.stat \cap {"READ", "PLAY"} = {} THEN ShortDelay ELSE LongDelay

CompleteDelay(s, cmd, c) ==
    CASE cmd = "Pause" -> pause_complete_delay_cycles(s)
      [] cmd = "SeekL" -> IF c.far THEN LongDelay ELSE ShortDelay
      [] cmd \in {"Init", "ReadTOC"} -> LongDelay
      [] OTHER -> ShortDelay

\* What a command does to the drive before its first response.
Driven(s, cmd, c) ==
    LET halted == stop_cdda_playback(stop_read_stream(s))
    IN CASE cmd = "GetStat" -> [s EXCEPT !.stat = @ \cup RestStat(s)]
         [] cmd = "SetMode" -> [s EXCEPT !.autopause = c.ends]
         [] cmd = "ReadN" -> start_read_stream(s)
         [] cmd = "Stop" -> [halted EXCEPT !.stat = @ \ {"READ", "PLAY", "SEEK"}]
         [] cmd = "Pause" -> [halted EXCEPT !.stat = @ \ {"READ", "PLAY"}]
         [] cmd = "Init" -> [halted EXCEPT !.stat = RestStat(s)]
         [] cmd = "Play" -> start_cdda_playback(s)
         [] cmd = "SeekL" -> [stop_cdda_playback(s) EXCEPT !.stat = @ \cup {"SEEK"}]
         [] OTHER -> s

\* A second response still owed by an earlier command is overwritten.
exec_command(s, cmd, c) ==
    IF Refused(s, cmd, c) THEN Respond(s, 5, cmd)
    ELSE LET d == Driven(s, cmd, c)
         IN Respond(IF cmd \in TwoPhase
                    THEN [d EXCEPT !.pending = [cmd |-> cmd, left |-> CompleteDelay(s, cmd, c)]]
                    ELSE d, 3, cmd)

try_execute_queued_command(s, c) ==
    IF s.queued = "none" \/ s.irq # {} THEN s
    ELSE exec_command([s EXCEPT !.queued = "none"], s.queued, c)

\* Mutant of queue_or_exec_command: an unacknowledged INT is not waited for.
exec_command_at_once(s, cmd, c) == exec_command(s, cmd, c)

\* A second write overwrites the queued command.
queue_or_exec_command(s, cmd, c) ==
    IF s.irq = {} THEN exec_command(s, cmd, c) ELSE [s EXCEPT !.queued = cmd]

\* Mutant of Completed: the completed command stays pending.
CompletedAgain(s) == Respond(s, 2, s.pending.cmd)

\* The second response.
Completed(s) ==
    LET cmd == s.pending.cmd
        lost == CASE cmd = "Stop" -> {"MOTOR", "READ", "PLAY", "SEEK"}
                  [] cmd = "Pause" -> {"READ"}
                  [] cmd = "SeekL" -> {"SEEK"}
                  [] OTHER -> {}
        gained == IF cmd = "MotorOn" THEN {"MOTOR"} ELSE {}
    IN Respond([s EXCEPT !.pending = NoPending, !.stat = (@ \ lost) \cup gained],
               IF cmd = "GetID" /\ ~s.disc THEN 5 ELSE 2, cmd)

\* Time goes on behind an unacknowledged INT only with the setting.
process_pending(s, n) ==
    LET aged == IF s.continues \/ s.irq = {} THEN [s EXCEPT !.pending.left = Minus(@, n)] ELSE s
    IN IF s.pending = NoPending THEN s
       ELSE IF aged.pending.left > 0 \/ s.irq # {} THEN aged
       ELSE Completed(aged)

----------------------------------------------------------------------------
(* Streams *)

\* Mutant of NextSector: what is overdue is caught up.
NextSectorBurst(left) == IF left + SectorDelay > 1 THEN 1 ELSE SectorDelay

\* The time to the next sector, never a burst.
NextSector(left) == IF left + SectorDelay > 0 THEN left + SectorDelay ELSE SectorDelay

\* A sector is due: announced, refilled for a DMA transfer, or its INT1 pended
\* one deep.  XA audio goes to the decoder and announces nothing.
process_read_stream(s, n, c) ==
    LET left == s.readIn - n
        due == [s EXCEPT !.readIn = NextSector(left)]
    IN CASE ~s.reading -> s
         [] s.reading /\ left > 0 -> [s EXCEPT !.readIn = left]
         [] s.reading /\ left <= 0 /\ (c.xa \/ (s.irq # {} /\ s.dma)) -> due
         [] s.reading /\ left <= 0 /\ ~c.xa /\ s.irq = {} -> Respond(due, 1, "data")
         [] OTHER -> [due EXCEPT !.pended = TRUE, !.pendedStat = s.stat]

present_pending_dataready(s) ==
    IF ~s.pended \/ s.irq # {} THEN s
    ELSE Respond([s EXCEPT !.pended = FALSE], 1, "data")

deliver_cdda_data_end(s) ==
    IF ~s.end \/ s.irq # {} THEN s ELSE Respond([s EXCEPT !.end = FALSE], 4, "end")

\* At most one sector in a charge.  At the end of a track playback goes on with
\* the next one (c.audio) or stops.
process_cdda_stream(s, n, c) ==
    LET left == s.playIn - n
        over == left <= 0 /\ c.ends /\ (s.autopause \/ ~c.audio)
    IN deliver_cdda_data_end(
         CASE ~s.playing -> s
           [] s.playing /\ over -> [stop_cdda_playback(s) EXCEPT !.end = TRUE]
           [] OTHER -> [s EXCEPT !.playIn = CASE left > 0 -> left
                                              [] left <= 0 /\ left + AudioDelay > 0 -> left + AudioDelay
                                              [] OTHER -> AudioDelay])

cdrom_advance(s, n, c) ==
    LET aged == present_cdrom_irq([s EXCEPT !.wait = Minus(@, n)])
        ran == process_pending(try_execute_queued_command(aged, c), n)
    IN present_cdrom_irq(process_cdda_stream(process_read_stream(ran, n, c), n, c))

\* The countdowns whose smallest is cdrom_cycles_to_irq: the catch-up loop makes
\* no charge that goes past it, and one of a single cycle when it is 0.
Countdowns(s) ==
    (IF s.irq \cap s.enable # {} THEN {s.wait} ELSE {})
      \cup ({s.pending.left, IF s.reading THEN s.readIn ELSE 0} \ {0})

----------------------------------------------------------------------------
(* Registers *)

\* Mutant of Acknowledged: a pended data-ready is left to the next sector.
AcknowledgedOnly(s, bits, c) ==
    LET irq == s.irq \ bits
    IN try_execute_queued_command(
         [s EXCEPT !.irq = irq, !.latched = @ /\ ~(s.irq # {} /\ irq = {})], c)

\* The flag register is written.
Acknowledged(s, bits, c) ==
    LET irq == s.irq \ bits
        a == [s EXCEPT !.irq = irq, !.latched = @ /\ ~(s.irq # {} /\ irq = {})]
    IN try_execute_queued_command(present_pending_dataready(a), c)

----------------------------------------------------------------------------
(* The guest and time. *)

Init ==
    /\ session \in Sessions
    /\ cd = [irq |-> {}, enable |-> 0 .. 4, latched |-> FALSE, wait |-> 0, istat |-> FALSE,
             of |-> "none", stat |-> IF session.disc THEN {"MOTOR"} ELSE {"SHELL"},
             reading |-> FALSE, readIn |-> 0, pended |-> FALSE, pendedStat |-> {},
             pending |-> NoPending, queued |-> "none", playing |-> FALSE, playIn |-> 0,
             end |-> FALSE, autopause |-> FALSE, dma |-> FALSE, disc |-> session.disc,
             continues |-> session.continues]
    /\ guest = [at |-> "main", seen |-> {}, cycles |-> 0]
    /\ spent = 0 /\ clock = 0

\* An interrupt, or an INT the guest has masked and polls for.
Called == cd.istat \/ (cd.irq # {} /\ cd.irq \cap cd.enable = {})

\* From any place, also inside the handler, before or after the acknowledgement.
write_command(cmd, c) ==
    /\ spent < session.limit
    /\ cd' = queue_or_exec_command(cd, cmd, c)
    /\ spent' = spent + 1
    /\ UNCHANGED <<guest, session, clock>>

write_enable(mask) ==
    /\ guest.at = "main" /\ mask # cd.enable
    /\ cd' = [cd EXCEPT !.enable = mask]
    /\ UNCHANGED <<guest, spent, session, clock>>

\* dma_cdrom_transfer_active begins or ends to hold.
dma_transfer(on) ==
    /\ on # cd.dma
    /\ cd' = [cd EXCEPT !.dma = on]
    /\ UNCHANGED <<guest, spent, session, clock>>

read_flag ==
    /\ guest.at = "main" /\ Called
    /\ guest' = [at |-> "read", seen |-> cd.irq, cycles |-> 0]
    /\ UNCHANGED <<cd, spent, session, clock>>

write_flag(c) ==
    /\ guest.at = "read"
    /\ cd' = Acknowledged(cd, guest.seen, c)
    /\ guest' = [guest EXCEPT !.at = "acked", !.seen = {}]
    /\ UNCHANGED <<spent, session, clock>>

clear_istat ==
    /\ guest.at = "acked"
    /\ cd' = [cd EXCEPT !.istat = FALSE]
    /\ guest' = [at |-> "main", seen |-> {}, cycles |-> 0]
    /\ UNCHANGED <<spent, session, clock>>

\* Time: no further than the next event, and no longer than the guest takes.
Advance(n, c) ==
    LET busy == guest.at # "main" \/ Called
    IN /\ n = 1 \/ \A d \in Countdowns(cd) : n <= d
       /\ busy => guest.cycles + n <= (IF guest.at = "main" THEN Latency ELSE HandlerCycles)
       /\ cd' = cdrom_advance(cd, n, c)
       /\ guest' = [guest EXCEPT !.cycles = IF busy THEN @ + n ELSE 0]
       /\ clock' = 1 - clock
       /\ UNCHANGED <<spent, session>>

Next ==
    \/ \E c \in Chance : \/ \E cmd \in session.commands : write_command(cmd, c)
                         \/ \E n \in Charges : Advance(n, c)
                         \/ write_flag(c)
    \/ \E mask \in session.masks : write_enable(mask)
    \/ \E on \in session.dma : dma_transfer(on)
    \/ read_flag \/ clear_istat

Tick == clock' = 1 - clock

\* Guest time goes on; the guest's deadlines are in Advance.
Spec == Init /\ [][Next]_vars /\ WF_clock(Tick)

----------------------------------------------------------------------------
(* Properties. *)

\* Every variable has its type.
TypeOK ==
    /\ cd \in Cd
    /\ guest \in [at : {"main", "read", "acked"}, seen : SUBSET (0 .. 2), cycles : Nat]
    /\ spent \in Nat /\ session \in Sessions /\ clock \in {0, 1}

\* A pended data-ready and a queued command both wait for the acknowledgement
\* of a visible INT and for nothing else: there is always one, so neither is
\* left without an event that would release it, and no status change comes
\* between a pended sector and its INT1.
NothingStranded ==
    /\ cd.queued # "none" => cd.irq # {}
    /\ cd.pended => cd.irq # {} /\ cd.pendedStat = cd.stat

\* The latch suppresses a second presentation of an INT.  So an INT that has been
\* presented must still be in I_STAT once the handler is over: the handler's
\* trailing I_STAT write never clears the interrupt of a later response, also
\* when it issues a command itself.
NoLostInterrupt ==
    guest.at = "main" /\ cd.irq # {} /\ cd.latched => cd.istat

\* The drive is never reported reading or playing when it is not, whatever
\* commands, completions and track ends come in between, and never does both.
StatusHonest ==
    /\ "READ" \in cd.stat => cd.reading
    /\ "PLAY" \in cd.stat => cd.playing
    /\ ~(cd.reading /\ cd.playing) /\ ~(cd.end /\ cd.playing)

\* Responses are serialised: until the guest acknowledges an INT, no command,
\* completion, sector or track end replaces it or its response.
IntHeldUntilAck ==
    [][cd.irq # {} /\ ~(guest.at = "read" /\ guest'.at = "acked")
       => cd'.irq = cd.irq /\ cd'.of = cd.of]_vars

\* A queued command waits behind the INT1 of the stream only for a while.
QueuedRuns == cd.queued # "none" ~> cd.queued = "none"

\* Every second response comes although sectors keep arriving and commands
\* interleave, with either rule for the time behind an unacknowledged INT.
CompletionComes == cd.pending # NoPending ~> cd.pending = NoPending
=============================================================================
