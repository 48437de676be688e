----------------------------- MODULE CdRomProofs ----------------------------
(***************************************************************************)
(* For all delays, charges, chances and guests whose handler is shorter     *)
(* than the presentation latency: responses are serialised, nothing waits   *)
(* without an INT to wait for, the status is honest, and no interrupt is    *)
(* lost to the handler's trailing I_STAT write.                             *)
(***************************************************************************)
EXTENDS CdRom, TLAPS

\* The clauses of StatusHonest and NothingStranded, of one controller state.
Honest(s) ==
    /\ "READ" \in s.stat => s.reading
    /\ "PLAY" \in s.stat => s.playing
    /\ ~(s.reading /\ s.playing) /\ ~(s.end /\ s.playing)

PendedWaits(s) == s.pended => s.irq # {} /\ s.pendedStat = s.stat /\ s.reading
QueuedWaits(s) == s.queued # "none" => s.irq # {}

Good(s) == s \in Cd /\ Honest(s) /\ PendedWaits(s)

\* What a part of the controller may do to the visible INT: nothing, or arm a
\* new one where there was none.
Quiet(s, t) ==
    /\ t.irq = s.irq /\ t.of = s.of /\ t.wait = s.wait
    /\ t.latched = s.latched /\ t.istat = s.istat

Arms(s, t) ==
    s.irq = {} /\ t.irq # {} /\ t.latched = FALSE /\ t.wait = PresentDelay /\ t.istat = s.istat

Moves(s, t) == Quiet(s, t) \/ Arms(s, t)

\* The handler's part of the invariant: what was read is still there; after
\* that only a response whose latency outlasts the handler can be there.
Unpresented == cd.irq # {} => cd.latched = FALSE /\ cd.wait + guest.cycles >= PresentDelay

Handled ==
    /\ guest.at = "read" /\ guest.seen # {} => guest.seen = cd.irq
    /\ guest.at = "read" /\ guest.seen = {} => Unpresented
    /\ guest.at = "acked" => Unpresented
    /\ guest.at # "main" => guest.cycles <= HandlerCycles
    /\ NoLostInterrupt

IInv == TypeOK /\ Honest(cd) /\ PendedWaits(cd) /\ QueuedWaits(cd) /\ Handled

----------------------------------------------------------------------------
(* The parts of the controller. *)

Answers == Commands \cup {"none", "data", "end"}

\* t is s with a new response.
Responded(s, t) ==
    /\ t \in Cd
    /\ t.irq # {} /\ t.latched = FALSE /\ t.wait = PresentDelay /\ t.istat = s.istat
    /\ t.stat = s.stat /\ t.reading = s.reading /\ t.playing = s.playing
    /\ t.end = s.end /\ t.pended = s.pended /\ t.pendedStat = s.pendedStat
    /\ t.queued = s.queued

\* A response is armed and not presented at once.
LEMMA RespondOK ==
  ASSUME NEW s \in Cd, NEW n \in 1 .. 5, NEW of \in Answers
  PROVE  Responded(s, Respond(s, n, of))
<1> DEFINE u == set_irq(s, n, of)
<1>1. IntBits[n] \in SUBSET (0 .. 2) /\ IntBits[n] # {}
  BY DEF IntBits
<1>2. PresentDelay \in Nat \ {0}
  BY CdRomAssumption
<1>3. u \in Cd
  <2> DEFINE b == IntBits[n]
  <2>1. b \in SUBSET (0 .. 2) /\ u = [s EXCEPT !.irq = b, !.latched = FALSE,
                                            !.wait = PresentDelay, !.of = of]
    BY <1>1 DEF set_irq
  <2>2. PresentDelay \in 0 .. PresentDelay
    BY <1>2
  <2> HIDE DEF b, u
  <2> QED
    BY <2>1, <2>2 DEF Cd, Answers
<1>5. /\ u.irq = IntBits[n] /\ u.latched = FALSE /\ u.wait = PresentDelay
      /\ u.istat = s.istat
      /\ u.stat = s.stat /\ u.reading = s.reading /\ u.playing = s.playing
      /\ u.end = s.end /\ u.pended = s.pended /\ u.pendedStat = s.pendedStat
      /\ u.queued = s.queued
  BY DEF set_irq, Cd
<1>4. Respond(s, n, of) = u
  BY <1>2, <1>5 DEF Respond, present_cdrom_irq
<1> HIDE DEF u
<1> QED
  BY <1>1, <1>3, <1>4, <1>5 DEF Responded

\* Commands leave the INT to the response and keep the status honest.
LEMMA DrivenOK ==
  ASSUME NEW s \in Cd, Honest(s), NEW cmd \in Commands, NEW c \in Chance,
         NEW t, t = Driven(s, cmd, c)
  PROVE  /\ t \in Cd /\ Honest(t) /\ Quiet(s, t)
         /\ t.pended => s.pended
         /\ t.queued = s.queued
<1> DEFINE halted == stop_cdda_playback(stop_read_stream(s))
<1>0. StartDelay \in Nat /\ AudioDelay \in Nat
  BY CdRomAssumption
<1>1. /\ halted \in Cd /\ Quiet(s, halted) /\ ~halted.pended /\ halted.queued = s.queued
      /\ ~halted.reading /\ ~halted.playing /\ ~halted.end /\ "PLAY" \notin halted.stat
  BY DEF stop_cdda_playback, stop_read_stream, Cd, Quiet
<1>2. CASE cmd = "GetStat"
  <2> DEFINE st == s.stat \cup RestStat(s)
  <2>1. /\ st \in SUBSET Status
        /\ "READ" \in st => "READ" \in s.stat
        /\ "PLAY" \in st => "PLAY" \in s.stat
    BY DEF RestStat, Cd, Status
  <2>2. t = [s EXCEPT !.stat = st]
    BY <1>2 DEF Driven
  <2> HIDE DEF st
  <2> QED
    BY <2>1, <2>2 DEF Cd, Honest, Quiet
<1>8. CASE cmd = "SetMode"
  <2>1. t = [s EXCEPT !.autopause = c.ends] /\ c.ends \in BOOLEAN
    BY <1>8 DEF Driven, Chance
  <2> QED
    BY <2>1 DEF Cd, Honest, Quiet
<1>3. CASE cmd = "ReadN"
  BY <1>0, <1>3 DEF Driven, start_read_stream, Cd, Status, Honest, Quiet
<1>4. CASE cmd \in {"Stop", "Pause", "Init"}
  <2> DEFINE gone == IF cmd = "Stop" THEN {"READ", "PLAY", "SEEK"} ELSE {"READ", "PLAY"}
             st == IF cmd = "Init" THEN RestStat(s) ELSE halted.stat \ gone
  <2>1. t = [halted EXCEPT !.stat = st]
    BY <1>1, <1>4 DEF Driven, Cd
  <2>2. st \in SUBSET Status /\ "READ" \notin st /\ "PLAY" \notin st
    BY <1>1 DEF RestStat, Cd, Status
  <2> HIDE DEF halted, st
  <2> QED
    BY <1>1, <2>1, <2>2 DEF Cd, Honest, Quiet
<1>5. CASE cmd = "Play"
  <2> DEFINE r == stop_read_stream(s)
  <2>1. r \in Cd /\ Quiet(s, r) /\ ~r.pended /\ r.queued = s.queued /\ ~r.reading
    BY DEF stop_read_stream, Cd, Quiet
  <2>2. t = [r EXCEPT !.end = FALSE, !.playing = TRUE, !.playIn = AudioDelay,
                               !.stat = (@ \ {"SEEK", "READ"}) \cup {"MOTOR", "PLAY"}]
    BY <1>5 DEF Driven, start_cdda_playback
  <2> DEFINE st == (r.stat \ {"SEEK", "READ"}) \cup {"MOTOR", "PLAY"}
  <2>5. st \in SUBSET Status
    BY <2>1 DEF Cd, Status
  <2>6. t = [r EXCEPT !.end = FALSE, !.playing = TRUE, !.playIn = AudioDelay, !.stat = st]
    BY <2>2
  <2> HIDE DEF r
  <2>3. t \in Cd
    <3> HIDE DEF st
    <3> QED
      BY <1>0, <2>1, <2>5, <2>6 DEF Cd
  <2>4. /\ ~t.end /\ t.playing /\ t.reading = r.reading /\ "READ" \notin t.stat
        /\ t.pended = r.pended /\ t.queued = r.queued /\ Quiet(r, t)
    BY <2>1, <2>2 DEF Cd, Quiet
  <2> QED
    BY <2>1, <2>3, <2>4 DEF Honest, Quiet
<1>6. CASE cmd = "SeekL"
  BY <1>6 DEF Driven, stop_cdda_playback, Cd, Status, Honest, Quiet
<1>7. CASE cmd \notin {"GetStat", "SetMode", "ReadN", "Stop", "Pause", "Init", "Play", "SeekL"}
  BY <1>7 DEF Driven, Quiet
<1> QED
  BY <1>2, <1>3, <1>4, <1>5, <1>6, <1>7, <1>8

\* A command that runs when no INT is visible leaves its first response.
LEMMA ExecOK ==
  ASSUME NEW s \in Cd, Honest(s), s.irq = {}, ~s.pended,
         NEW cmd \in Commands, NEW c \in Chance,
         NEW t, t = exec_command(s, cmd, c)
  PROVE  Good(t) /\ Arms(s, t) /\ ~t.pended /\ t.queued = s.queued
<1>1. CASE Refused(s, cmd, c)
  <2>1. t = Respond(s, 5, cmd)
    BY <1>1 DEF exec_command
  <2>2. Responded(s, t)
    BY <2>1, RespondOK DEF Answers
  <2> QED
    BY <2>2 DEF Responded, Good, Arms, Honest, PendedWaits
<1>2. CASE ~Refused(s, cmd, c)
  <2> DEFINE d == Driven(s, cmd, c)
             p == [cmd |-> cmd, left |-> CompleteDelay(s, cmd, c)]
             e == IF cmd \in TwoPhase THEN [d EXCEPT !.pending = p] ELSE d
  <2>1. d \in Cd /\ Honest(d) /\ Quiet(s, d) /\ ~d.pended /\ d.queued = s.queued
    BY DrivenOK
  <2>2. CompleteDelay(s, cmd, c) \in Nat
    BY CdRomAssumption DEF CompleteDelay, pause_complete_delay_cycles
  <2>3. t = Respond(e, 3, cmd)
    BY <1>2 DEF exec_command
  <2>4. cmd \in TwoPhase => p \in [cmd : TwoPhase \cup {"none"}, left : Nat]
    BY <2>2
  <2> HIDE DEF d, p
  <2>5. e \in Cd /\ Honest(e) /\ Quiet(s, e) /\ ~e.pended /\ e.queued = s.queued
    BY <2>1, <2>4 DEF Cd, Honest, Quiet
  <2> HIDE DEF e
  <2>6. Responded(e, t)
    BY <2>3, <2>5, RespondOK DEF Answers
  <2> QED
    BY <2>5, <2>6 DEF Responded, Good, Arms, Honest, PendedWaits, Quiet
<1> QED
  BY <1>1, <1>2

\* Afterwards no command is queued without a visible INT.
LEMMA TryOK ==
  ASSUME NEW s, Good(s), NEW c \in Chance,
         NEW t, t = try_execute_queued_command(s, c)
  PROVE  Good(t) /\ QueuedWaits(t) /\ Moves(s, t)
<1>1. CASE s.queued = "none" \/ s.irq # {}
  BY <1>1 DEF try_execute_queued_command, Good, QueuedWaits, Moves, Quiet
<1>2. CASE s.queued # "none" /\ s.irq = {}
  <2> DEFINE q == [s EXCEPT !.queued = "none"]
  <2>1. /\ q \in Cd /\ Honest(q) /\ ~q.pended /\ q.irq = {} /\ q.istat = s.istat
        /\ s.queued \in Commands
    BY <1>2 DEF Good, Cd, Honest, PendedWaits
  <2>2. t = exec_command(q, s.queued, c)
    BY <1>2 DEF try_execute_queued_command
  <2> HIDE DEF q
  <2>3. Good(t) /\ Arms(q, t)
    BY <2>1, <2>2, ExecOK
  <2> QED
    BY <1>2, <2>1, <2>3 DEF Arms, Moves, QueuedWaits
<1> QED
  BY <1>1, <1>2

\* With the queue included, between two steps of the controller.
Sound(s) == Good(s) /\ QueuedWaits(s)

\* A response to a sound state without a visible INT.
LEMMA RespondSound ==
  ASSUME NEW s, Sound(s), s.irq = {}, NEW n \in 1 .. 5, NEW of \in Answers,
         NEW t, t = Respond(s, n, of)
  PROVE  Sound(t) /\ Arms(s, t)
<1>1. s \in Cd /\ ~s.pended /\ Honest(s)
  BY DEF Sound, Good, PendedWaits, Cd
<1>2. Responded(s, t)
  BY <1>1, RespondOK
<1> QED
  BY <1>1, <1>2 DEF Responded, Sound, Good, PendedWaits, QueuedWaits, Honest, Arms

\* The second response.
LEMMA PendingOK ==
  ASSUME NEW s, Sound(s), NEW n \in Nat, NEW t, t = process_pending(s, n)
  PROVE  Sound(t) /\ Moves(s, t)
<1> DEFINE aged == IF s.continues \/ s.irq = {}
                   THEN [s EXCEPT !.pending.left = Minus(s.pending.left, n)] ELSE s
<1>1. s.pending \in [cmd : TwoPhase \cup {"none"}, left : Nat]
      /\ Minus(s.pending.left, n) \in Nat
  BY DEF Sound, Good, Cd, Minus
<1>2. Sound(aged) /\ Quiet(s, aged) /\ aged.pending.cmd = s.pending.cmd
  <2>1. CASE s.continues \/ s.irq = {}
    <3> DEFINE p == [s.pending EXCEPT !.left = Minus(s.pending.left, n)]
    <3>1. p \in [cmd : TwoPhase \cup {"none"}, left : Nat] /\ p.cmd = s.pending.cmd
      BY <1>1
    <3>2. aged = [s EXCEPT !.pending = p]
      BY <2>1
    <3> HIDE DEF p, aged
    <3> QED
      BY <3>1, <3>2 DEF Sound, Good, Cd, Honest, PendedWaits, QueuedWaits, Quiet
  <2>2. CASE ~(s.continues \/ s.irq = {})
    BY <2>2 DEF Quiet
  <2> QED
    BY <2>1, <2>2
<1>3. \/ t = s
      \/ t = aged
      \/ s.irq = {} /\ s.pending # NoPending /\ t = Completed(aged)
  BY DEF process_pending
<1>4. ASSUME s.irq = {}, t = Completed(aged) PROVE Sound(t) /\ Arms(s, t)
  <2> HIDE DEF aged
  <2> DEFINE cmd == aged.pending.cmd
             lost == CASE cmd = "Stop" -> {"MOTOR", "READ", "PLAY", "SEEK"}
                       [] cmd = "Pause" -> {"READ"}
                       [] cmd = "SeekL" -> {"SEEK"}
                       [] OTHER -> {}
             gained == IF cmd = "MotorOn" THEN {"MOTOR"} ELSE {}
             st == (aged.stat \ lost) \cup gained
             e == [aged EXCEPT !.pending = NoPending, !.stat = st]
  <2>1. t = Respond(e, IF cmd = "GetID" /\ ~aged.disc THEN 5 ELSE 2, cmd)
    BY <1>4 DEF Completed
  <2>2. cmd \in Answers
    BY <1>2, <1>1 DEF Answers, TwoPhase, Commands
  <2>3. /\ st \in SUBSET Status
        /\ "READ" \in st => "READ" \in aged.stat
        /\ "PLAY" \in st => "PLAY" \in aged.stat
    BY <1>2 DEF Sound, Good, Cd, Status
  <2>4. NoPending \in [cmd : TwoPhase \cup {"none"}, left : Nat]
    BY DEF NoPending
  <2>5. aged.irq = {} /\ ~aged.pended /\ aged \in Cd
    BY <1>2, <1>4 DEF Quiet, Sound, Good, PendedWaits, Cd
  <2> HIDE DEF st
  <2>6. Sound(e) /\ e.irq = {} /\ e.istat = s.istat
    BY <1>2, <2>3, <2>4, <2>5 DEF Sound, Good, Cd, Honest, PendedWaits, QueuedWaits, Quiet
  <2> HIDE DEF e, cmd
  <2>7. Sound(t) /\ Arms(e, t)
    BY <2>1, <2>2, <2>6, RespondSound
  <2> QED
    BY <1>4, <2>6, <2>7 DEF Arms
<1> QED
  <2> HIDE DEF aged
  <2> QED
    BY <1>2, <1>3, <1>4 DEF Moves, Quiet

\* The read stream.
LEMMA ReadOK ==
  ASSUME NEW s, Sound(s), NEW n \in Nat, NEW c \in Chance, NEW t, t = process_read_stream(s, n, c)
  PROVE  Sound(t) /\ Moves(s, t)
<1> DEFINE left == s.readIn - n
           due == [s EXCEPT !.readIn = NextSector(left)]
           pend == [due EXCEPT !.pended = TRUE, !.pendedStat = s.stat]
<1>1. left \in Int /\ NextSector(left) \in Nat
  BY CdRomAssumption DEF Sound, Good, Cd, NextSector
<1>2. \/ t = s
      \/ left > 0 /\ t = [s EXCEPT !.readIn = left]
      \/ t = due
      \/ s.irq = {} /\ t = Respond(due, 1, "data")
      \/ s.irq # {} /\ s.reading /\ t = pend
  BY DEF process_read_stream, Chance, Sound, Good, Cd
<1>3. s \in Cd
  BY DEF Sound, Good
<1>4. CASE left > 0 /\ t = [s EXCEPT !.readIn = left]
  <2> HIDE DEF left
  <2>1. left \in Nat
    BY <1>1, <1>4
  <2> QED
    BY <1>3, <1>4, <2>1 DEF Sound, Good, Cd, Honest, PendedWaits, QueuedWaits, Moves, Quiet
<1>5. Sound(due) /\ Quiet(s, due)
  <2> DEFINE k == NextSector(left)
  <2>1. due = [s EXCEPT !.readIn = k] /\ k \in Nat
    BY <1>1
  <2> HIDE DEF k, due
  <2> QED
    BY <1>3, <2>1 DEF Sound, Good, Cd, Honest, PendedWaits, QueuedWaits, Quiet
<1>6. CASE s.irq = {} /\ t = Respond(due, 1, "data")
  <2>1. 1 \in 1 .. 5 /\ "data" \in Answers /\ due.irq = {}
    BY <1>5, <1>6 DEF Answers, Quiet
  <2> HIDE DEF due
  <2>2. Sound(t) /\ Arms(due, t)
    BY <1>5, <1>6, <2>1, RespondSound
  <2> QED
    BY <1>5, <1>6, <2>2 DEF Moves, Arms, Quiet
<1>7. CASE s.irq # {} /\ s.reading /\ t = pend
  <2>1. s.stat \in SUBSET Status /\ due.stat = s.stat /\ due.irq # {} /\ due.reading
    BY <1>3, <1>7 DEF Cd
  <2>2. t = [due EXCEPT !.pended = TRUE, !.pendedStat = s.stat]
    BY <1>7
  <2> HIDE DEF due
  <2>3. due \in Cd
    BY <1>5 DEF Sound, Good
  <2>4. /\ t \in Cd /\ t.pendedStat = t.stat /\ t.stat = due.stat /\ t.reading = due.reading
        /\ t.playing = due.playing /\ t.end = due.end /\ t.queued = due.queued /\ Quiet(due, t)
    BY <2>1, <2>2, <2>3 DEF Cd, Quiet
  <2> QED
    BY <1>5, <2>1, <2>4 DEF Sound, Good, Cd, Honest, PendedWaits, QueuedWaits, Moves, Quiet
<1> QED
  BY <1>2, <1>4, <1>5, <1>6, <1>7 DEF Moves, Quiet

\* Playback and the end of a track.
LEMMA CddaOK ==
  ASSUME NEW s, Sound(s), NEW n \in Nat, NEW c \in Chance, NEW t, t = process_cdda_stream(s, n, c)
  PROVE  Sound(t) /\ Moves(s, t)
<1> DEFINE left == s.playIn - n
           k == CASE left > 0 -> left
                  [] left <= 0 /\ left + AudioDelay > 0 -> left + AudioDelay
                  [] OTHER -> AudioDelay
           on == [s EXCEPT !.playIn = k]
           off == [stop_cdda_playback(s) EXCEPT !.end = TRUE]
<1>1. s \in Cd /\ left \in Int
  BY DEF Sound, Good, Cd
<1>2. k \in Nat
  BY <1>1, CdRomAssumption
<1>3. PICK u : /\ u = s \/ u = on \/ (u = off /\ s.playing)
               /\ t = deliver_cdda_data_end(u)
  BY DEF process_cdda_stream
<1>4. Sound(on) /\ Quiet(s, on)
  <2> HIDE DEF k
  <2> QED
    BY <1>1, <1>2 DEF Sound, Good, Cd, Honest, PendedWaits, QueuedWaits, Quiet
<1>5. ASSUME s.playing PROVE Sound(off) /\ Quiet(s, off)
  <2>1. ~s.reading /\ ~s.pended
    BY <1>1, <1>5 DEF Sound, Good, Honest, PendedWaits, Cd
  <2> QED
    BY <1>1, <2>1 DEF stop_cdda_playback, Sound, Good, Cd, Honest, PendedWaits, QueuedWaits, Quiet
<1>6. Sound(u) /\ Quiet(s, u)
  BY <1>3, <1>4, <1>5 DEF Quiet
<1> HIDE DEF on, off
<1>7. CASE ~u.end \/ u.irq # {}
  BY <1>3, <1>6, <1>7 DEF deliver_cdda_data_end, Moves
<1>8. CASE u.end /\ u.irq = {}
  <2> DEFINE v == [u EXCEPT !.end = FALSE]
  <2>1. t = Respond(v, 4, "end")
    BY <1>3, <1>8 DEF deliver_cdda_data_end
  <2>5. u \in Cd /\ ~u.pended
    BY <1>6, <1>8 DEF Sound, Good, PendedWaits, Cd
  <2>6. /\ v \in Cd /\ v.irq = u.irq /\ v.istat = u.istat /\ v.stat = u.stat /\ v.end = FALSE
        /\ v.reading = u.reading /\ v.playing = u.playing /\ v.pended = u.pended
        /\ v.queued = u.queued
    BY <2>5 DEF Cd
  <2>2. Sound(v) /\ v.irq = {} /\ v.istat = u.istat
    <3> HIDE DEF v
    <3> QED
      BY <1>6, <1>8, <2>5, <2>6 DEF Sound, Good, Honest, PendedWaits, QueuedWaits
  <2>3. 4 \in 1 .. 5 /\ "end" \in Answers
    BY DEF Answers
  <2> HIDE DEF v
  <2>4. Sound(t) /\ Arms(v, t)
    BY <2>1, <2>2, <2>3, RespondSound
  <2> QED
    BY <1>6, <1>8, <2>2, <2>4 DEF Moves, Arms, Quiet
<1> QED
  BY <1>7, <1>8

\* Presentation: the INT stays, and is latched only once its latency is over.
Presented(s, t) ==
    /\ t.irq = s.irq /\ t.of = s.of /\ t.wait = s.wait
    /\ \/ t.latched = s.latched /\ t.istat = s.istat
       \/ s.wait = 0 /\ s.irq # {} /\ t.istat = TRUE

\* Presenting keeps a state sound.
LEMMA PresentOK ==
  ASSUME NEW s, Sound(s), NEW t, t = present_cdrom_irq(s)
  PROVE  Sound(t) /\ Presented(s, t)
<1>1. s \in Cd
  BY DEF Sound, Good
<1>2. CASE s.wait = 0 /\ s.irq \cap s.enable # {} /\ ~s.latched
  <2>1. t = [s EXCEPT !.istat = TRUE, !.latched = TRUE]
    BY <1>2 DEF present_cdrom_irq
  <2>2. /\ t \in Cd /\ t.irq = s.irq /\ t.of = s.of /\ t.wait = s.wait /\ t.istat = TRUE
        /\ t.stat = s.stat /\ t.reading = s.reading /\ t.playing = s.playing /\ t.end = s.end
        /\ t.pended = s.pended /\ t.pendedStat = s.pendedStat /\ t.queued = s.queued
    BY <1>1, <2>1 DEF Cd
  <2>3. s.irq # {}
    BY <1>2
  <2> QED
    BY <1>2, <2>2, <2>3 DEF Sound, Good, Honest, PendedWaits, QueuedWaits, Presented
<1>3. CASE ~(s.wait = 0 /\ s.irq \cap s.enable # {} /\ ~s.latched)
  BY <1>3 DEF present_cdrom_irq, Presented
<1> QED
  BY <1>2, <1>3

\* What a call of cdrom_advance does to the visible INT.
Aged(s, t, n) ==
    \/ /\ t.irq = s.irq /\ t.of = s.of /\ t.wait = Minus(s.wait, n)
       /\ \/ t.latched = s.latched /\ t.istat = s.istat
          \/ t.wait = 0 /\ t.istat = TRUE
    \/ Arms(s, t)

\* One call of cdrom_advance: at most one new response, whose latency is whole.
LEMMA AdvanceOK ==
  ASSUME NEW s, Sound(s), NEW n \in Nat \ {0}, NEW c \in Chance, NEW t, t = cdrom_advance(s, n, c)
  PROVE  Sound(t) /\ Aged(s, t, n)
<1> DEFINE w == Minus(s.wait, n)
           s1 == [s EXCEPT !.wait = w]
           s2 == present_cdrom_irq(s1)
           s3 == try_execute_queued_command(s2, c)
           s4 == process_pending(s3, n)
           s5 == process_read_stream(s4, n, c)
           s6 == process_cdda_stream(s5, n, c)
<1>1. s \in Cd /\ PresentDelay \in Nat \ {0}
  BY CdRomAssumption DEF Sound, Good
<1>2. w \in 0 .. PresentDelay
  BY <1>1 DEF Cd, Minus
<1>3. t = present_cdrom_irq(s6)
  BY DEF cdrom_advance
<1> HIDE DEF w
<1>4. /\ Sound(s1) /\ s1.irq = s.irq /\ s1.of = s.of /\ s1.wait = w
      /\ s1.latched = s.latched /\ s1.istat = s.istat
  <2>1. /\ s1 \in Cd /\ s1.irq = s.irq /\ s1.of = s.of /\ s1.wait = w
        /\ s1.latched = s.latched /\ s1.istat = s.istat
        /\ s1.stat = s.stat /\ s1.reading = s.reading /\ s1.playing = s.playing
        /\ s1.end = s.end /\ s1.pended = s.pended /\ s1.pendedStat = s.pendedStat
        /\ s1.queued = s.queued
    BY <1>1, <1>2 DEF Cd
  <2> HIDE DEF s1
  <2> QED
    BY <2>1 DEF Sound, Good, Honest, PendedWaits, QueuedWaits
<1> HIDE DEF s1
<1>5. Sound(s2) /\ Presented(s1, s2)
  BY <1>4, PresentOK
<1> HIDE DEF s2
<1>6. Sound(s3) /\ Moves(s2, s3)
  BY <1>5, TryOK DEF Sound
<1> HIDE DEF s3
<1>7. Sound(s4) /\ Moves(s3, s4)
  BY <1>6, PendingOK
<1> HIDE DEF s4
<1>8. Sound(s5) /\ Moves(s4, s5)
  BY <1>7, ReadOK
<1> HIDE DEF s5
<1>9. Sound(s6) /\ Moves(s5, s6)
  BY <1>8, CddaOK
<1> HIDE DEF s6
<1>10. Sound(t) /\ Presented(s6, t)
  BY <1>3, <1>9, PresentOK
<1>11. Moves(s2, s6)
  BY <1>6, <1>7, <1>8, <1>9 DEF Moves, Quiet, Arms
<1>12. CASE Quiet(s2, s6)
  BY <1>4, <1>5, <1>10, <1>12 DEF Presented, Quiet, Aged, w
<1>13. CASE Arms(s2, s6)
  BY <1>1, <1>4, <1>5, <1>10, <1>13 DEF Presented, Arms, Aged
<1> QED
  BY <1>10, <1>11, <1>12, <1>13 DEF Moves

\* What a write to the flag register leaves of the INT, or a new one.
Acked(s, bits, t) ==
    \/ /\ t.irq = s.irq \ bits /\ t.wait = s.wait
       /\ bits = {} => t.latched = s.latched
    \/ t.irq # {} /\ t.latched = FALSE /\ t.wait = PresentDelay

\* Acknowledging releases what waits for it.
LEMMA AckOK ==
  ASSUME NEW s, Sound(s), NEW bits \in SUBSET (0 .. 2), NEW c \in Chance,
         NEW t, t = Acknowledged(s, bits, c)
  PROVE  Sound(t) /\ Acked(s, bits, t)
<1> DEFINE irq == s.irq \ bits
           l == s.latched /\ ~(s.irq # {} /\ irq = {})
           a == [s EXCEPT !.irq = irq, !.latched = l]
           b == present_pending_dataready(a)
<1>1. s \in Cd /\ Honest(s) /\ PendedWaits(s) /\ irq \in SUBSET (0 .. 2) /\ l \in BOOLEAN
  BY DEF Sound, Good, Cd
<1>2. t = try_execute_queued_command(b, c)
  BY DEF Acknowledged
<1>3. bits = {} => irq = s.irq /\ l = s.latched
  BY <1>1 DEF Cd
<1> HIDE DEF irq, l
<1>4. /\ a \in Cd /\ Honest(a) /\ (a.pended => a.pendedStat = a.stat /\ a.reading)
      /\ a.irq = irq /\ a.latched = l /\ a.wait = s.wait
  <2>1. /\ a \in Cd /\ a.irq = irq /\ a.latched = l /\ a.wait = s.wait
        /\ a.stat = s.stat /\ a.reading = s.reading /\ a.playing = s.playing
        /\ a.end = s.end /\ a.pended = s.pended /\ a.pendedStat = s.pendedStat
    BY <1>1 DEF Cd
  <2> HIDE DEF a
  <2> QED
    BY <1>1, <2>1 DEF Honest, PendedWaits
<1> HIDE DEF a
<1>5. Good(b) /\ (b = a \/ (b.irq # {} /\ b.latched = FALSE /\ b.wait = PresentDelay))
  <2>1. CASE ~a.pended \/ a.irq # {}
    BY <1>4, <2>1 DEF present_pending_dataready, Good, PendedWaits
  <2>2. CASE a.pended /\ a.irq = {}
    <3> DEFINE e == [a EXCEPT !.pended = FALSE]
    <3>1. /\ e \in Cd /\ e.stat = a.stat /\ e.reading = a.reading /\ e.playing = a.playing
          /\ e.end = a.end /\ e.pended = FALSE
      BY <1>4 DEF Cd
    <3>2. b = Respond(e, 1, "data")
      BY <2>2 DEF present_pending_dataready
    <3>3. 1 \in 1 .. 5 /\ "data" \in Answers
      BY DEF Answers
    <3> HIDE DEF e, b
    <3>4. Responded(e, b)
      BY <3>1, <3>2, <3>3, RespondOK
    <3> QED
      BY <1>4, <3>1, <3>4 DEF Responded, Good, Honest, PendedWaits
  <2> QED
    BY <2>1, <2>2
<1> HIDE DEF b
<1>6. Good(t) /\ QueuedWaits(t) /\ Moves(b, t)
  BY <1>2, <1>5, TryOK
<1> QED
  BY <1>3, <1>4, <1>5, <1>6 DEF Sound, Moves, Quiet, Arms, Acked, irq

\* A command runs, or is queued behind the visible INT.
LEMMA CommandOK ==
  ASSUME NEW s, Sound(s), NEW cmd \in Commands, NEW c \in Chance,
         NEW t, t = queue_or_exec_command(s, cmd, c)
  PROVE  Sound(t) /\ Moves(s, t)
<1>1. s \in Cd /\ Honest(s) /\ PendedWaits(s)
  BY DEF Sound, Good
<1>2. CASE s.irq = {}
  <2>1. ~s.pended
    BY <1>1, <1>2 DEF PendedWaits
  <2>2. t = exec_command(s, cmd, c)
    BY <1>2 DEF queue_or_exec_command
  <2>3. Good(t) /\ Arms(s, t)
    BY <1>1, <1>2, <2>1, <2>2, ExecOK
  <2> QED
    BY <2>3 DEF Sound, QueuedWaits, Arms, Moves
<1>3. CASE s.irq # {}
  <2>1. t = [s EXCEPT !.queued = cmd]
    BY <1>3 DEF queue_or_exec_command
  <2>2. /\ t \in Cd /\ Quiet(s, t)
        /\ t.stat = s.stat /\ t.reading = s.reading /\ t.playing = s.playing
        /\ t.end = s.end /\ t.pended = s.pended /\ t.pendedStat = s.pendedStat
    BY <1>1, <2>1 DEF Cd, Quiet
  <2> QED
    BY <1>1, <1>3, <2>2 DEF Sound, Good, Honest, PendedWaits, QueuedWaits, Moves, Quiet
<1> QED
  BY <1>2, <1>3

----------------------------------------------------------------------------
(* The invariant. *)

\* The invariant holds after cdrom_init.
LEMMA InitIInv == Init => IInv
<1> SUFFICES ASSUME Init PROVE IInv
  OBVIOUS
<1>1. session \in Session
  BY CdRomAssumption DEF Init
<1>2. cd \in Cd
  BY <1>1, CdRomAssumption DEF Init, Session, Cd, Status, NoPending
<1>3. TypeOK
  BY <1>2 DEF TypeOK, Init
<1> QED
  BY <1>3 DEF IInv, Init, Honest, PendedWaits, QueuedWaits, Handled, NoLostInterrupt

\* The invariant without TypeOK's other variables.
LEMMA IInvSound == IInv <=> TypeOK /\ Sound(cd) /\ Handled
BY DEF IInv, Sound, Good, TypeOK

\* Every step keeps the invariant and holds the visible INT until it is
\* acknowledged.
LEMMA NextIInv ==
  ASSUME IInv, [Next]_vars
  PROVE  /\ IInv'
         /\ cd.irq # {} /\ ~(guest.at = "read" /\ guest'.at = "acked")
              => cd'.irq = cd.irq /\ cd'.of = cd.of
<1> USE DEF NoLostInterrupt, Unpresented
<1>1. /\ TypeOK /\ Sound(cd) /\ Handled
      /\ cd \in Cd
      /\ guest \in [at : {"main", "read", "acked"}, seen : SUBSET (0 .. 2), cycles : Nat]
      /\ session \in Sessions /\ session \in Session
  BY IInvSound, CdRomAssumption DEF TypeOK
<1>2. PresentDelay \in Nat /\ HandlerCycles \in Nat /\ HandlerCycles < PresentDelay
  BY CdRomAssumption
<1>3. ASSUME NEW c \in Chance, NEW cmd \in session.commands, write_command(cmd, c)
      PROVE  /\ IInv'
             /\ cd.irq # {} => cd'.irq = cd.irq /\ cd'.of = cd.of
  <2>1. cmd \in Commands
    BY <1>1 DEF Session
  <2>2. Sound(cd') /\ Moves(cd, cd')
    BY <1>1, <1>3, <2>1, CommandOK DEF write_command
  <2>3. TypeOK'
    BY <1>1, <1>3, <2>2 DEF TypeOK, write_command, Sound, Good
  <2>4. Handled'
    BY <1>1, <1>2, <1>3, <2>2 DEF Handled, write_command, Moves, Quiet, Arms
  <2>5. IInv'
    BY <2>2, <2>3, <2>4 DEF IInv, Sound, Good
  <2> QED
    BY <2>2, <2>5 DEF Moves, Quiet, Arms
<1>4. ASSUME NEW c \in Chance, NEW n \in Charges, Advance(n, c)
      PROVE  /\ IInv'
             /\ cd.irq # {} => cd'.irq = cd.irq /\ cd'.of = cd.of
  <2>1. n \in Nat \ {0} /\ Latency \in Nat
    BY CdRomAssumption
  <2>2. Sound(cd') /\ Aged(cd, cd', n)
    BY <1>1, <1>4, <2>1, AdvanceOK DEF Advance
  <2>3. TypeOK'
    BY <1>1, <1>4, <2>1, <2>2 DEF TypeOK, Advance, Sound, Good
  <2>4. /\ guest'.at = guest.at /\ guest'.seen = guest.seen
        /\ guest.at # "main" => /\ guest'.cycles = guest.cycles + n
                                /\ guest'.cycles <= HandlerCycles
    BY <1>1, <1>4, <2>1 DEF Advance
  <2>5. cd.wait \in 0 .. PresentDelay
    BY <1>1 DEF Cd
  <2>6. guest.at # "main" /\ (cd.irq # {} => cd.latched = FALSE /\ cd.wait + guest.cycles >= PresentDelay)
          => (cd'.irq # {} => cd'.latched = FALSE /\ cd'.wait + guest'.cycles >= PresentDelay)
    BY <1>1, <1>2, <2>1, <2>2, <2>4, <2>5 DEF Aged, Minus, Arms
  <2>7. Handled'
    BY <1>1, <1>2, <2>2, <2>4, <2>6 DEF Handled, Aged, Arms
  <2>8. IInv'
    BY <2>2, <2>3, <2>7 DEF IInv, Sound, Good
  <2> QED
    BY <2>2, <2>8 DEF Aged, Arms
<1>5. ASSUME NEW c \in Chance, write_flag(c)
      PROVE  IInv' /\ guest.at = "read" /\ guest'.at = "acked"
  <2>0. guest.seen \in SUBSET (0 .. 2) /\ cd' = Acknowledged(cd, guest.seen, c)
    BY <1>1, <1>5 DEF write_flag
  <2>1. Sound(cd') /\ Acked(cd, guest.seen, cd')
    BY <1>1, <2>0, AckOK, Zenon
  <2>2. TypeOK'
    BY <1>1, <1>5, <2>1 DEF TypeOK, write_flag, Sound, Good
  <2>3. /\ guest.at = "read" /\ guest'.at = "acked" /\ guest'.seen = {}
        /\ guest'.cycles = guest.cycles
    BY <1>1, <1>5 DEF write_flag
  <2>4. CASE guest.seen # {}
    <3>1. cd.irq \ guest.seen = {}
      BY <1>1, <2>3, <2>4 DEF Handled
    <3>2. Handled'
      BY <1>1, <1>2, <2>1, <2>3, <3>1 DEF Handled, Acked
    <3> QED
      BY <2>1, <2>2, <2>3, <3>2 DEF IInv, Sound, Good
  <2>5. CASE guest.seen = {}
    <3>1. cd.irq \ guest.seen = cd.irq
      BY <2>5
    <3>2. Handled'
      BY <1>1, <1>2, <2>1, <2>3, <2>5, <3>1 DEF Handled, Acked
    <3> QED
      BY <2>1, <2>2, <2>3, <3>2 DEF IInv, Sound, Good
  <2> QED
    BY <2>4, <2>5
<1>6. ASSUME NEW mask \in session.masks, write_enable(mask)
      PROVE  IInv' /\ cd'.irq = cd.irq /\ cd'.of = cd.of
  <2>1. mask \in SUBSET (0 .. 4)
    BY <1>1 DEF Session
  <2>2. /\ cd' \in Cd /\ Quiet(cd, cd') /\ guest' = guest
        /\ cd'.stat = cd.stat /\ cd'.reading = cd.reading /\ cd'.playing = cd.playing
        /\ cd'.end = cd.end /\ cd'.pended = cd.pended /\ cd'.pendedStat = cd.pendedStat
        /\ cd'.queued = cd.queued
    BY <1>1, <1>6, <2>1 DEF write_enable, Cd, Quiet
  <2>3. TypeOK'
    BY <1>1, <1>6, <2>2 DEF TypeOK, write_enable
  <2> QED
    BY <2>2, <2>3 DEF IInv, Honest, PendedWaits, QueuedWaits, Quiet, Handled
<1>7. ASSUME NEW on \in session.dma, dma_transfer(on)
      PROVE  IInv' /\ cd'.irq = cd.irq /\ cd'.of = cd.of
  <2>1. on \in BOOLEAN
    BY <1>1 DEF Session
  <2>2. /\ cd' \in Cd /\ Quiet(cd, cd') /\ guest' = guest
        /\ cd'.stat = cd.stat /\ cd'.reading = cd.reading /\ cd'.playing = cd.playing
        /\ cd'.end = cd.end /\ cd'.pended = cd.pended /\ cd'.pendedStat = cd.pendedStat
        /\ cd'.queued = cd.queued
    BY <1>1, <1>7, <2>1 DEF dma_transfer, Cd, Quiet
  <2>3. TypeOK'
    BY <1>1, <1>7, <2>2 DEF TypeOK, dma_transfer
  <2> QED
    BY <2>2, <2>3 DEF IInv, Honest, PendedWaits, QueuedWaits, Quiet, Handled
<1>8. ASSUME read_flag
      PROVE  IInv' /\ cd' = cd
  <2>1. TypeOK'
    BY <1>1, <1>8 DEF TypeOK, read_flag, Cd
  <2>2. /\ cd' = cd /\ guest'.at = "read" /\ guest'.seen = cd.irq /\ guest'.cycles = 0
    BY <1>1, <1>8 DEF read_flag
  <2>3. Handled'
    BY <1>2, <2>2 DEF Handled
  <2> QED
    BY <1>1, <2>1, <2>2, <2>3 DEF IInv, Sound, Good, Honest, PendedWaits, QueuedWaits
<1>9. ASSUME clear_istat
      PROVE  IInv' /\ cd'.irq = cd.irq /\ cd'.of = cd.of
  <2>1. /\ cd' \in Cd /\ cd'.irq = cd.irq /\ cd'.of = cd.of /\ cd'.latched = cd.latched
        /\ cd'.stat = cd.stat /\ cd'.reading = cd.reading /\ cd'.playing = cd.playing
        /\ cd'.end = cd.end /\ cd'.pended = cd.pended /\ cd'.pendedStat = cd.pendedStat
        /\ cd'.queued = cd.queued
    BY <1>1, <1>9 DEF clear_istat, Cd
  <2>2. guest.at = "acked" /\ guest'.at = "main"
    BY <1>1, <1>9 DEF clear_istat
  <2>3. TypeOK'
    BY <1>1, <1>9, <2>1 DEF TypeOK, clear_istat
  <2>4. Handled'
    BY <1>1, <2>1, <2>2 DEF Handled
  <2> QED
    BY <1>1, <2>1, <2>3, <2>4 DEF IInv, Sound, Good, Honest, PendedWaits, QueuedWaits
<1>10. ASSUME UNCHANGED vars
       PROVE  IInv' /\ cd' = cd
  BY <1>10 DEF vars, IInv, TypeOK, Honest, PendedWaits, QueuedWaits, Handled
<1> QED
  BY <1>3, <1>4, <1>5, <1>6, <1>7, <1>8, <1>9, <1>10 DEF Next

\* The inductive invariant holds throughout.
THEOREM CdRomIInv == Spec => []IInv
BY InitIInv, NextIInv, PTL DEF Spec

\* The controller's state keeps its types, for every delay and every guest.
THEOREM CdRomTypeOK == Spec => []TypeOK
<1>1. IInv => TypeOK
  BY DEF IInv
<1> QED
  BY <1>1, CdRomIInv, PTL

\* Neither a queued command nor a pended data-ready ever waits without a visible
\* INT whose acknowledgement releases it.
THEOREM CdRomNothingStranded == Spec => []NothingStranded
<1>1. IInv => NothingStranded
  BY DEF IInv, NothingStranded, PendedWaits, QueuedWaits
<1> QED
  BY <1>1, CdRomIInv, PTL

\* A handler shorter than CDROM_IRQ_PRESENT_DELAY never clears the interrupt of
\* a later response, for every length of both.
THEOREM CdRomNoLostInterrupt == Spec => []NoLostInterrupt
<1>1. IInv => NoLostInterrupt
  BY DEF IInv, Handled
<1> QED
  BY <1>1, CdRomIInv, PTL

\* The drive is never reported reading or playing when it is not.
THEOREM CdRomStatusHonest == Spec => []StatusHonest
<1>1. IInv => StatusHonest
  BY DEF IInv, StatusHonest, Honest
<1> QED
  BY <1>1, CdRomIInv, PTL

\* No response is replaced before it is acknowledged.
THEOREM CdRomIntHeldUntilAck == Spec => IntHeldUntilAck
<1>1. IInv /\ [Next]_vars
        => [cd.irq # {} /\ ~(guest.at = "read" /\ guest'.at = "acked")
            => cd'.irq = cd.irq /\ cd'.of = cd.of]_vars
  BY NextIInv
<1> QED
  BY <1>1, CdRomIInv, PTL DEF Spec, IntHeldUntilAck
=============================================================================
