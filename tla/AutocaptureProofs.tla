-------------------------- MODULE AutocaptureProofs -------------------------
(***************************************************************************)
(* For every schedule of frames, threads and processes and every set of      *)
(* bounds: the busy state of the compiler is right, and in an undisturbed    *)
(* session no compiler reads a manifest that is being written, and no        *)
(* manifest is skipped as futile that no compiler has read.                  *)
(***************************************************************************)
EXTENDS Autocapture, TLAPS

\* What the two properties need of the types.
Types ==
    /\ children \in SUBSET [watched : BOOLEAN, got : Int, at : {"started", "compiling"}]
    /\ ac \in [state : {"IDLE", "RUNNING", "DONE"}, exit : {"none", "ok", "failed"}]
    /\ writer \in [state : {"idle", "writing", "complete"}, at : {"start", "open", "closed"},
                   text : Int, sig : Int]
    /\ file \in [text : Int, open : SUBSET {"writer", "dump"}, clash : BOOLEAN]
    /\ content \in Nat
    /\ mode \in Modes
    /\ spent \in [commands : Nat, restarts : Nat]

\* The file is whole but for the writer thread, which runs only while no compile
\* does; and every child is one that autocompile.c knows of.
WriterAlone ==
    Undisturbed =>
      /\ emu # "dumping"
      /\ file.clash = FALSE
      /\ file.open = IF writer.state = "writing" /\ writer.at = "open" THEN {"writer"} ELSE {}
      /\ file.open = {} => file.text # Torn
      /\ writer.state = "writing" => writer.text # Torn
      /\ writer.state # "idle" => ac.state # "RUNNING"
      /\ \A c \in children : c.watched /\ c.got # Torn

IInv == Types /\ RunningIsWatched /\ WriterAlone

----------------------------------------------------------------------------

\* The invariant holds when the program starts.
LEMMA InitIInv == Init => IInv
BY AutocaptureAssumption
   DEF Init, IInv, Types, RunningIsWatched, WriterAlone, NoJob, Written, Missing, Torn

\* A request: the state becomes busy exactly with a watched child.
LEMMA RequestOK ==
  ASSUME Types, RunningIsWatched, NEW outcome \in Spawn, Request(outcome)
  PROVE  /\ children' \in SUBSET [watched : BOOLEAN, got : Int, at : {"started", "compiling"}]
         /\ ac' \in [state : {"IDLE", "RUNNING", "DONE"}, exit : {"none", "ok", "failed"}]
         /\ ~mode.fail => /\ ac'.state = "RUNNING" <=> \E c \in children' : c.watched
                          /\ \A c, d \in children' : c.watched /\ d.watched => c = d
         /\ ~mode.fail => \A c \in children' : c \in children \/ (c.watched /\ c.got = 0)
<1> DEFINE new == Child(outcome = "ok")
<1>1. /\ new \in [watched : BOOLEAN, got : Int, at : {"started", "compiling"}]
      /\ new.watched = (outcome = "ok") /\ new.got = 0
  BY DEF Child
<1>2. CASE ac.state = "RUNNING"
  BY <1>2 DEF Request, Types, RunningIsWatched
<1>3. CASE ac.state # "RUNNING"
  <2>1. /\ children' = IF outcome = "no process" THEN children ELSE children \cup {new}
        /\ ac' = IF outcome \in {"ok", "no thread"} THEN [ac EXCEPT !.state = "RUNNING"] ELSE ac
    BY <1>3 DEF Request
  <2>2. ac' \in [state : {"IDLE", "RUNNING", "DONE"}, exit : {"none", "ok", "failed"}]
    BY <2>1 DEF Types
  <2>3. ASSUME ~mode.fail
        PROVE  /\ outcome = "ok" /\ children' = children \cup {new} /\ ac'.state = "RUNNING"
               /\ \A c \in children : ~c.watched
    BY <1>3, <2>1, <2>3 DEF Spawn, Types, RunningIsWatched
  <2> HIDE DEF new
  <2> QED
    BY <1>1, <2>1, <2>2, <2>3 DEF Types
<1> QED
  BY <1>2, <1>3

\* Opening the manifest for writing keeps its type.
LEMMA OpenedType ==
    ASSUME NEW f \in [text : Int, open : SUBSET {"writer", "dump"}, clash : BOOLEAN],
           NEW who \in {"writer", "dump"}
    PROVE  Opened(f, who) \in [text : Int, open : SUBSET {"writer", "dump"}, clash : BOOLEAN]
<1> DEFINE open == f.open \cup {who}
           clash == f.clash \/ f.open # {}
<1>1. open \in SUBSET {"writer", "dump"}
  OBVIOUS
<1>2. clash \in BOOLEAN
  OBVIOUS
<1>3. Opened(f, who) = [f EXCEPT !.open = open, !.clash = clash, !.text = Torn]
  BY DEF Opened
<1>4. Torn \in Int
  BY DEF Torn
<1> HIDE DEF open, clash
<1> QED
  BY <1>1, <1>2, <1>3, <1>4

\* Every step keeps the invariant.
LEMMA NextIInv == IInv /\ [Next]_vars => IInv'
<1> SUFFICES ASSUME IInv, [Next]_vars PROVE IInv'
  OBVIOUS
<1> USE DEF IInv
<1>1. CASE frame
  BY <1>1 DEF frame, Types, RunningIsWatched, WriterAlone, Undisturbed
<1>2. CASE tick_apply
  <2>1. /\ writer' = NoJob /\ emu' = "poll" /\ writer.state = "complete"
        /\ UNCHANGED <<content, file, spent, mode>>
    BY <1>2 DEF tick_apply
  <2>2. NoJob \in [state : {"idle", "writing", "complete"}, at : {"start", "open", "closed"},
                   text : Int, sig : Int] /\ NoJob.state = "idle"
    BY DEF NoJob
  <2>3. CASE UNCHANGED <<ac, children>>
    BY <2>1, <2>2, <2>3 DEF Types, RunningIsWatched, WriterAlone, Undisturbed, Torn
  <2>4. ASSUME NEW outcome \in Spawn, Request(outcome) PROVE IInv'
    <3>1. /\ children' \in SUBSET [watched : BOOLEAN, got : Int, at : {"started", "compiling"}]
          /\ ac' \in [state : {"IDLE", "RUNNING", "DONE"}, exit : {"none", "ok", "failed"}]
          /\ ~mode.fail => /\ ac'.state = "RUNNING" <=> \E c \in children' : c.watched
                           /\ \A c, d \in children' : c.watched /\ d.watched => c = d
          /\ ~mode.fail => \A c \in children' : c \in children \/ (c.watched /\ c.got = 0)
      BY <2>4, RequestOK
    <3>2. Types'
      BY <2>1, <2>2, <3>1 DEF Types
    <3>3. RunningIsWatched'
      BY <2>1, <3>1 DEF RunningIsWatched
    <3>4. WriterAlone'
      BY <2>1, <2>2, <3>1 DEF WriterAlone, Undisturbed, Torn
    <3> QED
      BY <3>2, <3>3, <3>4
  <2> QED
    BY <1>2, <2>3, <2>4 DEF tick_apply
<1>3. CASE tick_check
  <2>1. /\ UNCHANGED <<content, file, ac, children, spent, mode>> /\ emu' = "poll"
        /\ \/ writer' = writer
           \/ /\ ac.state # "RUNNING" /\ writer.state = "idle"
              /\ writer' = [NoJob EXCEPT !.state = "writing", !.text = content]
    BY <1>3 DEF tick_check, MayCapture
  <2>2. CASE writer' = writer
    BY <2>1, <2>2 DEF Types, RunningIsWatched, WriterAlone, Undisturbed
  <2>3. CASE /\ ac.state # "RUNNING" /\ writer.state = "idle"
             /\ writer' = [NoJob EXCEPT !.state = "writing", !.text = content]
    <3>1. /\ writer' \in [state : {"idle", "writing", "complete"}, at : {"start", "open", "closed"},
                          text : Int, sig : Int]
          /\ writer'.state = "writing" /\ writer'.at = "start" /\ writer'.text = content
      <4>1. content \in Int
        BY DEF Types
      <4>2. writer' = [state |-> "writing", at |-> "start", text |-> content, sig |-> 0]
        BY <2>3 DEF NoJob
      <4> QED
        BY <4>1, <4>2
    <3> QED
      BY <2>1, <2>3, <3>1 DEF Types, RunningIsWatched, WriterAlone, Undisturbed, Torn
  <2> QED
    BY <2>1, <2>2, <2>3
<1>4. CASE autocompile_poll_main
  BY <1>4 DEF autocompile_poll_main, Types, RunningIsWatched, WriterAlone, Undisturbed
<1>5. CASE dump_end
  <2>1. Closed(file, "dump", content) \in [text : Int, open : SUBSET {"writer", "dump"},
                                           clash : BOOLEAN]
    BY DEF Closed, Types, Torn
  <2> QED
    BY <1>5, <2>1 DEF dump_end, Types, RunningIsWatched, WriterAlone, Undisturbed
<1>6. CASE write_open
  <2>1. Opened(file, "writer") \in [text : Int, open : SUBSET {"writer", "dump"}, clash : BOOLEAN]
    BY OpenedType DEF Types
  <2>2. CASE writer' = [writer EXCEPT !.at = "open"] /\ file' = Opened(file, "writer")
    <3>1. Types'
      BY <1>6, <2>1, <2>2 DEF write_open, Types
    <3>2. /\ writer'.state = "writing" /\ writer'.at = "open" /\ writer'.text = writer.text
          /\ writer.state = "writing" /\ writer.at = "start"
      BY <1>6, <2>2 DEF write_open, Types
    <3>3. Undisturbed => file'.clash = FALSE /\ file'.open = {"writer"}
      BY <1>6, <2>2, <3>2 DEF Opened, WriterAlone, Types, Undisturbed
    <3> QED
      BY <1>6, <3>1, <3>2, <3>3 DEF write_open, RunningIsWatched, WriterAlone, Undisturbed
  <2>3. CASE writer' = [writer EXCEPT !.state = "complete"] /\ UNCHANGED file
    BY <1>6, <2>3 DEF write_open, Types, RunningIsWatched, WriterAlone, Undisturbed
  <2> QED
    BY <1>6, <2>2, <2>3 DEF write_open
<1>7. CASE write_close
  <2>1. /\ writer' = [writer EXCEPT !.at = "closed"] /\ file' = Closed(file, "writer", writer.text)
        /\ writer.state = "writing" /\ writer.at = "open"
        /\ UNCHANGED <<emu, content, ac, children, spent, mode>>
    BY <1>7 DEF write_close
  <2>2. file' \in [text : Int, open : SUBSET {"writer", "dump"}, clash : BOOLEAN]
    BY <2>1 DEF Closed, Types, Torn
  <2>3. /\ writer' \in [state : {"idle", "writing", "complete"}, at : {"start", "open", "closed"},
                        text : Int, sig : Int]
        /\ writer'.state = "writing" /\ writer'.at = "closed" /\ writer'.text = writer.text
    BY <2>1 DEF Types
  <2>4. Undisturbed => file'.clash = FALSE /\ file'.open = {} /\ file'.text = writer.text
    BY <2>1 DEF Closed, WriterAlone, Types
  <2> QED
    BY <2>1, <2>2, <2>3, <2>4 DEF Types, RunningIsWatched, WriterAlone, Undisturbed
<1>8. CASE write_hash
  <2>1. autocap_manifest_sig(file) \in Int
    BY DEF autocap_manifest_sig, Types, Torn
  <2> QED
    BY <1>8, <2>1 DEF write_hash, Types, RunningIsWatched, WriterAlone, Undisturbed
<1>9. ASSUME NEW c \in children, child_read(c) PROVE IInv'
  <2> DEFINE got == autocap_manifest_sig(file)
             e == [c EXCEPT !.got = got, !.at = "compiling"]
  <2>1. got \in Int
    BY DEF autocap_manifest_sig, Types, Torn
  <2>2. /\ children' = (children \ {c}) \cup {e}
        /\ UNCHANGED <<emu, content, writer, file, ac, spent, mode>>
    BY <1>9 DEF child_read
  <2> HIDE DEF got
  <2>3. /\ e \in [watched : BOOLEAN, got : Int, at : {"started", "compiling"}]
        /\ e.watched = c.watched /\ e.got = got
    BY <2>1 DEF Types
  <2> HIDE DEF e
  <2>4. Types'
    BY <2>2, <2>3 DEF Types
  <2>5. RunningIsWatched'
    BY <2>2, <2>3 DEF RunningIsWatched
  <2>6. WriterAlone'
    <3> SUFFICES ASSUME Undisturbed PROVE WriterAlone'
      BY <2>2 DEF WriterAlone, Undisturbed
    <3>1. ac.state = "RUNNING"
      BY DEF RunningIsWatched, WriterAlone, Undisturbed
    <3>2. file.open = {} /\ file.text # Torn
      BY <3>1 DEF WriterAlone
    <3>3. got # Torn
      BY <3>2 DEF got, autocap_manifest_sig
    <3> QED
      BY <2>2, <2>3, <3>3 DEF WriterAlone, Undisturbed
  <2> QED
    BY <2>4, <2>5, <2>6
<1>10. ASSUME NEW c \in children, NEW ok \in BOOLEAN, child_end(c, ok) PROVE IInv'
  <2>1. /\ children' = children \ {c}
        /\ ac' = IF c.watched THEN [state |-> "DONE", exit |-> IF ok THEN "ok" ELSE "failed"] ELSE ac
        /\ UNCHANGED <<emu, content, writer, file, spent, mode>>
    BY <1>10 DEF child_end
  <2>2. Types'
    BY <2>1 DEF Types
  <2>3. RunningIsWatched'
    BY <2>1 DEF RunningIsWatched, Types
  <2>4. WriterAlone'
    BY <2>1 DEF WriterAlone, Undisturbed
  <2> QED
    BY <2>2, <2>3, <2>4
<1>11. CASE autocompile_run
  <2>1. PICK outcome \in Spawn : Request(outcome)
    BY <1>11 DEF autocompile_run
  <2>2. /\ children' \in SUBSET [watched : BOOLEAN, got : Int, at : {"started", "compiling"}]
        /\ ac' \in [state : {"IDLE", "RUNNING", "DONE"}, exit : {"none", "ok", "failed"}]
        /\ ~mode.fail => /\ ac'.state = "RUNNING" <=> \E c \in children' : c.watched
                         /\ \A c, d \in children' : c.watched /\ d.watched => c = d
    BY <2>1, RequestOK
  <2>3. /\ UNCHANGED <<emu, content, writer, file, mode>>
        /\ spent' \in [commands : Nat, restarts : Nat] /\ spent'.commands # 0
    BY <1>11 DEF autocompile_run, Command, Types
  <2> QED
    BY <2>2, <2>3 DEF Types, RunningIsWatched, WriterAlone, Undisturbed
<1>12. CASE overlay_rescan \/ overlay_capture_dump
  <2>1. Opened(file, "dump") \in [text : Int, open : SUBSET {"writer", "dump"}, clash : BOOLEAN]
    BY OpenedType DEF Types
  <2>2. /\ UNCHANGED <<content, writer, ac, children, mode>>
        /\ file' \in [text : Int, open : SUBSET {"writer", "dump"}, clash : BOOLEAN]
        /\ spent' \in [commands : Nat, restarts : Nat] /\ spent'.commands # 0
    BY <1>12, <2>1 DEF overlay_rescan, overlay_capture_dump, Command, Types
  <2> QED
    BY <2>2 DEF Types, RunningIsWatched, WriterAlone, Undisturbed
<1>13. CASE overlay_capture_on_dma \/ Scene \/ overlay_loader_dispatch
  <2>1. /\ UNCHANGED <<emu, writer, file, ac, children, mode>> /\ content' \in Nat
        /\ spent' = spent
    BY <1>13 DEF overlay_capture_on_dma, Scene, overlay_loader_dispatch, Types
  <2> QED
    BY <2>1 DEF Types, RunningIsWatched, WriterAlone, Undisturbed
<1>14. CASE Restart
  <2>1. PICK quits \in BOOLEAN :
          file' = Written(CASE file.open # {} -> Torn
                            [] file.open = {} /\ quits /\ content > 0 -> content
                            [] OTHER -> file.text)
    BY <1>14 DEF Restart
  <2>2. file' \in [text : Int, open : SUBSET {"writer", "dump"}, clash : BOOLEAN]
    BY <2>1 DEF Written, Types, Torn
  <2>3. /\ content' = 0 /\ writer' = NoJob /\ mode' = mode
        /\ ac' = [state |-> "IDLE", exit |-> "none"]
        /\ children' = {[c EXCEPT !.watched = FALSE] : c \in children}
        /\ spent' = [spent EXCEPT !.restarts = spent.restarts + 1]
    BY <1>14 DEF Restart
  <2>4. /\ children' \in SUBSET [watched : BOOLEAN, got : Int, at : {"started", "compiling"}]
        /\ \A c \in children' : ~c.watched
    <3> SUFFICES ASSUME NEW c \in children'
                 PROVE  /\ c \in [watched : BOOLEAN, got : Int, at : {"started", "compiling"}]
                        /\ ~c.watched
      OBVIOUS
    <3>1. PICK d \in children : c = [d EXCEPT !.watched = FALSE]
      BY <2>3
    <3>2. d \in [watched : BOOLEAN, got : Int, at : {"started", "compiling"}]
      BY DEF Types
    <3> QED
      BY <3>1, <3>2
  <2>5. spent' \in [commands : Nat, restarts : Nat] /\ spent'.restarts # 0
    BY <2>3 DEF Types
  <2>6. Types'
    BY <2>2, <2>3, <2>4, <2>5 DEF Types, NoJob
  <2> QED
    BY <2>3, <2>4, <2>5, <2>6 DEF RunningIsWatched, WriterAlone, Undisturbed
<1>15. CASE UNCHANGED vars
  BY <1>15 DEF vars, Types, RunningIsWatched, WriterAlone, Undisturbed
<1> QED
  BY <1>1, <1>2, <1>3, <1>4, <1>5, <1>6, <1>7, <1>8, <1>9, <1>10, <1>11, <1>12, <1>13, <1>14, <1>15
     DEF Next, Emulation, WriterThread, Compiler

\* The busy flag of autocompile.c is right in every reachable state: a compile is
\* said to run exactly while a watched process exists, and there is at most one.
THEOREM CaptureRunningIsWatched == Spec => []RunningIsWatched
BY InitIInv, NextIInv, PTL DEF Spec, IInv

\* In an undisturbed session no compiler runs while the writer thread has the
\* manifest, and none has read half of one.
THEOREM CaptureCompilerReadsWhole == Spec => []CompilerReadsWhole
<1>1. IInv => CompilerReadsWhole
  BY DEF IInv, CompilerReadsWhole, WriterAlone, RunningIsWatched, Undisturbed
<1> QED
  BY <1>1, InitIInv, NextIInv, PTL DEF Spec
----------------------------------------------------------------------------
(* Futility. *)

CapSet == [check_in : Int, ok_in : Int, sig : Int, reg : Int, backoff : Nat \ {0}, seeded : BOOLEAN]

MoreTypes == cap \in CapSet /\ tried \in Int /\ cache \in Int /\ indexed \in Int /\ valid \in Int

\* The manifest of the last request was read by a compiler, or the compiler of
\* that request has still to read it and finds it unchanged; a capture that is
\* complete reports the manifest on disk.
RequestRead ==
    Undisturbed =>
      /\ cap.sig = 0 \/ tried >= cap.sig \/ \E c \in children : c.at = "started"
      /\ (\E c \in children : c.at = "started") => file.text = cap.sig
      /\ writer.state = "complete" => writer.sig = file.text

TInv == MoreTypes /\ RequestRead

\* With no compile in flight an undisturbed session has no compiler at all.
LEMMA NoneInFlight ==
    ASSUME IInv, Undisturbed, ac.state # "RUNNING"
    PROVE  children = {}
BY DEF IInv, RunningIsWatched, WriterAlone, Undisturbed

\* While a compiler runs, the manifest is closed and nobody writes it.
LEMMA ManifestAtRest ==
    ASSUME IInv, Undisturbed, NEW c \in children
    PROVE  writer.state = "idle" /\ file.open = {} /\ ac.state = "RUNNING"
<1>1. c.watched
  BY DEF IInv, WriterAlone
<1>2. ac.state = "RUNNING"
  BY <1>1 DEF IInv, RunningIsWatched, Undisturbed
<1>3. writer.state = "idle"
  BY <1>2 DEF IInv, WriterAlone
<1>4. file.open = {}
  BY <1>3 DEF IInv, WriterAlone
<1> QED BY <1>2, <1>3, <1>4

\* When a capture turns out to be futile, a compiler has read its manifest.
LEMMA FutileRead ==
    ASSUME IInv, TInv, Undisturbed, writer.state = "complete", writer.sig # 0, Futile(writer.sig)
    PROVE  tried >= writer.sig
<1>1. ac.state # "RUNNING"
  BY DEF IInv, WriterAlone
<1>2. children = {}
  BY <1>1, NoneInFlight
<1> QED BY <1>2 DEF TInv, RequestRead, Futile

\* The first state.
LEMMA InitTInv == Init => TInv
<1> SUFFICES ASSUME Init PROVE TInv
  OBVIOUS
<1>1. cap = [check_in |-> CheckFrames, ok_in |-> 0, sig |-> 0, reg |-> -1,
             backoff |-> 1, seeded |-> FALSE]
  BY DEF Init, Enabled, autocap_manifest_sig, Written, Missing
<1>2. CheckFrames \in Int
  BY AutocaptureAssumption
<1>3. cap \in CapSet /\ cap.sig = 0
  BY <1>1, <1>2 DEF CapSet
<1> QED BY <1>3 DEF Init, TInv, MoreTypes, RequestRead, NoJob

\* A request for a manifest that is on disk leaves a compiler that will read it.
LEMMA RequestReads ==
    ASSUME IInv, Undisturbed, ac.state # "RUNNING", NEW outcome \in Spawn, Request(outcome)
    PROVE  \E c \in children' : c.at = "started"
<1>1. outcome = "ok"
  BY DEF Spawn, Undisturbed
<1>2. children' = children \cup {Child(TRUE)}
  BY <1>1 DEF Request
<1>3. Child(TRUE).at = "started"
  BY DEF Child
<1> QED BY <1>2, <1>3

\* Every step keeps the invariant, and lets the backoff grow only over a
\* manifest that a compiler has read.
LEMMA NextTInv ==
    ASSUME IInv, TInv, [Next]_vars
    PROVE  TInv' /\ (Undisturbed /\ cap'.backoff > cap.backoff => tried >= writer.sig)
<1> DEFINE Goal == TInv' /\ (Undisturbed /\ cap'.backoff > cap.backoff => tried >= writer.sig)
<1>0. /\ cap \in CapSet /\ tried \in Int /\ cache \in Int /\ indexed \in Int /\ valid \in Int
      /\ cap.backoff \in Nat \ {0} /\ cap.sig \in Int
      /\ children \in SUBSET [watched : BOOLEAN, got : Int, at : {"started", "compiling"}]
      /\ writer \in [state : {"idle", "writing", "complete"}, at : {"start", "open", "closed"},
                     text : Int, sig : Int]
      /\ file \in [text : Int, open : SUBSET {"writer", "dump"}, clash : BOOLEAN]
      /\ CheckFrames \in Int /\ CooldownFrames \in Nat /\ CooldownFrames \in Int
  BY AutocaptureAssumption DEF TInv, MoreTypes, CapSet, IInv, Types
<1>1. ASSUME cap' = cap, MoreTypes', RequestRead' PROVE Goal
  BY <1>0, <1>1 DEF TInv
<1>2. CASE frame
  <2>1. Less(cap.check_in) \in Int /\ Less(cap.ok_in) \in Int
    BY <1>0 DEF Less, CapSet
  <2>2. cap' = [cap EXCEPT !.check_in = Less(cap.check_in), !.ok_in = Less(cap.ok_in)]
    BY <1>2 DEF frame
  <2> DEFINE a == Less(cap.check_in)
             b == Less(cap.ok_in)
  <2> HIDE DEF a, b
  <2>3. cap' \in CapSet /\ cap'.sig = cap.sig /\ cap'.backoff = cap.backoff
    <3>1. a \in Int /\ b \in Int /\ cap' = [cap EXCEPT !.check_in = a, !.ok_in = b]
      BY <2>1, <2>2 DEF a, b
    <3> QED BY <1>0, <3>1 DEF CapSet
  <2>4. RequestRead'
    BY <1>2, <2>3 DEF frame, TInv, RequestRead, Undisturbed
  <2>5. MoreTypes'
    BY <1>0, <1>2, <2>3 DEF frame, MoreTypes
  <2> QED BY <1>0, <2>3, <2>4, <2>5 DEF TInv
<1>3. CASE tick_apply
  <2> DEFINE sig == writer.sig
  <2>0. /\ writer.state = "complete" /\ writer' = NoJob
        /\ UNCHANGED <<file, cache, indexed, valid, tried, spent, mode>>
    BY <1>3 DEF tick_apply
  <2>1. sig \in Int /\ Backoff \in Nat \ {0} /\ NoJob.state = "idle"
    BY <1>0 DEF Backoff, NoJob
  <2>2. CASE /\ sig # 0 /\ Futile(sig)
             /\ cap' = [cap EXCEPT !.reg = valid, !.seeded = FALSE, !.backoff = Backoff,
                                   !.ok_in = CooldownFrames * Backoff]
             /\ UNCHANGED <<ac, children>>
    <3> DEFINE w == CooldownFrames * Backoff
    <3>1. w \in Int
      BY <1>0, <2>1
    <3> HIDE DEF w
    <3>2. cap' = [cap EXCEPT !.reg = valid, !.seeded = FALSE, !.backoff = Backoff, !.ok_in = w]
      BY <2>2 DEF w
    <3>3. cap' \in CapSet /\ cap'.sig = cap.sig
      BY <1>0, <2>1, <3>1, <3>2 DEF CapSet
    <3>4. MoreTypes' /\ RequestRead'
      BY <1>0, <2>0, <2>1, <2>2, <3>3 DEF TInv, MoreTypes, RequestRead, Undisturbed
    <3> QED BY <2>0, <2>2, <3>4, FutileRead DEF TInv
  <2>3. CASE /\ sig # 0 /\ ~Futile(sig)
             /\ cap' = [cap EXCEPT !.sig = sig, !.reg = valid, !.seeded = FALSE, !.backoff = 1]
             /\ \E outcome \in Spawn : Request(outcome)
    <3> HIDE DEF sig
    <3>1. cap' \in CapSet /\ cap'.sig = sig /\ cap'.backoff = 1
      <4> DEFINE one == 1
      <4>1. one \in Nat \ {0}
        OBVIOUS
      <4>2. cap' = [cap EXCEPT !.sig = sig, !.reg = valid, !.seeded = FALSE, !.backoff = one]
        BY <2>3
      <4> HIDE DEF one
      <4>3. cap' \in CapSet /\ cap'.sig = sig /\ cap'.backoff = one
        BY <1>0, <2>1, <4>1, <4>2 DEF CapSet
      <4> QED BY <4>3 DEF one
    <3>2. Undisturbed => \E c \in children' : c.at = "started"
      <4>1. Undisturbed => ac.state # "RUNNING"
        BY <2>0 DEF IInv, WriterAlone
      <4> QED BY <2>3, <4>1, RequestReads
    <3>3. Undisturbed => sig = file.text
      BY <2>0 DEF TInv, RequestRead, sig
    <3>4. RequestRead'
      BY <2>0, <2>1, <3>1, <3>2, <3>3 DEF RequestRead, Undisturbed
    <3>5. MoreTypes'
      BY <1>0, <2>0, <3>1 DEF MoreTypes
    <3>6. ~ (1 > cap.backoff)
      BY <1>0
    <3> QED BY <3>1, <3>4, <3>5, <3>6 DEF TInv
  <2>4. CASE UNCHANGED <<cap, ac, children>>
    BY <1>0, <1>1, <2>0, <2>1, <2>4 DEF TInv, MoreTypes, RequestRead, Undisturbed
  <2> QED BY <1>3, <2>2, <2>3, <2>4 DEF tick_apply
<1>4. CASE tick_check
  <2>0. /\ writer.state # "complete"
        /\ UNCHANGED <<file, ac, children, cache, indexed, valid, tried, spent, mode>>
    BY <1>4 DEF tick_check
  <2>1. writer'.state # "complete"
    BY <1>4, <2>0 DEF tick_check, NoJob
  <2>2. \/ cap' = cap
        \/ \E b \in Int : cap' = [cap EXCEPT !.check_in = CheckFrames, !.ok_in = b]
    <3> DEFINE b == IF MayCapture THEN CooldownFrames ELSE cap.ok_in
    <3>1. b \in Int
      BY <1>0 DEF CapSet
    <3>2. cap' = cap \/ cap' = [cap EXCEPT !.check_in = CheckFrames, !.ok_in = b]
      BY <1>4 DEF tick_check
    <3> HIDE DEF b
    <3> QED BY <3>1, <3>2
  <2>3. cap' \in CapSet /\ cap'.sig = cap.sig /\ cap'.backoff = cap.backoff
    <3>1. CASE cap' = cap
      BY <1>0, <3>1
    <3>2. CASE \E b \in Int : cap' = [cap EXCEPT !.check_in = CheckFrames, !.ok_in = b]
      <4>1. PICK a \in Int : a = CheckFrames
        BY <1>0
      <4>2. PICK b \in Int : cap' = [cap EXCEPT !.check_in = a, !.ok_in = b]
        BY <3>2, <4>1
      <4> QED BY <1>0, <4>2 DEF CapSet
    <3> QED BY <2>2, <3>1, <3>2
  <2>4. MoreTypes' /\ RequestRead'
    BY <1>0, <2>0, <2>1, <2>3 DEF TInv, MoreTypes, RequestRead, Undisturbed
  <2> QED BY <1>0, <2>3, <2>4 DEF TInv
<1>5. CASE autocompile_poll_main
  <2>1. MoreTypes'
    BY <1>0, <1>5 DEF autocompile_poll_main, Applied, Scanned, MoreTypes
  <2>2. RequestRead'
    BY <1>5 DEF autocompile_poll_main, TInv, RequestRead, Undisturbed
  <2> QED BY <1>1, <1>5, <2>1, <2>2 DEF autocompile_poll_main
<1>6. CASE dump_end
  <2>1. ~Undisturbed'
    BY <1>6 DEF dump_end, IInv, WriterAlone, Undisturbed
  <2> QED BY <1>0, <1>1, <1>6, <2>1 DEF dump_end, MoreTypes, RequestRead
<1>7. CASE write_open
  <2>1. UNCHANGED <<cap, children, cache, indexed, valid, tried, spent, mode>>
    BY <1>7 DEF write_open
  <2>2. Undisturbed => writer'.state = "writing" /\ children = {}
    <3> SUFFICES ASSUME Undisturbed PROVE writer'.state = "writing" /\ children = {}
      OBVIOUS
    <3>1. writer' = [writer EXCEPT !.at = "open"] /\ writer.state = "writing"
      BY <1>7 DEF write_open, Undisturbed
    <3>2. ac.state # "RUNNING"
      BY <3>1 DEF IInv, WriterAlone
    <3> QED BY <1>0, <3>1, <3>2, NoneInFlight
  <2> QED BY <1>0, <1>1, <2>1, <2>2 DEF TInv, MoreTypes, RequestRead, Undisturbed
<1>8. CASE write_close
  <2>1. UNCHANGED <<cap, children, cache, indexed, valid, tried, spent, mode>>
    BY <1>8 DEF write_close
  <2>2. Undisturbed => writer'.state = "writing" /\ children = {}
    <3> SUFFICES ASSUME Undisturbed PROVE writer'.state = "writing" /\ children = {}
      OBVIOUS
    <3>1. writer' = [writer EXCEPT !.at = "closed"] /\ writer.state = "writing"
      BY <1>8 DEF write_close
    <3>2. ac.state # "RUNNING"
      BY <3>1 DEF IInv, WriterAlone
    <3> QED BY <1>0, <3>1, <3>2, NoneInFlight
  <2> QED BY <1>0, <1>1, <2>1, <2>2 DEF TInv, MoreTypes, RequestRead, Undisturbed
<1>9. CASE write_hash
  <2>1. UNCHANGED <<cap, file, children, cache, indexed, valid, tried, spent, mode>>
    BY <1>9 DEF write_hash
  <2>2. Undisturbed => writer'.sig = file.text
    <3> SUFFICES ASSUME Undisturbed PROVE writer'.sig = file.text
      OBVIOUS
    <3>1. file.open = {}
      BY <1>9 DEF write_hash, IInv, WriterAlone
    <3> QED BY <1>0, <1>9, <3>1 DEF write_hash, autocap_manifest_sig
  <2> QED BY <1>0, <1>1, <2>1, <2>2 DEF TInv, MoreTypes, RequestRead, Undisturbed
<1>10. ASSUME NEW c \in children, child_read(c) PROVE Goal
  <2> DEFINE got == autocap_manifest_sig(file)
  <2>1. /\ UNCHANGED <<cap, writer, file, cache, indexed, valid, spent, mode>> /\ c.at = "started"
        /\ tried' = Largest(tried, got)
        /\ children' = (children \ {c}) \cup {[c EXCEPT !.got = got, !.at = "compiling"]}
    BY <1>10 DEF child_read
  <2>2. got \in Int
    BY <1>0 DEF autocap_manifest_sig, Torn
  <2>3. Undisturbed => got = cap.sig
    <3> SUFFICES ASSUME Undisturbed PROVE got = cap.sig
      OBVIOUS
    <3>1. file.open = {}
      BY ManifestAtRest
    <3> QED BY <2>1, <3>1 DEF autocap_manifest_sig, TInv, RequestRead
  <2>4. Undisturbed => writer.state # "complete"
    BY ManifestAtRest
  <2>5. \A x \in children' : x.at = "started" => x \in children
    BY <1>0, <2>1
  <2> HIDE DEF got
  <2>6. tried' \in Int /\ tried' >= got
    BY <1>0, <2>1, <2>2 DEF Largest
  <2>7. RequestRead'
    BY <2>1, <2>3, <2>4, <2>5, <2>6 DEF TInv, RequestRead, Undisturbed
  <2> QED BY <1>0, <1>1, <2>1, <2>6, <2>7 DEF MoreTypes
<1>11. ASSUME NEW c \in children, NEW ok \in BOOLEAN, child_end(c, ok) PROVE Goal
  <2>1. /\ UNCHANGED <<cap, writer, file, indexed, valid, tried, spent, mode>> /\ c.at = "compiling"
        /\ children' = children \ {c}
        /\ cache' = IF ok THEN Largest(cache, Smallest(c.got, Convertible)) ELSE cache
    BY <1>11 DEF child_end
  <2>2. cache' \in Int
    <3>1. c.got \in Int /\ Convertible \in Int
      BY <1>0, AutocaptureAssumption
    <3> QED BY <1>0, <2>1, <3>1 DEF Largest, Smallest
  <2>3. RequestRead'
    BY <2>1 DEF TInv, RequestRead, Undisturbed
  <2> QED BY <1>0, <1>1, <2>1, <2>2, <2>3 DEF MoreTypes
<1>12. CASE autocompile_run \/ overlay_rescan \/ overlay_capture_dump
  <2>1. Command /\ UNCHANGED <<cap, cache, valid, tried, mode>> /\ indexed' \in Int
    BY <1>0, <1>12 DEF autocompile_run, overlay_rescan, overlay_capture_dump, Scanned
  <2>2. ~Undisturbed'
    <3>1. spent'.commands = spent.commands + 1 /\ spent.commands \in Nat
      BY <2>1 DEF Command, IInv, Types
    <3> QED BY <3>1 DEF Undisturbed
  <2> QED BY <1>0, <1>1, <2>1, <2>2 DEF MoreTypes, RequestRead
<1>13. CASE overlay_capture_on_dma \/ Scene
  BY <1>0, <1>1, <1>13
     DEF overlay_capture_on_dma, Scene, TInv, MoreTypes, RequestRead, Undisturbed
<1>14. CASE overlay_loader_dispatch
  BY <1>0, <1>1, <1>14 DEF overlay_loader_dispatch, TInv, MoreTypes, RequestRead, Undisturbed
<1>15. CASE Restart
  <2>1. /\ cap' = Enabled(file') /\ indexed' \in Int /\ valid' = 0
        /\ UNCHANGED <<cache, tried, mode>>
    BY <1>15 DEF Restart, Scanned
  <2>2. ~Undisturbed'
    <3>1. spent'.restarts = spent.restarts + 1 /\ spent.restarts \in Nat
      BY <1>15 DEF Restart, IInv, Types
    <3> QED BY <3>1 DEF Undisturbed
  <2>3. autocap_manifest_sig(file') \in Int
    <3>1. file'.text \in Int
      <4>1. content \in Nat
        BY DEF IInv, Types
      <4> QED BY <1>0, <1>15, <4>1 DEF Restart, Written, Torn
    <3> QED BY <3>1 DEF autocap_manifest_sig, Torn
  <2>4. cap' \in CapSet /\ cap'.backoff = 1
    <3> DEFINE sg == autocap_manifest_sig(file')
               sd == sg # 0
               r == [check_in |-> CheckFrames, ok_in |-> 0, sig |-> sg, reg |-> -1,
                     backoff |-> 1, seeded |-> sd]
    <3>1. cap' = r
      BY <2>1 DEF Enabled
    <3>2. sd \in BOOLEAN /\ sg \in Int
      BY <2>3
    <3> HIDE DEF sg, sd
    <3>3. r \in CapSet /\ r.backoff = 1
      BY <1>0, <3>2 DEF CapSet
    <3> QED BY <3>1, <3>3
  <2> QED BY <1>0, <2>1, <2>2, <2>4 DEF TInv, MoreTypes, RequestRead
<1>16. CASE UNCHANGED vars
  BY <1>0, <1>1, <1>16 DEF vars, TInv, MoreTypes, RequestRead, Undisturbed
<1> QED
  BY <1>2, <1>3, <1>4, <1>5, <1>6, <1>7, <1>8, <1>9, <1>10, <1>11, <1>12, <1>13, <1>14, <1>15, <1>16
     DEF Next, Emulation, WriterThread, Compiler

\* autocompile.c and the futility test of overlay_autocapture_tick, for every
\* schedule: a manifest that is skipped as unchanged has been read by a compiler.
THEOREM CaptureFutileWasTried == Spec => FutileWasTried
<1> DEFINE A == Undisturbed /\ cap'.backoff > cap.backoff => tried >= writer.sig
<1>1. IInv /\ TInv /\ [Next]_vars => TInv'
  BY NextTInv
<1>2. IInv /\ TInv /\ [Next]_vars => [A]_vars
  BY NextTInv
<1>3. Spec => [](IInv /\ TInv)
  BY InitIInv, InitTInv, NextIInv, <1>1, PTL DEF Spec
<1> QED BY <1>2, <1>3, PTL DEF Spec, FutileWasTried
=============================================================================
