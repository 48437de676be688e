----------------------------- MODULE Autocapture ----------------------------
(***************************************************************************)
(* Automatic capture and compilation of overlay code: the tick of           *)
(* overlay_capture.c and its writer thread, the background compile of       *)
(* autocompile.c with its child process and watcher thread, and the gcc     *)
(* provider of code_provider.c between them (Windows build).                *)
(*                                                                         *)
(* What is to be captured only grows: it is a number, and a manifest is the  *)
(* number it was written from.  Frame counts are kept as frames to go.       *)
(***************************************************************************)
EXTENDS Integers

CONSTANTS
    CheckFrames,    \* AUTOCAP_CHECK_FRAMES
    CooldownFrames, \* AUTOCAP_COOLDOWN_FRAMES
    BackoffMax,     \* AUTOCAP_BACKOFF_MAX
    IndexCap,       \* CACHE_IDX_CAP, a DLL for each piece of content
    Convertible,    \* how much of the code the compiler can deal with
    MaxContent,     \* bound: what the game brings
    Modes           \* bound: if host calls fail, the debug commands given and
                    \* the sessions that follow

ASSUME AutocaptureAssumption ==
    /\ CheckFrames \in Nat \ {0} /\ CooldownFrames \in Nat \ {0} /\ BackoffMax \in Nat \ {0}
    /\ IndexCap \in Nat /\ Convertible \in Nat /\ MaxContent \in Nat
    /\ Modes \subseteq [fail : BOOLEAN, commands : Nat, restarts : Nat]

\* A missing manifest, one cut short or written by two, and a whole one.
Missing == 0
Torn == -1
Manifest == 1 .. MaxContent

VARIABLES
    emu,        \* the emulation thread: debug, dumping, tick or poll
    content,    \* what a capture would hold; 0 while s_active is 0
    pause,      \* cdrom_load_in_progress, or a scene below the pressure thresholds
    cap,        \* s_autocap_*
    writer,     \* s_autocap_write_state and the job
    file,       \* overlay_captures.json and the handles that write it
    ac,         \* s_state and s_exit_code
    children,   \* the compile processes
    cache,      \* the compiled code on disk
    indexed,    \* s_cache_idx_count: the compiled code the loader knows of
    valid,      \* s_valid_count: the functions whose bytes are live
    tried,      \* ghost: the largest manifest a child has read
    spent,      \* bound: commands and restarts so far
    mode        \* one of Modes

vars == <<emu, content, pause, cap, writer, file, ac, children, cache, indexed,
          valid, tried, spent, mode>>

Largest(x, y) == IF x > y THEN x ELSE y
Smallest(x, y) == IF x < y THEN x ELSE y

\* autocap_manifest_sig: 0 without a file, the same for the same text.
autocap_manifest_sig(f) == IF f.open # {} THEN Torn ELSE f.text

\* overlay_autocapture_set_enabled: a manifest left by an earlier session
\* counts as requested.
Enabled(f) ==
    [check_in |-> CheckFrames, ok_in |-> 0, sig |-> autocap_manifest_sig(f), reg |-> -1,
     backoff |-> 1, seeded |-> autocap_manifest_sig(f) # 0]

NoJob == [state |-> "idle", at |-> "start", text |-> 0, sig |-> 0]
Written(text) == [text |-> text, open |-> {}, clash |-> FALSE]

Init ==
    /\ emu = "debug" /\ content = 0 /\ pause = FALSE
    /\ file = Written(Missing)
    /\ cap = Enabled(file)
    /\ writer = NoJob
    /\ ac = [state |-> "IDLE", exit |-> "none"]
    /\ children = {} /\ cache = 0 /\ indexed = 0 /\ valid = 0 /\ tried = 0
    /\ spent = [commands |-> 0, restarts |-> 0]
    /\ mode \in Modes

----------------------------------------------------------------------------
(* autocompile.c *)

\* A child that nobody watches is left to itself.
Child(watched) == [watched |-> watched, got |-> 0, at |-> "started"]
Spawn == {"ok"} \cup (IF mode.fail THEN {"no process", "no context", "no thread"} ELSE {})

\* Mutant of Request: a second process is started while one runs.
RequestAnyway(outcome) ==
    /\ children' = IF outcome = "no process" THEN children
                   ELSE children \cup {Child(outcome = "ok")}
    /\ ac' = IF outcome \in {"ok", "no thread"} THEN [ac EXCEPT !.state = "RUNNING"] ELSE ac

\* autocompile_request.  At DONE a new run starts and the old result is lost;
\* without a watcher thread the state stays at RUNNING for good.
Request(outcome) ==
    IF ac.state = "RUNNING" THEN UNCHANGED <<children, ac>>
    ELSE /\ children' = IF outcome = "no process" THEN children
                        ELSE children \cup {Child(outcome = "ok")}
         /\ ac' = IF outcome \in {"ok", "no thread"} THEN [ac EXCEPT !.state = "RUNNING"]
                  ELSE ac

\* The compile command reads the manifest early on.
child_read(c) ==
    /\ c.at = "started"
    /\ LET got == autocap_manifest_sig(file)
       IN /\ children' = (children \ {c}) \cup {[c EXCEPT !.got = got, !.at = "compiling"]}
          /\ tried' = Largest(tried, got)
    /\ UNCHANGED <<emu, content, pause, cap, writer, file, ac, cache, indexed, valid, spent, mode>>

\* It ends; watch_thread stores the exit code and then the state.
child_end(c, ok) ==
    /\ c.at = "compiling"
    /\ ok => c.got \in Manifest
    /\ ok \/ c.got \notin Manifest \/ mode.fail
    /\ children' = children \ {c}
    /\ cache' = IF ok THEN Largest(cache, Smallest(c.got, Convertible)) ELSE cache
    /\ ac' = IF c.watched THEN [state |-> "DONE", exit |-> IF ok THEN "ok" ELSE "failed"] ELSE ac
    /\ UNCHANGED <<emu, content, pause, cap, writer, file, indexed, valid, tried, spent, mode>>

\* scan_cache_dir: the index grows to hold the cache, up to its size; where the
\* directory cannot be listed it stays short.
Scanned(from) ==
    LET all == Smallest(cache, IndexCap)
    IN {n \in from .. all : n = all \/ mode.fail}


\* overlay_loader_rescan after a run that ended well: no DLL is loaded here.
Applied == IF ac.exit = "ok" THEN Scanned(indexed) ELSE {indexed}

autocompile_poll_main ==
    /\ emu = "poll"
    /\ emu' = "debug"
    /\ IF ac.state = "DONE"
       THEN ac' = [ac EXCEPT !.state = "IDLE"] /\ indexed' \in Applied
       ELSE UNCHANGED <<ac, indexed>>
    /\ UNCHANGED <<content, pause, cap, writer, file, children, cache, valid, tried, spent, mode>>

----------------------------------------------------------------------------
(* The manifest file: write_json_snapshot by two threads. *)

Opened(f, who) ==
    [f EXCEPT !.open = @ \cup {who}, !.clash = @ \/ f.open # {}, !.text = Torn]
Closed(f, who, text) ==
    LET open == f.open \ {who}
    IN [text |-> IF f.clash THEN Torn ELSE text, open |-> open, clash |-> f.clash /\ open # {}]

\* autocap_write_thread_main.
write_open ==
    /\ writer.state = "writing" /\ writer.at = "start"
    /\ \/ writer' = [writer EXCEPT !.at = "open"] /\ file' = Opened(file, "writer")
       \/ mode.fail /\ writer' = [writer EXCEPT !.state = "complete"] /\ UNCHANGED file
    /\ UNCHANGED <<emu, content, pause, cap, ac, children, cache, indexed, valid, tried, spent, mode>>

write_close ==
    /\ writer.state = "writing" /\ writer.at = "open"
    /\ writer' = [writer EXCEPT !.at = "closed"]
    /\ file' = Closed(file, "writer", writer.text)
    /\ UNCHANGED <<emu, content, pause, cap, ac, children, cache, indexed, valid, tried, spent, mode>>

write_hash ==
    /\ writer.state = "writing" /\ writer.at = "closed"
    /\ writer' = [writer EXCEPT !.sig = autocap_manifest_sig(file), !.state = "complete"]
    /\ UNCHANGED <<emu, content, pause, cap, file, ac, children, cache, indexed, valid, tried, spent, mode>>

----------------------------------------------------------------------------
(* overlay_autocapture_tick *)

\* Mutant of Futile: only overlay_loader_registered_count is looked at.
FutileByCount(sig) == cap.seeded \/ valid = cap.reg

\* The manifest of the last request, and as many live functions as then.
Futile(sig) == sig = cap.sig /\ (cap.seeded \/ valid = cap.reg)

Backoff == IF cap.backoff < BackoffMax THEN 2 * cap.backoff ELSE cap.backoff

\* The writer has finished: back off, or ask for a compile.
tick_apply ==
    LET sig == writer.sig
    IN /\ emu = "tick" /\ writer.state = "complete"
       /\ emu' = "poll" /\ writer' = NoJob
       /\ \/ /\ sig # 0 /\ Futile(sig)
             /\ cap' = [cap EXCEPT !.reg = valid, !.seeded = FALSE, !.backoff = Backoff,
                                   !.ok_in = CooldownFrames * Backoff]
             /\ UNCHANGED <<ac, children>>
          \/ /\ sig # 0 /\ ~Futile(sig)
             /\ cap' = [cap EXCEPT !.sig = sig, !.reg = valid, !.seeded = FALSE, !.backoff = 1]
             /\ \E outcome \in Spawn : Request(outcome)
          \/ sig = 0 /\ UNCHANGED <<cap, ac, children>>
       /\ UNCHANGED <<content, pause, file, cache, indexed, valid, tried, spent, mode>>

\* Mutant of MayCapture: a compile in flight is not waited for.
MayCaptureBusy ==
    /\ ~pause
    /\ cap.ok_in = 0

\* Pressure, no loading, no compile in flight, cooldown over.
MayCapture ==
    /\ ~pause
    /\ ac.state # "RUNNING"
    /\ cap.ok_in = 0

tick_check ==
    /\ emu = "tick" /\ writer.state # "complete"
    /\ emu' = "poll"
    /\ IF content = 0 \/ writer.state # "idle" \/ cap.check_in > 0
       THEN UNCHANGED <<cap, writer>>
       ELSE /\ cap' = [cap EXCEPT !.check_in = CheckFrames,
                                  !.ok_in = IF MayCapture THEN CooldownFrames ELSE @]
            /\ \/ MayCapture /\ writer' = [NoJob EXCEPT !.state = "writing", !.text = content]
               \/ (~MayCapture \/ mode.fail) /\ UNCHANGED writer
    /\ UNCHANGED <<content, pause, file, ac, children, cache, indexed, valid, tried, spent, mode>>

----------------------------------------------------------------------------
(* The rest of the frame. *)

Less(n) == IF n > 0 THEN n - 1 ELSE 0

\* s_frame_count goes on.
frame ==
    /\ emu = "debug"
    /\ emu' = "tick"
    /\ cap' = [cap EXCEPT !.check_in = Less(@), !.ok_in = Less(@)]
    /\ UNCHANGED <<content, pause, writer, file, ac, children, cache, indexed, valid, tried, spent, mode>>

\* debug_server_poll runs a command.
Command ==
    /\ emu = "debug" /\ spent.commands < mode.commands
    /\ spent' = [spent EXCEPT !.commands = @ + 1]

\* Commands autocompile_run, overlay_rescan and overlay_capture_dump.
autocompile_run ==
    /\ Command /\ ac.state # "RUNNING"
    /\ \E outcome \in Spawn : Request(outcome)
    /\ UNCHANGED <<emu, content, pause, cap, writer, file, cache, indexed, valid, tried, mode>>

overlay_rescan ==
    /\ Command
    /\ indexed' \in Scanned(indexed)
    /\ UNCHANGED <<emu, content, pause, cap, writer, file, ac, children, cache, valid, tried, mode>>

overlay_capture_dump ==
    /\ Command /\ content > 0
    /\ emu' = "dumping" /\ file' = Opened(file, "dump")
    /\ UNCHANGED <<content, pause, cap, writer, ac, children, cache, indexed, valid, tried, mode>>

dump_end ==
    /\ emu = "dumping"
    /\ emu' = "debug" /\ file' = Closed(file, "dump", content)
    /\ UNCHANGED <<content, pause, cap, writer, ac, children, cache, indexed, valid, tried, spent, mode>>

\* The game: overlays arrive (overlay_capture_on_dma activates the capture), and
\* scenes load or need little of the interpreter, for as long as they like.
overlay_capture_on_dma ==
    /\ content < MaxContent
    /\ content' = content + 1
    /\ UNCHANGED <<emu, pause, cap, writer, file, ac, children, cache, indexed, valid, tried, spent, mode>>

Scene ==
    /\ pause' = ~pause
    /\ UNCHANGED <<emu, content, cap, writer, file, ac, children, cache, indexed, valid, tried, spent, mode>>

\* The guest dispatches into overlay code: DLLs of the index are loaded when
\* their bytes are in RAM, functions become valid and invalid with them, or never.
overlay_loader_dispatch ==
    /\ emu = "debug"
    /\ valid' \in (0 .. indexed) \ {valid}
    /\ UNCHANGED <<emu, content, pause, cap, writer, file, ac, children, cache, indexed, tried, spent, mode>>

\* The program ends and starts again.  shutdown_runtime writes the manifest once
\* more and does not wait for the writer; a crash writes nothing.  A compile
\* goes on without its watcher; the loader indexes the cache anew.
Restart ==
    /\ spent.restarts < mode.restarts
    /\ spent' = [spent EXCEPT !.restarts = @ + 1]
    /\ \E quits \in BOOLEAN :
         file' = Written(CASE file.open # {} -> Torn
                           [] file.open = {} /\ quits /\ content > 0 -> content
                           [] OTHER -> file.text)
    /\ emu' = "debug" /\ content' = 0 /\ pause' = FALSE
    /\ cap' = Enabled(file') /\ writer' = NoJob
    /\ ac' = [state |-> "IDLE", exit |-> "none"]
    /\ children' = {[c EXCEPT !.watched = FALSE] : c \in children}
    /\ indexed' \in Scanned(0) /\ valid' = 0
    /\ UNCHANGED <<cache, tried, mode>>

Emulation == frame \/ tick_apply \/ tick_check \/ autocompile_poll_main \/ dump_end
WriterThread == write_open \/ write_close \/ write_hash
Compiler == \E c \in children : child_read(c) \/ \E ok \in BOOLEAN : child_end(c, ok)

Next ==
    \/ Emulation \/ WriterThread \/ Compiler
    \/ autocompile_run \/ overlay_rescan \/ overlay_capture_dump
    \/ overlay_capture_on_dma \/ Scene \/ overlay_loader_dispatch \/ Restart

\* The frame loop runs, threads and processes are scheduled.
Spec ==
    /\ Init /\ [][Next]_vars
    /\ WF_vars(Emulation) /\ WF_vars(WriterThread) /\ WF_vars(Compiler)

----------------------------------------------------------------------------
(* Properties. *)

\* One session without failing host calls and debug commands.
Undisturbed == ~mode.fail /\ spent.commands = 0 /\ spent.restarts = 0

\* "A compile is in flight" (autocompile_busy) is true exactly while a watched
\* process exists, also across debug commands, finished results that are
\* overwritten and restarts; otherwise captures would be refused for good, or the
\* session would start a second compiler on the same cache.  (One that an earlier
\* session left behind is nobody's: it may run beside the session's own.)
RunningIsWatched ==
    ~mode.fail => /\ ac.state = "RUNNING" <=> \E c \in children : c.watched
                  /\ \A c, d \in children : c.watched /\ d.watched => c = d

\* The header comment: captures fire only while the provider is idle.  So no
\* compiler reads a manifest that the writer thread has in hand, although the
\* writer runs on for frames after the check.
CompilerReadsWhole ==
    Undisturbed => \A c \in children :
                     /\ c.got # Torn
                     /\ writer.state = "idle"

\* The futility comment: an unchanged manifest is skipped because a compile
\* "would redo exactly the work of the previous one".  So whenever the backoff
\* grows, a compiler has read that manifest.
FutileWasTried ==
    [][Undisturbed /\ cap'.backoff > cap.backoff => tried >= writer.sig]_vars

=============================================================================
