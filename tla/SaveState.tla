------------------------------ MODULE SaveState -----------------------------
(***************************************************************************)
(* User save states: the staged requests of savestate.c and the section     *)
(* file of boot_state.c, over sessions that crash, are updated and meet     *)
(* failing disks.                                                           *)
(*                                                                         *)
(* A part of the machine is worth the instant it was last computed at: one  *)
(* step of the guest brings every part to the present, so a machine whose   *)
(* parts differ is put together from two.  The guest does not run while a   *)
(* state is written; a crash can fall between any two sections.             *)
(***************************************************************************)
EXTENDS Integers, Sequences

CONSTANTS
    SlotCount,      \* SAVESTATE_SLOTS
    HleScheduler,   \* psx_hle_scheduler_enabled
    Cuts,           \* bound: numbers of sections that survive a fault
    MaxTime,        \* bound: steps of the guest over all sessions
    MaxBuild,       \* bound: updates of the program
    KeyOf           \* the integrity key of each build

ASSUME SaveStateAssumption ==
    /\ SlotCount \in Nat \ {0} /\ HleScheduler \in BOOLEAN
    /\ Cuts \subseteq Nat /\ MaxTime \in Nat /\ MaxBuild \in Nat
    /\ KeyOf \in [0 .. MaxBuild -> Nat]

Slots == 0 .. SlotCount - 1
None == -1

\* The tags in the order boot_state_save writes them; section_count is 14.
Sections == <<"CPU", "RAM", "SPAD", "IRQ", "TIMER", "CLOCK", "GPU", "VRAM",
              "SPU", "SPURAM", "CDROM", "DMA", "SIO", "DIRTY">>
Count == 14
Tags == {Sections[i] : i \in 1 .. Count}

\* cpu->pc, and the hardware no section covers: mdec.c and the position within
\* the frame (cycles_since_vblank).
Pc == "PC"
Unsaved == {"MDEC", "VBLANK"}
Parts == Tags \cup {Pc} \cup Unsaved

\* The key is made of the recompiler's code generator, its version and its ABI:
\* an update of the runtime alone is another build with the same key.
Builds == 0 .. MaxBuild
Instant == [build : Builds, time : Nat]
EntryPc == [build |-> None, time |-> None]
Value == Instant \cup {EntryPc}
Machine == [Parts -> Value]

VARIABLES
    machine,        \* the emulated hardware
    in_exception,
    s_save_pending, s_load_pending,
    phase,          \* where savestate_poll is: run, saving or polled
    slot,           \* the slot being saved
    files,          \* the slot files
    now, build,     \* the instant the guest has reached, the running build
    kept,           \* ghost: the machine all sections of a slot were last written from
    loaded          \* ghost: the slot whose load has just succeeded

vars == <<machine, in_exception, s_save_pending, s_load_pending, phase, slot,
          files, now, build, kept, loaded>>

\* What write_section puts in the file for a section.
Covered(tag) == IF tag = "CPU" THEN {"CPU", Pc} ELSE {tag}
Payload(tag) == [p \in Covered(tag) |-> machine[p]]

\* No file; a file cut before the end of its header; a header and sections.
NoFile == [there |-> FALSE, key |-> None, body |-> <<>>]
Opened == [there |-> TRUE, key |-> None, body |-> <<>>]
Prefixes(f) ==
    {Opened} \cup {[f EXCEPT !.body = SubSeq(f.body, 1, n)] :
                      n \in {c \in Cuts : c <= Len(f.body)}}

\* machine over all its parts, at one instant
Computed(b, t) == [p \in Parts |-> [build |-> b, time |-> t]]

Init ==
    /\ machine = Computed(0, 0) /\ in_exception = FALSE
    /\ s_save_pending = None /\ s_load_pending = None
    /\ phase = "run" /\ slot = None
    /\ files = [s \in Slots |-> NoFile]
    /\ now = 0 /\ build = 0
    /\ kept = [s \in Slots |-> Computed(0, 0)] /\ loaded = None

----------------------------------------------------------------------------
(* The guest and the requests. *)

GuestRuns ==
    /\ phase = "run" /\ now < MaxTime
    /\ now' = now + 1
    /\ machine' = Computed(build, now + 1)
    /\ in_exception' \in BOOLEAN
    /\ loaded' = None
    /\ UNCHANGED <<s_save_pending, s_load_pending, phase, slot, files, build, kept>>

\* The handler returns.
ExceptionReturn ==
    /\ phase = "run" /\ in_exception
    /\ in_exception' = FALSE
    /\ UNCHANGED <<machine, s_save_pending, s_load_pending, phase, slot, files,
                   now, build, kept, loaded>>

\* Keys ask for slots that exist, the debug server for any number.
InRange(s) == s \in Slots

savestate_request_save(s) ==
    /\ phase = "run" /\ InRange(s)
    /\ s_save_pending' = s
    /\ UNCHANGED <<machine, in_exception, s_load_pending, phase, slot, files,
                   now, build, kept, loaded>>

savestate_request_load(s) ==
    /\ phase = "run" /\ InRange(s) /\ HleScheduler
    /\ s_load_pending' = s
    /\ UNCHANGED <<machine, in_exception, s_save_pending, phase, slot, files,
                   now, build, kept, loaded>>

----------------------------------------------------------------------------
(* savestate_poll: first the save, section by section. *)

\* Mutant of NothingStaged: early return unless both a save and a load are staged.
NothingStagedEither == s_save_pending = None \/ s_load_pending = None

NothingStaged == s_save_pending = None /\ s_load_pending = None

Polls == phase = "run" /\ ~in_exception /\ ~NothingStaged

\* fopen "wb" leaves an empty file, or fails and leaves the old one.
SaveOpen ==
    /\ Polls /\ s_save_pending # None
    /\ s_save_pending' = None
    /\ \/ /\ phase' = "saving" /\ slot' = s_save_pending
          /\ files' = [files EXCEPT ![s_save_pending] =
                         [there |-> TRUE, key |-> KeyOf[build], body |-> <<>>]]
       \/ phase' = "polled" /\ UNCHANGED <<slot, files>>
    /\ UNCHANGED <<machine, in_exception, s_load_pending, now, build, kept, loaded>>

Written == Len(files[slot].body)

SaveSection ==
    /\ phase = "saving" /\ Written < Count
    /\ LET tag == Sections[Written + 1]
       IN files' = [files EXCEPT ![slot].body =
                      Append(@, [tag |-> tag, data |-> Payload(tag)])]
    /\ kept' = IF Written + 1 = Count THEN [kept EXCEPT ![slot] = machine] ELSE kept
    /\ UNCHANGED <<machine, in_exception, s_save_pending, s_load_pending, phase,
                   slot, now, build, loaded>>

\* A write, or the allocation before it, fails: the file is removed.
SaveFails ==
    /\ phase = "saving" /\ Written < Count
    /\ files' = [files EXCEPT ![slot] = NoFile]
    /\ phase' = "polled" /\ slot' = None
    /\ UNCHANGED <<machine, in_exception, s_save_pending, s_load_pending, now,
                   build, kept, loaded>>

\* fclose writes out what stdio still holds; nobody looks at its result.
SaveClose ==
    /\ phase = "saving" /\ Written = Count
    /\ \E f \in Prefixes(files[slot]) \cup {files[slot]} : files' = [files EXCEPT ![slot] = f]
    /\ phase' = "polled" /\ slot' = None
    /\ UNCHANGED <<machine, in_exception, s_save_pending, s_load_pending, now,
                   build, kept, loaded>>

----------------------------------------------------------------------------
(* ... then the load. *)

\* Mutant of KeyMatches: the header is not compared.
KeyMatchesAny(f) == f.there

KeyMatches(f) == f.there /\ f.key = KeyOf[build]

\* The machine after the first k sections of the file were applied.
Applied(f, k) ==
    [p \in Parts |->
        IF \E i \in 1 .. k : p \in DOMAIN f.body[i].data
        THEN IF p = Pc THEN EntryPc
             ELSE LET i == CHOOSE j \in 1 .. k : p \in DOMAIN f.body[j].data
                  IN f.body[i].data[p]
        ELSE machine[p]]

\* Mutant of Complete: only processor and memory are required, as in the first file version.
CompleteV1(f) == Len(f.body) >= 2

\* Every section was read, and every required tag seen.
Complete(f) == Len(f.body) = Count

Loads == (Polls /\ s_save_pending = None) \/ phase = "polled"

LoadSucceeds ==
    /\ Loads /\ s_load_pending # None
    /\ LET f == files[s_load_pending]
       IN KeyMatches(f) /\ Complete(f) /\ machine' = Applied(f, Len(f.body))
    /\ loaded' = s_load_pending
    /\ s_load_pending' = None /\ phase' = "run"
    /\ UNCHANGED <<in_exception, s_save_pending, slot, files, now, build, kept>>

\* Missing or foreign file: nothing is touched.  Otherwise the sections before
\* the one that is cut off, unreadable or without a buffer stay applied.
LoadFails ==
    /\ Loads /\ s_load_pending # None
    /\ LET f == files[s_load_pending]
       IN IF KeyMatches(f)
          THEN \E k \in Cuts : k <= Len(f.body) /\ k < Count /\ machine' = Applied(f, k)
          ELSE UNCHANGED machine
    /\ s_load_pending' = None /\ phase' = "run" /\ loaded' = None
    /\ UNCHANGED <<in_exception, s_save_pending, slot, files, now, build, kept>>

PollEnds ==
    /\ phase = "polled" /\ s_load_pending = None
    /\ phase' = "run"
    /\ UNCHANGED <<machine, in_exception, s_save_pending, s_load_pending, slot,
                   files, now, build, kept, loaded>>

----------------------------------------------------------------------------
(* A session ends: quit, crash or power cut, possibly while a state is      *)
(* written.  The next one may be another build.                             *)

Restart ==
    /\ IF phase = "saving"
       THEN \E f \in Prefixes(files[slot]) \cup {files[slot]} : files' = [files EXCEPT ![slot] = f]
       ELSE UNCHANGED files
    /\ build' \in {build, build + 1} \cap Builds
    /\ machine' = Computed(build', now)
    /\ in_exception' = FALSE
    /\ s_save_pending' = None /\ s_load_pending' = None
    /\ phase' = "run" /\ slot' = None /\ loaded' = None
    /\ UNCHANGED <<now, kept>>

Request == \E s \in 0 .. SlotCount : savestate_request_save(s) \/ savestate_request_load(s)

savestate_poll ==
    \/ SaveOpen \/ SaveSection \/ SaveFails \/ SaveClose
    \/ LoadSucceeds \/ LoadFails \/ PollEnds

Next == GuestRuns \/ ExceptionReturn \/ Request \/ savestate_poll \/ Restart

Spec == Init /\ [][Next]_vars

\* Exception handlers return, and block edges outside of one keep polling.
LiveSpec == Spec /\ SF_vars(savestate_poll) /\ WF_vars(ExceptionReturn)

----------------------------------------------------------------------------
(* Properties. *)

\* Every variable has its type; a file holds a beginning of the fourteen
\* sections, in their order.
TypeOK ==
    /\ machine \in Machine /\ in_exception \in BOOLEAN
    /\ s_save_pending \in Slots \cup {None} /\ s_load_pending \in Slots \cup {None}
    /\ phase \in {"run", "saving", "polled"} /\ slot \in Slots \cup {None}
    /\ (phase = "saving") <=> (slot # None)
    /\ \A s \in Slots :
         /\ files[s].there \in BOOLEAN /\ files[s].key \in Nat \cup {None}
         /\ Len(files[s].body) <= Count
         /\ \A i \in 1 .. Len(files[s].body) :
              files[s].body[i] \in [tag : {Sections[i]}, data : [Covered(Sections[i]) -> Value]]
    /\ now \in Nat /\ build \in Builds
    /\ kept \in [Slots -> Machine] /\ loaded \in Slots \cup {None}

\* The integrity key of boot_state_load.  Whatever sessions, updates and crashes
\* came before, nothing in the machine was computed by a build with another key
\* than the one that runs, not even after a load that failed half way.  (Not: by
\* another build.  boot_state.h promises that too, and the key cannot tell.)
OwnKeyOnly ==
    \A p \in Parts : machine[p] # EntryPc => KeyOf[machine[p].build] = KeyOf[build]

\* A load that succeeds restores, in every section, the machine of the last
\* complete save of that slot: never a mixture of two saves and never a state
\* whose writing was cut short by a crash or a full disk.
LoadedIsSaved ==
    loaded # None => \A p \in Tags : machine[p] = kept[loaded][p]

\* Staged requests are carried out, or the session ends: no interplay of save
\* and load requests and exceptions leaves one waiting.
StagedIsDone ==
    /\ s_save_pending # None ~> s_save_pending = None
    /\ s_load_pending # None ~> s_load_pending = None

\* boot_state.h: a complete snapshot, every mutable subsystem has a section;
\* savestate.c saves the exact resume PC.  So a successful load brings back
\* the whole machine that was saved.
LoadIsExact ==
    loaded # None => \A p \in Parts : machine[p] = kept[loaded][p]
=============================================================================
