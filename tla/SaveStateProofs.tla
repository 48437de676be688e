---------------------------- MODULE SaveStateProofs --------------------------
(***************************************************************************)
(* Proofs about SaveState: for every number of slots, guest steps, updates  *)
(* and places where a file can be cut.  The invariant says of each file     *)
(* that it holds a beginning of the section list, all of it from builds *)
(* with the key of its header, and, when complete, from the machine in kept; and of the  *)
(* file being written that it holds the present machine.                    *)
(***************************************************************************)
EXTENDS SaveState, SequenceTheorems, TLAPS

Section == UNION {[tag : {t}, data : [Covered(t) -> Value]] : t \in Tags}
File == [there : BOOLEAN, key : Nat \cup {None}, body : Seq(Section)]

\* The i-th section of the file.
InPlace(f, i) ==
    /\ f.body[i].tag = Sections[i]
    /\ f.body[i].data \in [Covered(Sections[i]) -> Value]

OneKey(f, i) ==
    \A p \in Covered(Sections[i]) :
      f.body[i].data[p] # EntryPc => KeyOf[f.body[i].data[p].build] = f.key

From(f, i, k) == \A p \in Covered(Sections[i]) : f.body[i].data[p] = k[p]

FileOK(f, k) ==
    /\ f \in File /\ Len(f.body) <= Count
    /\ \A i \in 1 .. Len(f.body) :
         InPlace(f, i) /\ OneKey(f, i) /\ (Len(f.body) = Count => From(f, i, k))

Vars ==
    /\ machine \in Machine /\ in_exception \in BOOLEAN
    /\ s_save_pending \in Slots \cup {None} /\ s_load_pending \in Slots \cup {None}
    /\ phase \in {"run", "saving", "polled"} /\ slot \in Slots \cup {None}
    /\ (phase = "saving") <=> (slot # None)
    /\ files \in [Slots -> File] /\ now \in Nat /\ build \in Builds
    /\ kept \in [Slots -> Machine] /\ loaded \in Slots \cup {None}

FilesOK == \A s \in Slots : FileOK(files[s], kept[s])

Saving ==
    phase = "saving" =>
      /\ files[slot].key = KeyOf[build]
      /\ \A i \in 1 .. Len(files[slot].body) : From(files[slot], i, machine)

IInv == Vars /\ OwnKeyOnly /\ LoadedIsSaved /\ FilesOK /\ Saving

----------------------------------------------------------------------------
(* Sections and files. *)

\* Every section has a tag, every tag a section, and no section covers what is
\* not part of the machine.
LEMMA SectionTags ==
  /\ Count \in Nat
  /\ \A i \in 1 .. Count : Sections[i] \in Tags
  /\ \A t \in Tags : \E i \in 1 .. Count : Sections[i] = t
  /\ \A t \in Tags : t \in Parts /\ t # Pc /\ t \in Covered(t) /\ Covered(t) \subseteq Parts
<1>1. Count \in Nat
  BY DEF Count
<1>2. \A i \in 1 .. Count : Sections[i] \in Tags
  BY DEF Tags
<1>3. \A t \in Tags : \E i \in 1 .. Count : Sections[i] = t
  BY DEF Tags
<1>4. Pc \notin Tags
  BY DEF Tags, Pc, Sections, Count
<1>5. "CPU" \in Tags
  <2>1. 1 \in 1 .. Count /\ Sections[1] = "CPU"
    BY DEF Sections, Count
  <2> QED
    BY <2>1 DEF Tags
<1>6. ASSUME NEW t \in Tags
      PROVE  t \in Parts /\ t # Pc /\ t \in Covered(t) /\ Covered(t) \subseteq Parts
  BY <1>4, <1>5 DEF Parts, Covered
<1> QED
  BY <1>1, <1>2, <1>3, <1>6

\* A file cut short is a file, and no more than the whole one.
LEMMA PrefixOK ==
  ASSUME NEW f, NEW k, FileOK(f, k), NEW g \in Prefixes(f) \cup {f}
  PROVE  FileOK(g, k)
<1> USE SaveStateAssumption, SectionTags
<1>0. f \in File /\ f.body \in Seq(Section)
  BY DEF FileOK, File
<1>1. CASE g = f
  BY <1>1
<1>2. CASE g = Opened
  <2>1. Opened \in File /\ Opened.body = <<>> /\ Len(Opened.body) = 0
    BY DEF Opened, File
  <2> QED
    BY <1>2, <2>1 DEF FileOK
<1>3. ASSUME NEW n \in Cuts, n <= Len(f.body), g = [f EXCEPT !.body = SubSeq(f.body, 1, n)]
      PROVE  FileOK(g, k)
  <2>0. n \in Nat /\ Len(f.body) \in Nat
    BY <1>0, LenProperties
  <2>1. /\ SubSeq(f.body, 1, n) \in Seq(Section)
        /\ Len(SubSeq(f.body, 1, n)) = n
        /\ \A i \in 1 .. n : SubSeq(f.body, 1, n)[i] = f.body[i]
    BY <1>0, <1>3, <2>0, SubSeqProperties
  <2>2. /\ g \in File /\ g.key = f.key /\ Len(g.body) = n
        /\ \A i \in 1 .. n : g.body[i] = f.body[i]
    BY <1>0, <1>3, <2>1 DEF File
  <2>3. ASSUME NEW i \in 1 .. n
        PROVE  InPlace(g, i) /\ OneKey(g, i) /\ (n = Count => From(g, i, k))
    <3>1. i \in 1 .. Len(f.body) /\ g.body[i] = f.body[i]
      BY <1>3, <2>0, <2>2
    <3>2. n = Count => Len(f.body) = Count
      BY <1>3, <2>0 DEF FileOK
    <3>3. InPlace(f, i) /\ OneKey(f, i) /\ (Len(f.body) = Count => From(f, i, k))
      BY <3>1 DEF FileOK
    <3> QED
      BY <2>2, <3>1, <3>2, <3>3 DEF InPlace, OneKey, From
  <2>4. n <= Count
    BY <1>3, <2>0 DEF FileOK
  <2> QED
    BY <2>2, <2>3, <2>4 DEF FileOK
<1> QED
  BY <1>1, <1>2, <1>3 DEF Prefixes

\* The machine after some sections of a file were applied: every part is the
\* file's, the entry address or as it was.
LEMMA AppliedOK ==
  ASSUME NEW f, NEW k0, FileOK(f, k0), NEW k \in 0 .. Len(f.body), machine \in Machine
  PROVE  /\ Applied(f, k) \in Machine
         /\ f.key = KeyOf[build] /\ OwnKeyOnly =>
              \A p \in Parts : Applied(f, k)[p] # EntryPc => KeyOf[Applied(f, k)[p].build] = KeyOf[build]
         /\ k = Count => \A p \in Tags : Applied(f, k)[p] = k0[p]
<1> USE SectionTags
<1>0. Len(f.body) \in Nat /\ Len(f.body) <= Count
  BY LenProperties DEF FileOK, File
<1>1. ASSUME NEW i \in 1 .. k
      PROVE  /\ Sections[i] \in Tags
             /\ DOMAIN f.body[i].data = Covered(Sections[i])
             /\ InPlace(f, i) /\ OneKey(f, i) /\ (Len(f.body) = Count => From(f, i, k0))
  <2>1. i \in 1 .. Len(f.body) /\ i \in 1 .. Count
    BY <1>0
  <2>2. InPlace(f, i) /\ OneKey(f, i) /\ (Len(f.body) = Count => From(f, i, k0))
    BY <2>1 DEF FileOK
  <2> QED
    BY <2>1, <2>2 DEF InPlace
<1> DEFINE hit(p) == \E i \in 1 .. k : p \in DOMAIN f.body[i].data
           at(p) == CHOOSE j \in 1 .. k : p \in DOMAIN f.body[j].data
<1>2. ASSUME NEW p \in Parts, hit(p)
      PROVE  at(p) \in 1 .. k /\ p \in Covered(Sections[at(p)])
  BY <1>1, <1>2
<1>3. ASSUME NEW p \in Parts
      PROVE  Applied(f, k)[p] = IF hit(p) THEN IF p = Pc THEN EntryPc ELSE f.body[at(p)].data[p]
                                ELSE machine[p]
  BY <1>3 DEF Applied
<1>4. ASSUME NEW p \in Parts
      PROVE  Applied(f, k)[p] \in Value
  <2>1. CASE hit(p) /\ p # Pc
    BY <1>1, <1>2, <1>3, <2>1 DEF InPlace
  <2>2. CASE hit(p) /\ p = Pc
    BY <1>3, <2>2 DEF Value
  <2>3. CASE ~hit(p)
    BY <1>3, <2>3 DEF Machine
  <2> QED
    BY <2>1, <2>2, <2>3
<1>5. Applied(f, k) \in Machine
  BY <1>4 DEF Applied, Machine
<1>6. ASSUME f.key = KeyOf[build], OwnKeyOnly, NEW p \in Parts, Applied(f, k)[p] # EntryPc
      PROVE  KeyOf[Applied(f, k)[p].build] = KeyOf[build]
  <2>1. CASE hit(p) /\ p # Pc
    <3>1. /\ at(p) \in 1 .. k /\ p \in Covered(Sections[at(p)])
          /\ Applied(f, k)[p] = f.body[at(p)].data[p]
      BY <1>2, <1>3, <2>1
    <3> HIDE DEF at
    <3>2. OneKey(f, at(p))
      BY <1>1, <3>1
    <3>3. f.body[at(p)].data[p] # EntryPc
      BY <1>6, <3>1
    <3>4. KeyOf[f.body[at(p)].data[p].build] = f.key
      BY <3>1, <3>2, <3>3 DEF OneKey
    <3> QED
      BY <1>6, <3>1, <3>4
  <2>2. CASE hit(p) /\ p = Pc
    BY <1>3, <1>6, <2>2
  <2>3. CASE ~hit(p)
    BY <1>3, <1>6, <2>3 DEF OwnKeyOnly
  <2> QED
    BY <2>1, <2>2, <2>3
<1>7. ASSUME k = Count, NEW p \in Tags
      PROVE  Applied(f, k)[p] = k0[p]
  <2>1. PICK i \in 1 .. k : Sections[i] = p
    BY <1>7
  <2>2. hit(p)
    BY <1>1, <2>1
  <2>3. p \in Parts /\ p # Pc
    OBVIOUS
  <2>4. Len(f.body) = Count
    BY <1>0, <1>7
  <2>5. From(f, at(p), k0) /\ p \in Covered(Sections[at(p)])
    BY <1>1, <1>2, <2>2, <2>3, <2>4
  <2> QED
    BY <1>3, <2>2, <2>3, <2>5 DEF From
<1> QED
  BY <1>5, <1>6, <1>7

\* All parts computed at one instant.
LEMMA ComputedOK ==
  ASSUME NEW b \in Builds, NEW t \in Nat
  PROVE  Computed(b, t) \in Machine /\ \A p \in Parts : Computed(b, t)[p].build = b
BY DEF Computed, Machine, Value, Instant

----------------------------------------------------------------------------
(* The invariant is inductive. *)

\* A session starts with an empty machine and no files.
LEMMA InitIInv == Init => IInv
<1> SUFFICES ASSUME Init PROVE IInv
  OBVIOUS
<1>0. 0 \in Builds /\ 0 \in Nat
  BY SaveStateAssumption DEF Builds
<1>1. Computed(0, 0) \in Machine /\ \A p \in Parts : Computed(0, 0)[p].build = 0
  BY <1>0, ComputedOK
<1>2. NoFile \in File /\ NoFile.body = <<>> /\ Len(NoFile.body) = 0
  BY DEF NoFile, File
<1>3. FilesOK
  BY <1>2, SectionTags DEF Init, FilesOK, FileOK
<1>4. Vars
  BY <1>0, <1>1, <1>2 DEF Init, Vars
<1> QED
  BY <1>1, <1>3, <1>4 DEF Init, IInv, OwnKeyOnly, LoadedIsSaved, Saving

\* Steps that leave the files, the machine and the ghosts alone.
LEMMA QuietStep ==
  ASSUME IInv, Vars', UNCHANGED <<machine, build, kept, files>>,
         loaded' \in {loaded, None}, phase' # "saving"
  PROVE  IInv'
<1>1. FilesOK'
  BY DEF IInv, FilesOK
<1> QED
  BY <1>1 DEF IInv, OwnKeyOnly, LoadedIsSaved, Saving, None

\* The guest computes all parts anew.
LEMMA GuestRunsOK == ASSUME IInv, GuestRuns PROVE IInv'
<1>0. Vars
  BY DEF IInv
<1>1. now + 1 \in Nat /\ build \in Builds
  BY <1>0 DEF Vars
<1>2. machine' \in Machine /\ \A p \in Parts : machine'[p].build = build
  BY <1>1, ComputedOK DEF GuestRuns
<1>3. Vars'
  BY <1>0, <1>1, <1>2 DEF Vars, GuestRuns
<1>4. FilesOK'
  BY DEF IInv, FilesOK, GuestRuns
<1> QED
  BY <1>2, <1>3, <1>4 DEF IInv, OwnKeyOnly, LoadedIsSaved, Saving, GuestRuns

\* Requests, returns and the end of a poll.
LEMMA PlainOK ==
  ASSUME IInv, ExceptionReturn \/ Request \/ PollEnds
  PROVE  IInv'
<1>0. Vars
  BY DEF IInv
<1>1. Vars'
  BY <1>0 DEF Vars, ExceptionReturn, Request, PollEnds, savestate_request_save,
              savestate_request_load, InRange
<1>2. phase' # "saving" /\ UNCHANGED <<machine, build, kept, files, loaded>>
  BY <1>0 DEF ExceptionReturn, Request, PollEnds, savestate_request_save,
              savestate_request_load
<1> QED
  BY <1>1, <1>2, QuietStep

\* The old file is emptied and gets the header of this build.
LEMMA SaveOpenOK == ASSUME IInv, SaveOpen PROVE IInv'
<1>0. Vars
  BY DEF IInv
<1>1. CASE phase' = "polled" /\ UNCHANGED <<slot, files>>
  <2>1. slot = None
    BY <1>0 DEF Vars, SaveOpen, Polls
  <2>2. Vars'
    BY <1>0, <1>1, <2>1 DEF Vars, SaveOpen
  <2> QED
    BY <1>1, <2>2, QuietStep DEF SaveOpen
<1>2. CASE /\ phase' = "saving" /\ slot' = s_save_pending
           /\ files' = [files EXCEPT ![s_save_pending] =
                          [there |-> TRUE, key |-> KeyOf[build], body |-> <<>>]]
  <2> DEFINE s0 == s_save_pending
             new == [there |-> TRUE, key |-> KeyOf[build], body |-> <<>>]
  <2>0. KeyOf[build] \in Nat
    BY <1>0, SaveStateAssumption DEF Vars, Builds
  <2>1. s0 \in Slots /\ new \in File /\ new.key = KeyOf[build] /\ Len(new.body) = 0
    BY <1>0, <2>0 DEF Vars, File, SaveOpen
  <2>2. files' \in [Slots -> File] /\ files'[s0] = new
        /\ \A s \in Slots : s # s0 => files'[s] = files[s]
    BY <1>0, <1>2, <2>1 DEF Vars
  <2>3. s0 # None
    BY DEF SaveOpen
  <2>4. Vars'
    BY <1>0, <1>2, <2>1, <2>2, <2>3 DEF Vars, SaveOpen
  <2>5. FileOK(new, kept[s0])
    BY <2>1, SectionTags DEF FileOK
  <2>6. FilesOK'
    BY <2>2, <2>5 DEF IInv, FilesOK, SaveOpen
  <2>7. Saving'
    BY <1>2, <2>1, <2>2 DEF Saving, SaveOpen
  <2> QED
    BY <2>4, <2>6, <2>7 DEF IInv, OwnKeyOnly, LoadedIsSaved, SaveOpen
<1> QED
  BY <1>1, <1>2 DEF SaveOpen

\* The next section is written from the present machine.
LEMMA SaveSectionOK == ASSUME IInv, SaveSection PROVE IInv'
<1> USE SectionTags
<1>0. Vars /\ FilesOK /\ Saving /\ OwnKeyOnly
  BY DEF IInv
<1> DEFINE f == files[slot]
           n == Len(f.body)
           tag == Sections[n + 1]
           new == [tag |-> tag, data |-> Payload(tag)]
           g == [f EXCEPT !.body = Append(@, new)]
<1>1. slot \in Slots /\ slot # None /\ FileOK(f, kept[slot]) /\ f.key = KeyOf[build]
  BY <1>0 DEF Vars, FilesOK, Saving, SaveSection
<1>2. f \in File /\ f.body \in Seq(Section) /\ n \in Nat /\ n < Count
  BY <1>1, LenProperties DEF FileOK, File, SaveSection, Written
<1>3. tag \in Tags /\ n + 1 \in 1 .. Count
  BY <1>2
<1>4. Payload(tag) \in [Covered(tag) -> Value] /\ \A p \in Covered(tag) : Payload(tag)[p] = machine[p]
  BY <1>0, <1>3 DEF Payload, Vars, Machine
<1>5. new \in Section
  BY <1>3, <1>4 DEF Section
<1>6. /\ g \in File /\ g.key = KeyOf[build] /\ Len(g.body) = n + 1
      /\ g.body[n + 1] = new /\ \A i \in 1 .. n : g.body[i] = f.body[i]
  <2> HIDE DEF new, n
  <2>1. /\ Append(f.body, new) \in Seq(Section) /\ Len(Append(f.body, new)) = n + 1
        /\ Append(f.body, new)[n + 1] = new
        /\ \A i \in 1 .. n : Append(f.body, new)[i] = f.body[i]
    BY <1>2, <1>5, AppendProperties DEF n
  <2> QED
    BY <1>1, <1>2, <2>1 DEF File
<1>7. ASSUME NEW i \in 1 .. n + 1
      PROVE  InPlace(g, i) /\ OneKey(g, i) /\ From(g, i, machine)
  <2>1. CASE i = n + 1
    <3>1. g.body[i].tag = Sections[i] /\ g.body[i].data = Payload(Sections[i])
      BY <1>6, <2>1
    <3>2. \A p \in Covered(Sections[i]) : machine[p] # EntryPc => KeyOf[machine[p].build] = KeyOf[build]
      BY <1>0, <1>3, <2>1 DEF OwnKeyOnly
    <3>3. /\ g.body[i].data \in [Covered(Sections[i]) -> Value]
          /\ \A p \in Covered(Sections[i]) : g.body[i].data[p] = machine[p]
      BY <1>4, <2>1, <3>1
    <3>4. g.key = KeyOf[build]
      BY <1>6
    <3> HIDE DEF g, new, tag, n, f
    <3>5. OneKey(g, i)
      BY <3>2, <3>3, <3>4 DEF OneKey
    <3> QED
      BY <3>1, <3>3, <3>5 DEF InPlace, From
  <2>2. CASE i # n + 1
    <3>1. i \in 1 .. n
      BY <1>2, <2>2
    <3>2. InPlace(f, i) /\ OneKey(f, i)
      BY <1>1, <3>1 DEF FileOK
    <3>3. From(f, i, machine)
      BY <1>0, <3>1 DEF Saving, SaveSection
    <3> QED
      BY <1>1, <1>6, <3>1, <3>2, <3>3 DEF InPlace, OneKey, From
  <2> QED
    BY <2>1, <2>2
<1>8. files' = [files EXCEPT ![slot] = g]
  BY DEF SaveSection, Written
<1> HIDE DEF g, new, tag
<1>9. /\ files' \in [Slots -> File] /\ files'[slot] = g
      /\ \A s \in Slots : s # slot => files'[s] = files[s]
  BY <1>0, <1>1, <1>6, <1>8 DEF Vars
<1>10. /\ kept' \in [Slots -> Machine]
       /\ \A s \in Slots : s # slot => kept'[s] = kept[s]
       /\ kept'[slot] = IF n + 1 = Count THEN machine ELSE kept[slot]
  BY <1>0, <1>1 DEF Vars, SaveSection, Written
<1>11. n + 1 <= Count
  BY <1>2
<1>12. FileOK(g, kept'[slot])
  BY <1>6, <1>7, <1>10, <1>11 DEF FileOK
<1>13. FilesOK'
  BY <1>0, <1>9, <1>10, <1>12 DEF FilesOK
<1>14. Vars'
  BY <1>0, <1>9, <1>10 DEF Vars, SaveSection
<1>15. Saving'
  <2>1. slot' = slot /\ machine' = machine /\ build' = build
    BY DEF SaveSection
  <2>2. files'[slot'] = g
    BY <1>9, <2>1
  <2> QED
    BY <1>6, <1>7, <2>1, <2>2 DEF Saving
<1>16. LoadedIsSaved'
  <2>1. loaded' = loaded /\ machine' = machine
    BY DEF SaveSection
  <2>2. ASSUME loaded # None, NEW p \in Tags PROVE machine[p] = kept'[loaded][p]
    BY <1>0, <1>10, <2>2 DEF IInv, LoadedIsSaved, Vars
  <2> QED
    BY <2>1, <2>2 DEF LoadedIsSaved
<1>17. OwnKeyOnly'
  BY <1>0 DEF OwnKeyOnly, SaveSection
<1> QED
  BY <1>13, <1>14, <1>15, <1>16, <1>17 DEF IInv

\* A slot file is replaced by one that is as good, and nothing is saved further.
LEMMA FileReplaced ==
  ASSUME IInv, phase = "saving", NEW f, FileOK(f, kept[slot]),
         files' = [files EXCEPT ![slot] = f], UNCHANGED kept
  PROVE  FilesOK' /\ files' \in [Slots -> File]
<1>1. slot \in Slots /\ files \in [Slots -> File] /\ f \in File
  BY DEF IInv, Vars, FileOK
<1>2. files' \in [Slots -> File] /\ files'[slot] = f /\ \A s \in Slots : s # slot => files'[s] = files[s]
  BY <1>1
<1> QED
  BY <1>2 DEF IInv, FilesOK

\* A failed save removes the file; a finished one may lose its end.
LEMMA SaveEndsOK == ASSUME IInv, SaveFails \/ SaveClose PROVE IInv'
<1>0. Vars /\ phase = "saving"
  BY DEF IInv, SaveFails, SaveClose
<1>1. NoFile \in File /\ Len(NoFile.body) = 0
  BY DEF NoFile, File
<1>2. FileOK(NoFile, kept[slot])
  BY <1>1, SectionTags DEF FileOK
<1>3. FileOK(files[slot], kept[slot])
  BY <1>0 DEF IInv, Vars, FilesOK
<1>4. FilesOK' /\ files' \in [Slots -> File]
  <2>1. CASE SaveFails
    BY <1>0, <1>2, <2>1, FileReplaced DEF SaveFails
  <2>2. CASE SaveClose
    <3>1. PICK f \in Prefixes(files[slot]) \cup {files[slot]} : files' = [files EXCEPT ![slot] = f]
      BY <2>2 DEF SaveClose
    <3>2. FileOK(f, kept[slot])
      BY <1>3, PrefixOK
    <3> QED
      BY <1>0, <2>2, <3>1, <3>2, FileReplaced DEF SaveClose
  <2> QED
    BY <2>1, <2>2
<1>5. /\ UNCHANGED <<machine, in_exception, s_save_pending, s_load_pending, now, build, kept, loaded>>
      /\ phase' = "polled" /\ slot' = None
  BY DEF SaveFails, SaveClose
<1>6. Vars'
  BY <1>0, <1>4, <1>5 DEF Vars
<1> QED
  BY <1>4, <1>5, <1>6 DEF IInv, OwnKeyOnly, LoadedIsSaved, Saving

\* A load applies a file of this key, all of it or a beginning, or nothing.
LEMMA LoadOK == ASSUME IInv, LoadSucceeds \/ LoadFails PROVE IInv'
<1>0. Vars /\ OwnKeyOnly /\ FilesOK
  BY DEF IInv
<1> DEFINE s0 == s_load_pending
           f == files[s0]
<1>1. s0 \in Slots /\ FileOK(f, kept[s0]) /\ machine \in Machine
  BY <1>0 DEF Vars, FilesOK, LoadSucceeds, LoadFails
<1>2. Len(f.body) \in Nat
  BY <1>1, LenProperties DEF FileOK, File
<1>3. /\ UNCHANGED <<in_exception, s_save_pending, slot, files, now, build, kept>>
      /\ s_load_pending' = None /\ phase' = "run" /\ phase # "saving"
      /\ loaded' \in {s0, None}
  BY DEF LoadSucceeds, LoadFails, Loads, Polls
<1>4. FilesOK'
  BY <1>0, <1>3 DEF FilesOK
<1>5. slot = None
  BY <1>0, <1>3 DEF Vars
<1>6. CASE LoadSucceeds
  <2>1. f.key = KeyOf[build] /\ Len(f.body) = Count /\ machine' = Applied(f, Count)
    BY <1>6 DEF LoadSucceeds, KeyMatches, Complete
  <2>2. Count \in 0 .. Len(f.body)
    BY <1>2, <2>1
  <2>3. /\ machine' \in Machine
        /\ \A p \in Parts : machine'[p] # EntryPc => KeyOf[machine'[p].build] = KeyOf[build]
        /\ \A p \in Tags : machine'[p] = kept[s0][p]
    BY <1>0, <1>1, <2>1, <2>2, AppliedOK
  <2>4. Vars'
    BY <1>0, <1>1, <1>3, <1>5, <2>3 DEF Vars
  <2>5. loaded' = s0
    BY <1>6 DEF LoadSucceeds
  <2> QED
    BY <1>3, <1>4, <2>3, <2>4, <2>5 DEF IInv, OwnKeyOnly, LoadedIsSaved, Saving
<1>7. CASE LoadFails
  <2>1. /\ machine' \in Machine
        /\ \A p \in Parts : machine'[p] # EntryPc => KeyOf[machine'[p].build] = KeyOf[build]
    <3>1. CASE KeyMatches(f)
      <4>1. PICK k \in Cuts : k <= Len(f.body) /\ k < Count /\ machine' = Applied(f, k)
        BY <1>7, <3>1 DEF LoadFails
      <4>2. k \in 0 .. Len(f.body)
        BY <1>2, <4>1, SaveStateAssumption
      <4>3. f.key = KeyOf[build]
        BY <3>1 DEF KeyMatches
      <4> QED
        BY <1>0, <1>1, <4>1, <4>2, <4>3, AppliedOK
    <3>2. CASE ~KeyMatches(f)
      BY <1>0, <1>7, <3>2 DEF LoadFails, Vars, OwnKeyOnly
    <3> QED
      BY <3>1, <3>2
  <2>2. Vars'
    BY <1>0, <1>1, <1>3, <1>5, <2>1 DEF Vars
  <2>3. loaded' = None
    BY <1>7 DEF LoadFails
  <2> QED
    BY <1>3, <1>4, <2>1, <2>2, <2>3 DEF IInv, OwnKeyOnly, LoadedIsSaved, Saving
<1> QED
  BY <1>6, <1>7

\* The next session may run another build; a file being written may be cut.
LEMMA RestartOK == ASSUME IInv, Restart PROVE IInv'
<1>0. Vars /\ FilesOK
  BY DEF IInv
<1>1. /\ build' \in Builds /\ now \in Nat /\ now' = now /\ kept' = kept
      /\ machine' = Computed(build', now)
  BY <1>0 DEF Vars, Restart
<1>2. machine' \in Machine /\ \A p \in Parts : machine'[p].build = build'
  BY <1>1, ComputedOK
<1>3. FilesOK' /\ files' \in [Slots -> File]
  <2>1. CASE phase = "saving"
    <3>1. PICK f \in Prefixes(files[slot]) \cup {files[slot]} : files' = [files EXCEPT ![slot] = f]
      BY <2>1 DEF Restart
    <3>2. FileOK(files[slot], kept[slot])
      BY <1>0, <2>1 DEF Vars, FilesOK
    <3>3. FileOK(f, kept[slot])
      BY <3>2, PrefixOK
    <3> QED
      BY <1>1, <2>1, <3>1, <3>3, FileReplaced
  <2>2. CASE phase # "saving"
    BY <1>0, <1>1, <2>2 DEF Restart, Vars, FilesOK
  <2> QED
    BY <2>1, <2>2
<1>4. Vars'
  BY <1>0, <1>1, <1>2, <1>3 DEF Vars, Restart
<1> QED
  BY <1>2, <1>3, <1>4 DEF IInv, OwnKeyOnly, LoadedIsSaved, Saving, Restart

\* Every step keeps the invariant.
LEMMA NextIInv == IInv /\ [Next]_vars => IInv'
<1> SUFFICES ASSUME IInv, [Next]_vars PROVE IInv'
  OBVIOUS
<1>1. CASE UNCHANGED vars
  BY <1>1 DEF vars, IInv, Vars, OwnKeyOnly, LoadedIsSaved, FilesOK, Saving
<1>2. CASE GuestRuns
  BY <1>2, GuestRunsOK
<1>3. CASE ExceptionReturn \/ Request \/ PollEnds
  BY <1>3, PlainOK
<1>4. CASE SaveOpen
  BY <1>4, SaveOpenOK
<1>5. CASE SaveSection
  BY <1>5, SaveSectionOK
<1>6. CASE SaveFails \/ SaveClose
  BY <1>6, SaveEndsOK
<1>7. CASE LoadSucceeds \/ LoadFails
  BY <1>7, LoadOK
<1>8. CASE Restart
  BY <1>8, RestartOK
<1> QED
  BY <1>1, <1>2, <1>3, <1>4, <1>5, <1>6, <1>7, <1>8 DEF Next, savestate_poll

\* The inductive invariant holds in every state.
THEOREM SaveIInv == Spec => []IInv
BY InitIInv, NextIInv, PTL DEF Spec

\* Every variable keeps its type, and a file is a beginning of the section list
\* of boot_state_save.
THEOREM SaveTypeOK == Spec => []TypeOK
<1>1. IInv => TypeOK
  <2> SUFFICES ASSUME IInv PROVE TypeOK
    OBVIOUS
  <2>1. Vars /\ FilesOK
    BY DEF IInv
  <2>2. ASSUME NEW s \in Slots
        PROVE  /\ files[s].there \in BOOLEAN /\ files[s].key \in Nat \cup {None}
               /\ Len(files[s].body) <= Count
               /\ \A i \in 1 .. Len(files[s].body) :
                    files[s].body[i] \in [tag : {Sections[i]}, data : [Covered(Sections[i]) -> Value]]
    <3>1. FileOK(files[s], kept[s]) /\ files[s] \in File
      BY <2>1 DEF FilesOK, FileOK
    <3>2. ASSUME NEW i \in 1 .. Len(files[s].body)
          PROVE  files[s].body[i] \in [tag : {Sections[i]}, data : [Covered(Sections[i]) -> Value]]
      <4>1. InPlace(files[s], i) /\ files[s].body[i] \in Section
        BY <3>1, ElementOfSeq DEF FileOK, File
      <4>2. PICK t \in Tags : files[s].body[i] \in [tag : {t}, data : [Covered(t) -> Value]]
        BY <4>1 DEF Section
      <4> QED
        BY <4>1, <4>2 DEF InPlace
    <3> QED
      BY <3>1, <3>2 DEF FileOK, File
  <2> QED
    BY <2>1, <2>2 DEF TypeOK, Vars
<1> QED
  BY <1>1, SaveIInv, PTL

\* boot_state_load's integrity key: nothing in the machine was computed by a
\* build with another key, whichever builds share one, for any number of slots, sessions, updates and faults.
THEOREM SaveOwnKeyOnly == Spec => []OwnKeyOnly
<1>1. IInv => OwnKeyOnly
  BY DEF IInv
<1> QED
  BY <1>1, SaveIInv, PTL

\* A load that succeeds restores one complete save of its slot, wherever a
\* crash, a full disk or an unnoticed fclose error has cut other ones.
THEOREM SaveLoadedIsSaved == Spec => []LoadedIsSaved
<1>1. IInv => LoadedIsSaved
  BY DEF IInv
<1> QED
  BY <1>1, SaveIInv, PTL
=============================================================================
