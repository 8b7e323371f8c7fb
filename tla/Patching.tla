------------------------------ MODULE Patching ------------------------------
(***************************************************************************)
(* The patch executor of cekura-agent (src/cekura_agent/patching.py) and   *)
(* the part of integrate_repo that calls it: inspect -> plan -> build ->   *)
(* render -> validate -> (backup -> write)* -> manifest -> latest, the     *)
(* restore handler, and rollback_run.  One command runs at a time; the     *)
(* customer's editor, exceptions and kills interleave with it.             *)
(*                                                                         *)
(* A file holds a text or is Absent.  Hashes are taken to be injective, so *)
(* a hash comparison is a comparison of texts.  Files are numbered in path *)
(* order: the code sorts the touched files and keeps that order.           *)
(***************************************************************************)
EXTENDS Naturals

CONSTANTS
  Files,       \* target files, numbered in path order
  Runs,        \* run ids (uuid4: never used twice)
  Texts,       \* contents a file can have
  UserTexts,   \* the ones a person writes
  Blank,       \* the empty text
  Absent,      \* no such file
  NoRun,       \* no run id
  Patch,       \* text |-> the text build_file_edits makes of it
  EditPoints,  \* program points at which the customer's editor may save a file
  Faults,      \* operations that may raise: see the ...Fails actions
  Crashes,     \* TRUE when the process may be killed
  MaxEdits     \* bound: saves by the customer's editor

ASSUME FilesOrdered == Files \subseteq Nat
ASSUME TextsAssumption ==
  /\ Blank \in Texts /\ Absent \notin Texts
  /\ UserTexts \subseteq Texts \ {Blank}
ASSUME RunsAssumption == NoRun \notin Runs
\* The adapters only add text, and what they add nobody types by hand.
ASSUME PatchAssumption ==
  /\ Patch \in [Texts -> Texts]
  /\ \A t \in Texts : Patch[t] # t => Patch[t] \notin UserTexts \cup {Blank}
ASSUME BoundAssumption == MaxEdits \in Nat /\ Crashes \in BOOLEAN

Content == Texts \cup {Absent}

\* What read_text (or "" for a missing file) makes of a file.
Text(c) == IF c = Absent THEN Blank ELSE c

VARIABLES
  disk,      \* file |-> its content
  backups,   \* run |-> file |-> the copy under backups/<run_id>/
  manifest,  \* run |-> runs/<run_id>.json
  latest,    \* the id in runs/latest
  fresh,     \* run ids not drawn yet
  pc, run,   \* the command in progress and its run
  contents,  \* build_file_edits: file |-> new text
  edits,     \* the PatchSet: file |-> hash before and after
  todo,      \* edits (entries) the current loop has still to visit
  written,   \* files in `written` of apply_patchset
  created,   \* files whose backup_path is None
  force,     \* rollback --force
  \* observers: read by properties only
  preimage,  \* run |-> the disk when its validation passed
  lastUser,  \* file |-> what the customer last left there
  saves      \* number of saves so far

store    == <<backups, manifest, latest>>
locals   == <<run, contents, edits, todo, written, created, force>>
observed == <<preimage, lastUser, saves>>
vars     == <<disk, store, fresh, pc, locals, observed>>

PCs == {"idle", "planned", "built", "rendered", "validate", "backup", "write", "restore",
        "manifest", "latest", "rbverify", "rbrestore", "rbrename", "rblatest"}
FaultKinds == {"backup", "open", "write", "restore", "manifest", "latest",
               "rbrestore", "rbrename", "rblatest"}

Entry     == [original : Texts, patched : Texts, created : BOOLEAN]
PartialTo(S) == UNION {[D -> S] : D \in SUBSET Files}
\* "torn": truncated by a write that failed, so json.loads refuses it.
Manifest  == [state : {"none", "torn", "live", "rolledback"},
              entries : PartialTo(Entry)]
Nothing   == [f \in {} |-> Blank]
NoTree    == [f \in Files |-> Absent]

StoreTypeOK ==
  /\ disk \in [Files -> Content]
  /\ backups \in [Runs -> [Files -> Content]]
  /\ manifest \in [Runs -> Manifest]
  /\ latest \in Runs \cup {NoRun}
  /\ fresh \subseteq Runs
  /\ preimage \in [Runs -> [Files -> Content]]
  /\ lastUser \in [Files -> Content]
  /\ saves \in 0..MaxEdits

LocalTypeOK ==
  /\ pc \in PCs
  /\ run \in Runs \cup {NoRun}
  /\ pc # "idle" => run \in Runs
  /\ contents \in PartialTo(Texts)
  /\ edits \in PartialTo([before : Texts, after : Texts])
  /\ todo \subseteq Files /\ written \subseteq Files /\ created \subseteq Files
  /\ force \in BOOLEAN

TypeOK == StoreTypeOK /\ LocalTypeOK

Init ==
  /\ disk \in [Files -> UserTexts \cup {Blank, Absent}]
  /\ backups = [r \in Runs |-> [f \in Files |-> Absent]]
  /\ manifest = [r \in Runs |-> [state |-> "none", entries |-> Nothing]]
  /\ latest = NoRun
  /\ fresh = Runs
  /\ pc = "idle" /\ run = NoRun
  /\ contents = Nothing /\ edits = Nothing
  /\ todo = {} /\ written = {} /\ created = {} /\ force = FALSE
  /\ preimage = [r \in Runs |-> NoTree]
  /\ lastUser = disk
  /\ saves = 0

-----------------------------------------------------------------------------
IsFirst(f, S) == f \in S /\ \A g \in S : f <= g
IsLast(f, S)  == f \in S /\ \A g \in S : g <= f

\* The command ends, by return or by exception: its locals are gone.
Return ==
  /\ pc' = "idle" /\ run' = NoRun
  /\ contents' = Nothing /\ edits' = Nothing
  /\ todo' = {} /\ written' = {} /\ created' = {} /\ force' = FALSE

Goto(p) == pc' = p /\ UNCHANGED <<run, contents, edits, force>>

-----------------------------------------------------------------------------
(* integrate_repo: inspect, plan, render                                   *)

\* Mutant: the plan's id is kept, no run id is drawn.
InspectDrawsNoId(r) ==
  /\ pc = "idle" /\ r \in fresh
  /\ fresh' = fresh \ {r}
  /\ pc' = "planned"
  /\ UNCHANGED <<disk, store, run, contents, edits, todo, written, created, force,
                 observed>>

\* Mutant: a run id that can come up again.
InspectReusesId(r) ==
  /\ pc = "idle" /\ r \in fresh
  /\ pc' = "planned" /\ run' = r
  /\ UNCHANGED <<disk, store, fresh, contents, edits, todo, written, created, force,
                 observed>>

\* A new run id, the inspection (files read and stamped) and the plan.
Inspect(r) ==
  /\ pc = "idle" /\ r \in fresh
  /\ fresh' = fresh \ {r}
  /\ pc' = "planned" /\ run' = r
  /\ UNCHANGED <<disk, store, contents, edits, todo, written, created, force,
                 observed>>

\* Gate, planner or adapter refuses, or nothing is to be applied (dry run).
StopBeforeApply ==
  /\ pc \in {"planned", "built", "rendered"}
  /\ Return
  /\ UNCHANGED <<disk, store, fresh, observed>>

\* build_file_edits: reads the targets as they are now, not as inspected.
Build(T) ==
  /\ pc = "planned"
  /\ contents' = [f \in T |-> Patch[Text(disk[f])]]
  /\ pc' = "built"
  /\ UNCHANGED <<disk, store, fresh, run, edits, todo, written, created, force,
                 observed>>

\* render reads every target a second time for `before`; an empty patch set
\* is reported as a no-op.
Render ==
  /\ pc = "built"
  /\ LET changed == {f \in DOMAIN contents : Text(disk[f]) # contents[f]}
     IN  IF changed = {}
         THEN Return
         ELSE /\ edits' = [f \in changed |-> [before |-> Text(disk[f]),
                                              after  |-> contents[f]]]
              /\ pc' = "rendered"
              /\ contents' = Nothing   \* carried by edits[f].after from here
              /\ UNCHANGED <<run, todo, written, created, force>>
  /\ UNCHANGED <<disk, store, fresh, observed>>

-----------------------------------------------------------------------------
(* apply_patchset                                                          *)

BeginApply ==
  /\ pc = "rendered"
  /\ todo' = DOMAIN edits
  /\ Goto("validate")
  /\ UNCHANGED <<disk, store, fresh, written, created, observed>>

\* Mutant: no hash comparison before the writes.
ValidateSkipsHash(f) ==
  /\ pc = "validate" /\ IsFirst(f, todo)
  /\ IF todo = {f}
     THEN /\ Goto("backup")
          /\ todo' = DOMAIN edits
          /\ preimage' = [preimage EXCEPT ![run] = disk]
     ELSE Goto("validate") /\ todo' = todo \ {f} /\ UNCHANGED preimage
  /\ UNCHANGED <<disk, store, fresh, written, created, lastUser, saves>>

\* Pre-validation of one edit; the last one opens the write loop.
Validate(f) ==
  /\ pc = "validate" /\ IsFirst(f, todo)
  /\ IF Text(disk[f]) # edits[f].before
     THEN Return /\ UNCHANGED preimage
     ELSE IF todo = {f}
     THEN /\ Goto("backup")
          /\ todo' = DOMAIN edits
          /\ preimage' = [preimage EXCEPT ![run] = disk]
          /\ UNCHANGED <<written, created>>
     ELSE /\ Goto("validate")
          /\ todo' = todo \ {f}
          /\ UNCHANGED <<written, created, preimage>>
  /\ UNCHANGED <<disk, store, fresh, lastUser, saves>>

\* Mutant: `created` is computed once the file is there.
BackupCreatedLate(f) ==
  /\ pc = "backup" /\ IsFirst(f, todo)
  /\ Goto("write")
  /\ backups' = [backups EXCEPT ![run][f] = disk[f]]
  /\ UNCHANGED <<disk, manifest, latest, fresh, todo, written, created, observed>>

\* created = not target.exists(); otherwise copy2(target, backup).
Backup(f) ==
  /\ pc = "backup" /\ IsFirst(f, todo)
  /\ Goto("write")
  /\ IF disk[f] = Absent
     THEN created' = created \cup {f} /\ UNCHANGED backups
     ELSE /\ backups' = [backups EXCEPT ![run][f] = disk[f]]
          /\ UNCHANGED created
  /\ UNCHANGED <<disk, manifest, latest, fresh, todo, written, observed>>

\* Mutant: the file is not put on `written`.
WriteForgetsFile(f) ==
  /\ pc = "write" /\ IsFirst(f, todo)
  /\ disk' = [disk EXCEPT ![f] = edits[f].after]
  /\ todo' = todo \ {f}
  /\ Goto(IF todo = {f} THEN "manifest" ELSE "backup")
  /\ UNCHANGED <<store, fresh, written, created, observed>>

\* write_text succeeded: only now is the file put on `written`.
Write(f) ==
  /\ pc = "write" /\ IsFirst(f, todo)
  /\ disk' = [disk EXCEPT ![f] = edits[f].after]
  /\ written' = written \cup {f}
  /\ todo' = todo \ {f}
  /\ Goto(IF todo = {f} THEN "manifest" ELSE "backup")
  /\ UNCHANGED <<store, fresh, created, observed>>

\* copy2, mkdir or opening the target raises: the target is as it was.
CopyOrOpenFails ==
  /\ \/ pc = "backup" /\ "backup" \in Faults
     \/ pc = "write" /\ "open" \in Faults
  /\ Goto("restore")
  /\ UNCHANGED <<disk, store, fresh, todo, written, created, observed>>

\* write_text raises after it truncated the target (disk full).
WriteFails(f) ==
  /\ pc = "write" /\ IsFirst(f, todo) /\ "write" \in Faults
  /\ disk' = [disk EXCEPT ![f] = Blank]
  /\ Goto("restore")
  /\ UNCHANGED <<store, fresh, todo, written, created, observed>>

\* Mutant: the handler leaves the files the run created.
RestoreKeepsCreated(f) ==
  /\ pc = "restore" /\ IsLast(f, written)
  /\ disk' = [disk EXCEPT ![f] = IF f \in created THEN @ ELSE backups[run][f]]
  /\ written' = written \ {f}
  /\ Goto("restore")
  /\ UNCHANGED <<store, fresh, todo, created, observed>>

\* The except clause, newest write first.
Restore(f) ==
  /\ pc = "restore" /\ IsLast(f, written)
  /\ disk' = [disk EXCEPT ![f] = IF f \in created THEN Absent
                                                  ELSE backups[run][f]]
  /\ written' = written \ {f}
  /\ Goto("restore")
  /\ UNCHANGED <<store, fresh, todo, created, observed>>

Reraise ==
  /\ pc = "restore" /\ written = {}
  /\ Return
  /\ UNCHANGED <<disk, store, fresh, observed>>

\* unlink or copy2 raises inside the handler: the other files stay as they are.
RestoreFails(f) ==
  /\ pc = "restore" /\ IsLast(f, written) /\ "restore" \in Faults
  /\ \/ UNCHANGED disk
     \/ f \notin created /\ disk' = [disk EXCEPT ![f] = Blank]
  /\ Return
  /\ UNCHANGED <<store, fresh, observed>>

WriteManifest ==
  /\ pc = "manifest"
  /\ manifest' = [manifest EXCEPT ![run] =
       [state   |-> "live",
        entries |-> [f \in DOMAIN edits |-> [original |-> edits[f].before,
                                             patched  |-> edits[f].after,
                                             created  |-> f \in created]]]]
  /\ Goto("latest")
  /\ UNCHANGED <<disk, backups, latest, fresh, todo, written, created, observed>>

WriteLatest ==
  /\ pc = "latest"
  /\ latest' = run
  /\ Return
  /\ UNCHANGED <<disk, backups, manifest, fresh, observed>>

\* mkdir or write_text raises outside the try block: nothing is restored.
ManifestFails ==
  /\ pc = "manifest" /\ "manifest" \in Faults
  /\ \/ UNCHANGED manifest
     \/ manifest' = [manifest EXCEPT ![run].state = "torn"]
  /\ Return
  /\ UNCHANGED <<disk, backups, latest, fresh, observed>>

\* A truncated runs/latest names no run: load_manifest refuses it like none.
LatestFails ==
  /\ pc = "latest" /\ "latest" \in Faults
  /\ latest' \in {latest, NoRun}
  /\ Return
  /\ UNCHANGED <<disk, backups, manifest, fresh, observed>>

-----------------------------------------------------------------------------
(* rollback_run                                                            *)

\* load_manifest with a run id, or the one in runs/latest.
StartRollback(r, forced) ==
  /\ pc = "idle" /\ manifest[r].state = "live"
  /\ run' = r /\ force' = forced
  /\ todo' = DOMAIN manifest[r].entries
  /\ pc' = IF forced THEN "rbrestore" ELSE "rbverify"
  /\ UNCHANGED <<disk, store, fresh, contents, edits, written, created,
                 observed>>

\* Mutant: rollback does not look at the files it restores.
RbVerifySkipsHash(f) ==
  /\ pc = "rbverify" /\ IsFirst(f, todo)
  /\ IF todo = {f}
     THEN Goto("rbrestore") /\ todo' = DOMAIN manifest[run].entries
     ELSE Goto("rbverify") /\ todo' = todo \ {f}
  /\ UNCHANGED <<disk, store, fresh, written, created, observed>>

\* One entry must still hold the text the patch wrote.
RbVerify(f) ==
  /\ pc = "rbverify" /\ IsFirst(f, todo)
  /\ IF Text(disk[f]) # manifest[run].entries[f].patched
     THEN Return
     ELSE IF todo = {f}
     THEN /\ Goto("rbrestore")
          /\ todo' = DOMAIN manifest[run].entries
          /\ UNCHANGED <<written, created>>
     ELSE /\ Goto("rbverify")
          /\ todo' = todo \ {f}
          /\ UNCHANGED <<written, created>>
  /\ UNCHANGED <<disk, store, fresh, observed>>

\* Whoever passes --force gives up what is on disk.
GiveUp(f) == lastUser' = IF force THEN [lastUser EXCEPT ![f] = disk'[f]]
                                  ELSE lastUser

\* Mutant: rollback empties the files the run created instead of deleting them.
RbRestoreEmpties(f) ==
  /\ pc = "rbrestore" /\ IsFirst(f, todo)
  /\ disk' = [disk EXCEPT ![f] = IF manifest[run].entries[f].created
                                 THEN Blank ELSE backups[run][f]]
  /\ GiveUp(f)
  /\ todo' = todo \ {f}
  /\ Goto(IF todo = {f} THEN "rbrename" ELSE "rbrestore")
  /\ UNCHANGED <<store, fresh, written, created, preimage, saves>>

RbRestore(f) ==
  /\ pc = "rbrestore" /\ IsFirst(f, todo)
  /\ disk' = [disk EXCEPT ![f] = IF manifest[run].entries[f].created
                                 THEN Absent ELSE backups[run][f]]
  /\ GiveUp(f)
  /\ todo' = todo \ {f}
  /\ Goto(IF todo = {f} THEN "rbrename" ELSE "rbrestore")
  /\ UNCHANGED <<store, fresh, written, created, preimage, saves>>

\* The manifest is set aside first, runs/latest is cleared after.
RbRename ==
  /\ pc = "rbrename"
  /\ manifest' = [manifest EXCEPT ![run].state = "rolledback"]
  /\ Goto("rblatest")
  /\ UNCHANGED <<disk, backups, latest, fresh, todo, written, created, observed>>

\* Mutant: runs/latest is not cleared.
RbLatestKeeps ==
  /\ pc = "rblatest"
  /\ Return
  /\ UNCHANGED <<disk, store, fresh, observed>>

RbLatest ==
  /\ pc = "rblatest"
  /\ latest' = IF latest = run THEN NoRun ELSE latest
  /\ Return
  /\ UNCHANGED <<disk, backups, manifest, fresh, observed>>

RbRestoreFails(f) ==
  /\ pc = "rbrestore" /\ IsFirst(f, todo) /\ "rbrestore" \in Faults
  /\ \/ UNCHANGED <<disk, lastUser>>
     \/ /\ ~manifest[run].entries[f].created
        /\ disk' = [disk EXCEPT ![f] = Blank]
        /\ GiveUp(f)
  /\ Return
  /\ UNCHANGED <<store, fresh, preimage, saves>>

RbFinishFails ==
  /\ pc \in {"rbrename", "rblatest"} /\ pc \in Faults
  /\ Return
  /\ UNCHANGED <<disk, store, fresh, observed>>

-----------------------------------------------------------------------------
(* The environment                                                         *)

\* The process is killed; a write or copy under way leaves a truncated file.
Crash ==
  /\ Crashes /\ pc # "idle"
  /\ \/ UNCHANGED <<disk, store, lastUser>>
     \/ /\ pc = "write"
        /\ \E f \in todo : IsFirst(f, todo) /\ disk' = [disk EXCEPT ![f] = Blank]
        /\ UNCHANGED <<store, lastUser>>
     \/ /\ pc = "restore"
        /\ \E f \in written \ created :
             IsLast(f, written) /\ disk' = [disk EXCEPT ![f] = Blank]
        /\ UNCHANGED <<store, lastUser>>
     \/ /\ pc = "rbrestore"
        /\ \E f \in todo : /\ IsFirst(f, todo)
                           /\ ~manifest[run].entries[f].created
                           /\ disk' = [disk EXCEPT ![f] = Blank]
                           /\ GiveUp(f)
        /\ UNCHANGED store
     \/ /\ pc = "manifest"
        /\ manifest' = [manifest EXCEPT ![run].state = "torn"]
        /\ UNCHANGED <<disk, backups, latest, lastUser>>
     \/ /\ pc = "latest"
        /\ latest' = NoRun
        /\ UNCHANGED <<disk, backups, manifest, lastUser>>
  /\ Return
  /\ UNCHANGED <<fresh, preimage, saves>>

\* The customer saves, empties or deletes a file.
UserSaves(f, c) ==
  /\ pc \in EditPoints /\ saves < MaxEdits
  /\ disk[f] # c
  /\ disk' = [disk EXCEPT ![f] = c]
  /\ lastUser' = [lastUser EXCEPT ![f] = c]
  /\ saves' = saves + 1
  /\ UNCHANGED <<store, fresh, pc, locals, preimage>>

-----------------------------------------------------------------------------
Integrate ==
  \/ \E r \in Runs : Inspect(r)
  \/ StopBeforeApply \/ Render \/ BeginApply
  \/ \E T \in SUBSET Files : Build(T)
  \/ \E f \in Files : Validate(f) \/ Backup(f) \/ Write(f) \/ Restore(f)
  \/ Reraise \/ WriteManifest \/ WriteLatest

Rollback ==
  \/ \E r \in Runs, forced \in BOOLEAN : StartRollback(r, forced)
  \/ \E f \in Files : RbVerify(f) \/ RbRestore(f)
  \/ RbRename \/ RbLatest

Exceptions ==
  \/ CopyOrOpenFails \/ ManifestFails \/ LatestFails \/ RbFinishFails
  \/ \E f \in Files : WriteFails(f) \/ RestoreFails(f) \/ RbRestoreFails(f)

Next ==
  \/ Integrate \/ Rollback \/ Exceptions \/ Crash
  \/ \E f \in Files, c \in UserTexts \cup {Blank, Absent} : UserSaves(f, c)

Spec == Init /\ [][Next]_vars
-----------------------------------------------------------------------------
(* Properties                                                              *)

\* What the customer last left in a file is on disk or in some run's backups,
\* whatever failed or was killed, unless a --force rollback gave it up
\* ("originals are backed up before any write"; unforced rollback refuses).
NoUserTextLost ==
  \A f \in Files : lastUser[f] \in UserTexts =>
    disk[f] = lastUser[f] \/ \E r \in Runs : backups[r][f] = lastUser[f]

\* When a rollback has visited every entry, each file is what it was when
\* the run was validated, the ones that did not exist being gone again.
RollbackExact ==
  pc = "rbrename" =>
    \A f \in DOMAIN manifest[run].entries : disk[f] = preimage[run][f]

\* A manifest that has just been written tells the truth about the whole tree:
\* its entries hold the patched text and name the right original, and no other
\* file differs from what was validated.
ManifestTruthful ==
  pc = "latest" =>
    \A f \in Files :
      IF f \in DOMAIN manifest[run].entries
      THEN LET e == manifest[run].entries[f]
           IN  /\ disk[f] = e.patched
               /\ e.original = Text(preimage[run][f])
               /\ e.created <=> preimage[run][f] = Absent
      ELSE disk[f] = preimage[run][f]

\* A live manifest keeps the means of its own rollback: every entry of a file
\* that existed has a backup with the recorded hash, even after later runs.
LiveManifestIsBacked ==
  \A r \in Runs : manifest[r].state = "live" =>
    \A f \in DOMAIN manifest[r].entries :
      LET e == manifest[r].entries[f]
      IN  IF e.created THEN preimage[r][f] = Absent
          ELSE backups[r][f] = preimage[r][f] /\ Text(backups[r][f]) = e.original

\* An exception that leaves apply_patchset leaves the tree as validated
\* ("a mid-apply failure restores every already-written file (all-or-nothing)").
ApplyRaises ==
  /\ pc \in {"backup", "write", "restore", "manifest", "latest"} /\ pc' = "idle"
  /\ latest' # run
AllOrNothing == [][ApplyRaises => disk' = preimage[run]]_vars

\* The text about to be written was computed from the text now in the file
\* ("nothing is written unless every target still matches the content the
\* patch was computed against").
WritesMatchBase ==
  pc = "write" =>
    \A f \in Files : IsFirst(f, todo) => edits[f].after = Patch[Text(disk[f])]

\* Between commands, runs/latest names a run that load_manifest accepts.
LatestLoadable ==
  pc = "idle" /\ latest # NoRun => manifest[latest].state = "live"
=============================================================================
