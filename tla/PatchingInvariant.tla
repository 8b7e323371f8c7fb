------------------------- MODULE PatchingInvariant --------------------------
(***************************************************************************)
(* Why no text of the customer's is lost: the inductive invariant behind   *)
(* NoUserTextLost.  A command may only touch a file whose last user text   *)
(* some backup holds, or which no longer holds that text.                  *)
(***************************************************************************)
EXTENDS Patching

\* A backup holds what the customer last left in f (or that was no text).
BackedUp(f) ==
  lastUser[f] \in UserTexts => \E r \in Runs : backups[r][f] = lastUser[f]

\* A run that has not started to write has no backups: none gets overwritten.
NoBackupsYet ==
  \A r \in Runs :
    \/ r \in fresh
    \/ r = run /\ pc \in {"planned", "built", "rendered", "validate"}
    => \A f \in Files : backups[r][f] = Absent

\* In the write loop, the files not reached yet have none either.
TodoHasNoBackup ==
  /\ pc = "backup" => \A f \in todo : backups[run][f] = Absent
  /\ pc = "write"  => \A f \in todo : ~IsFirst(f, todo) => backups[run][f] = Absent

\* The file about to be overwritten was just copied, or did not exist.
NextIsCopied ==
  pc = "write" => \A f \in todo : IsFirst(f, todo) =>
                    disk[f] = Absent \/ backups[run][f] = disk[f]

\* The files the restore handler may overwrite are backed up.
WrittenIsBackedUp ==
  pc \in {"backup", "write", "restore"} => \A f \in written : BackedUp(f)

\* Nobody types what the adapters write.
BuiltFromDisk ==
  pc = "built" => \A f \in DOMAIN contents :
                    f \in Files /\ contents[f] = Patch[Text(disk[f])]
EditsAreNotUserTexts ==
  \A f \in DOMAIN edits : edits[f].after \notin UserTexts \cup {Blank}
EntriesAreNotUserTexts ==
  \A r \in Runs : \A f \in DOMAIN manifest[r].entries :
    manifest[r].entries[f].patched \notin UserTexts \cup {Blank}

\* Before the write loop nothing counts as written, and the
\* ids still to be drawn belong to no command and no manifest.
NothingWritten ==
  pc \in {"idle", "planned", "built", "rendered", "validate"} => written = {}
FreshIsUnused == \A r \in fresh : r # run /\ manifest[r].state = "none"

\* The loops visit edits only.
LoopsVisitEdits ==
  pc \in {"validate", "backup", "write"} => todo \subseteq DOMAIN edits

\* An unforced rollback restores only files that still hold the patched text.
RollbackVerified ==
  LET entries == manifest[run].entries
  IN  /\ pc \in {"rbverify", "rbrestore"} => todo \subseteq DOMAIN entries
      /\ pc = "rbverify" => \A f \in DOMAIN entries \ todo :
                              Text(disk[f]) = entries[f].patched
      /\ pc = "rbrestore" /\ ~force => \A f \in todo :
                              Text(disk[f]) = entries[f].patched

UserTextInv ==
  /\ TypeOK
  /\ NoUserTextLost
  /\ NoBackupsYet /\ TodoHasNoBackup /\ NextIsCopied /\ WrittenIsBackedUp
  /\ BuiltFromDisk /\ EditsAreNotUserTexts /\ EntriesAreNotUserTexts
  /\ NothingWritten /\ FreshIsUnused /\ LoopsVisitEdits /\ RollbackVerified

-----------------------------------------------------------------------------
(***************************************************************************)
(* Why a rollback restores exactly what a run found, whatever later runs   *)
(* do and whatever fails: the inductive invariant behind RollbackExact,    *)
(* LiveManifestIsBacked, ManifestTruthful and WritesMatchBase.             *)
(***************************************************************************)

\* The backup of f, or its place among the created, says what f was.
Copied(f) ==
  /\ Text(preimage[run][f]) = edits[f].before
  /\ IF f \in created THEN preimage[run][f] = Absent
     ELSE preimage[run][f] # Absent /\ backups[run][f] = preimage[run][f]

\* A run that has not ended has no manifest, a rollback works on a live one.
RunIsNew ==
  pc \in {"planned", "built", "rendered", "validate", "backup", "write", "restore", "manifest"}
    => manifest[run].state = "none"
RollbackIsOfLive ==
  pc \in {"rbverify", "rbrestore", "rbrename"} => manifest[run].state = "live"

\* What is to be written was made from what was hashed.
EditsArePatches == \A f \in DOMAIN edits : edits[f].after = Patch[edits[f].before]

ValidatedSoFar ==
  pc = "validate" => \A f \in DOMAIN edits \ todo : Text(disk[f]) = edits[f].before

NothingCreated ==
  pc \in {"idle", "planned", "built", "rendered", "validate"} => created = {}

\* In the write loop every file is either done, with its copy, or as it was.
DoneOrUntouched ==
  pc \in {"backup", "write", "manifest"} =>
    /\ pc = "manifest" => todo = {}
    /\ \A f \in DOMAIN edits \ todo : Copied(f) /\ disk[f] = edits[f].after
    /\ \A f \in todo : Text(disk[f]) = edits[f].before
    /\ \A f \in Files \ (DOMAIN edits \ todo) : disk[f] = preimage[run][f]

\* Only the file about to be written may be known as created before its turn.
CopiedInTurn ==
  /\ pc = "backup" => \A f \in todo : f \notin created
  /\ pc = "write"  => \A f \in todo : IF IsFirst(f, todo) THEN Copied(f) ELSE f \notin created

\* A rollback has put back the files it has visited.
RestoredSoFar ==
  pc = "rbrestore" =>
    \A f \in DOMAIN manifest[run].entries \ todo : disk[f] = preimage[run][f]

RollbackInv ==
  /\ RollbackExact /\ ManifestTruthful /\ LiveManifestIsBacked
  /\ RunIsNew /\ RollbackIsOfLive /\ EditsArePatches /\ ValidatedSoFar
  /\ NothingCreated /\ DoneOrUntouched /\ CopiedInTurn /\ RestoredSoFar

-----------------------------------------------------------------------------
(***************************************************************************)
(* Why runs are all or nothing when no write fails half way: what the      *)
(* restore handler has to put back is exactly what was changed.            *)
(***************************************************************************)

\* An empty patch set never gets this far, an empty manifest is never written.
EditsNotEmpty ==
  pc \in {"rendered", "validate", "backup", "write", "restore", "manifest"}
    => DOMAIN edits # {}
EntriesNotEmpty ==
  \A r \in Runs : manifest[r].state = "live" => DOMAIN manifest[r].entries # {}

\* What is done is what the handler would restore.
WrittenIsDone == pc \in {"backup", "write"} => written = DOMAIN edits \ todo

\* A file is on `written` and has its copy, or it is as it was.
HandlerRestores ==
  pc = "restore" =>
    /\ written \subseteq DOMAIN edits
    /\ \A f \in Files :
         IF f \in written
         THEN preimage[run][f] = IF f \in created THEN Absent ELSE backups[run][f]
         ELSE disk[f] = preimage[run][f]

AtomicInv == EditsNotEmpty /\ EntriesNotEmpty /\ WrittenIsDone /\ HandlerRestores

\* runs/latest names a live manifest, or the one whose rollback is ending.
LatestInv ==
  /\ latest # NoRun => /\ latest \in Runs
                       /\ \/ manifest[latest].state = "live"
                          \/ pc = "rblatest" /\ latest = run
  /\ pc = "latest" => manifest[run].state = "live"
=============================================================================
