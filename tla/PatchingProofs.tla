--------------------------- MODULE PatchingProofs ---------------------------
(***************************************************************************)
(* For any files, runs, texts, faults and kills: type correctness, and no  *)
(* text of the customer's is lost as long as nobody saves a file inside    *)
(* the windows SafePoints closes.  Then, as long as nobody saves between a *)
(* run's validation and its end, or during a rollback (Quiet): what is     *)
(* written was made from the text it replaces, a manifest just written is  *)
(* true of the whole tree, it stays backed by exact copies whatever later  *)
(* runs do, and a rollback that has gone through restores what its run     *)
(* found.  When no write, restore or manifest fails half way besides, the  *)
(* executor implements AtomicRuns and an exception leaves the tree as it   *)
(* was validated; and runs/latest names a loadable run as long as no       *)
(* rollback is cut short before it has cleared it.                         *)
(***************************************************************************)
EXTENDS PatchingInvariant, PatchingRefinement, TLAPS

\* The windows in which a save can be lost.
Windows == {"built", "backup", "write", "restore", "rbverify", "rbrestore"}
SafePoints == EditPoints \cap Windows = {}

-----------------------------------------------------------------------------
(* Typing                                                                  *)

\* A function on some of the files is a partial function on them.
LEMMA PartialFunction ==
  ASSUME NEW S, NEW D \in SUBSET Files, NEW F \in [D -> S]
  PROVE  F \in PartialTo(S)
BY DEF PartialTo

\* And conversely.
LEMMA PartialDomain ==
  ASSUME NEW S, NEW F \in PartialTo(S)
  PROVE  /\ DOMAIN F \subseteq Files
         /\ \A f \in DOMAIN F : F[f] \in S
BY DEF PartialTo

\* The empty function is one.
LEMMA NothingIsPartial == \A S : Nothing \in PartialTo(S)
<1>1. SUFFICES ASSUME NEW S PROVE Nothing \in PartialTo(S)
  OBVIOUS
<1>2. Nothing \in [{} -> S]
  BY DEF Nothing
<1>3. QED
  BY <1>2, PartialFunction

\* Reading a file gives a text.
LEMMA TextIsText ==
  ASSUME NEW c \in Content
  PROVE  Text(c) \in Texts
BY TextsAssumption DEF Content, Text

\* The entries of a manifest are typed records of files.
LEMMA EntryTyped ==
  ASSUME StoreTypeOK, NEW r \in Runs, NEW f \in DOMAIN manifest[r].entries
  PROVE  f \in Files /\ manifest[r].entries[f] \in Entry
<1>1. manifest[r].entries \in PartialTo(Entry)
  BY DEF StoreTypeOK, Manifest
<1>2. QED
  BY <1>1, PartialDomain

\* A command that ends leaves typed locals.
LEMMA ReturnTyped ==
  ASSUME Return
  PROVE  LocalTypeOK'
<1>1. Nothing \in PartialTo(Texts) /\ Nothing \in PartialTo([before : Texts, after : Texts])
  BY NothingIsPartial
<1>2. QED
  BY <1>1 DEF Return, LocalTypeOK, PCs

\* So does a step inside a command.
LEMMA GotoTyped ==
  ASSUME LocalTypeOK, NEW p \in PCs, pc # "idle", Goto(p),
         todo' \subseteq Files, written' \subseteq Files, created' \subseteq Files
  PROVE  LocalTypeOK'
BY DEF Goto, LocalTypeOK

-----------------------------------------------------------------------------
(* What steps have in common                                               *)

\* A command that ends keeps the invariant if it keeps what is on disk right.
LEMMA ReturnInv ==
  ASSUME UserTextInv, Return, StoreTypeOK', NoUserTextLost',
         EntriesAreNotUserTexts', UNCHANGED <<fresh, backups>>,
         \A r \in fresh : manifest'[r] = manifest[r]
  PROVE  UserTextInv'
<1>1. NoBackupsYet'
  BY DEF UserTextInv, NoBackupsYet, Return
<1>2. LocalTypeOK'
  BY ReturnTyped
<1>3. EditsAreNotUserTexts'
  BY DEF Return, EditsAreNotUserTexts, Nothing
<1>4. QED
  BY <1>1, <1>2, <1>3, RunsAssumption DEF Return, UserTextInv, TypeOK, StoreTypeOK,
     TodoHasNoBackup, NextIsCopied, WrittenIsBackedUp, BuiltFromDisk, NothingWritten,
     FreshIsUnused, LoopsVisitEdits, RollbackVerified

\* Ending without having touched the store.
LEMMA QuietReturn ==
  ASSUME UserTextInv, Return,
         UNCHANGED <<disk, backups, manifest, fresh, preimage, lastUser, saves>>,
         latest' \in Runs \cup {NoRun}
  PROVE  UserTextInv'
<1>1. StoreTypeOK'
  BY DEF UserTextInv, TypeOK, StoreTypeOK
<1>2. NoUserTextLost'
  BY DEF UserTextInv, NoUserTextLost
<1>3. EntriesAreNotUserTexts'
  BY DEF UserTextInv, EntriesAreNotUserTexts
<1>4. QED
  BY <1>1, <1>2, <1>3, ReturnInv

\* A backed-up file may be overwritten.
LEMMA OverwriteBackedUp ==
  ASSUME StoreTypeOK, NoUserTextLost, NEW f \in Files, BackedUp(f), NEW c,
         disk' = [disk EXCEPT ![f] = c], UNCHANGED <<backups, lastUser>>
  PROVE  NoUserTextLost'
BY DEF StoreTypeOK, NoUserTextLost, BackedUp

\* So may one the customer gave up.
LEMMA OverwriteGivenUp ==
  ASSUME StoreTypeOK, NoUserTextLost, NEW f \in Files, NEW c \in Content,
         disk' = [disk EXCEPT ![f] = c], UNCHANGED backups,
         lastUser' = [lastUser EXCEPT ![f] = disk'[f]]
  PROVE  NoUserTextLost'
BY DEF StoreTypeOK, NoUserTextLost

-----------------------------------------------------------------------------
(* integrate_repo                                                          *)

\* A new run has no backups.
LEMMA InspectInv ==
  ASSUME UserTextInv, NEW r \in Runs, Inspect(r)
  PROVE  UserTextInv'
<1>1. TypeOK'
  BY DEF UserTextInv, Inspect, TypeOK, StoreTypeOK, LocalTypeOK, PCs, store, observed
<1>2. NoBackupsYet'
  BY DEF UserTextInv, Inspect, NoBackupsYet, store
<1>3. NoUserTextLost' /\ EditsAreNotUserTexts' /\ EntriesAreNotUserTexts'
  BY DEF UserTextInv, Inspect, NoUserTextLost, EditsAreNotUserTexts,
     EntriesAreNotUserTexts, store, observed
<1>4. QED
  BY <1>1, <1>2, <1>3 DEF Inspect, UserTextInv, TodoHasNoBackup, NextIsCopied,
     WrittenIsBackedUp, BuiltFromDisk, NothingWritten, FreshIsUnused, LoopsVisitEdits,
     RollbackVerified, store

\* What is built is what the adapters make of the files as they are.
LEMMA BuildInv ==
  ASSUME UserTextInv, NEW T \in SUBSET Files, Build(T)
  PROVE  UserTextInv'
<1>1. LocalTypeOK'
  <2>1. \A f \in T : Text(disk[f]) \in Texts
    BY TextIsText DEF UserTextInv, TypeOK, StoreTypeOK
  <2>2. contents' \in [T -> Texts]
    BY <2>1, PatchAssumption DEF Build
  <2>3. contents' \in PartialTo(Texts)
    BY <2>2, PartialFunction
  <2>4. QED
    BY <2>3 DEF UserTextInv, TypeOK, LocalTypeOK, Build, PCs
<1>2. StoreTypeOK' /\ NoUserTextLost' /\ EditsAreNotUserTexts' /\ EntriesAreNotUserTexts'
  BY DEF UserTextInv, TypeOK, Build, StoreTypeOK, NoUserTextLost, EditsAreNotUserTexts,
     EntriesAreNotUserTexts, store, observed
<1>3. NoBackupsYet'
  BY DEF UserTextInv, Build, NoBackupsYet, store
<1>4. BuiltFromDisk'
  BY DEF Build, BuiltFromDisk
<1>5. QED
  BY <1>1, <1>2, <1>3, <1>4 DEF Build, UserTextInv, TypeOK, TodoHasNoBackup, NextIsCopied,
     WrittenIsBackedUp, NothingWritten, FreshIsUnused, LoopsVisitEdits, RollbackVerified, store

\* No file changes between the two reads, so what differs was patched.
LEMMA RenderInv ==
  ASSUME UserTextInv, Render
  PROVE  UserTextInv'
<1> DEFINE changed == {f \in DOMAIN contents : Text(disk[f]) # contents[f]}
<1>1. CASE changed = {}
  BY <1>1, QuietReturn DEF Render, store, observed, UserTextInv, TypeOK, StoreTypeOK
<1>2. CASE changed # {}
  <2>1. /\ edits' = [f \in changed |-> [before |-> Text(disk[f]), after |-> contents[f]]]
        /\ pc = "built" /\ pc' = "rendered" /\ contents' = Nothing
        /\ UNCHANGED <<run, todo, written, created, force, disk, store, fresh, observed>>
    BY <1>2 DEF Render
  <2>2. /\ DOMAIN contents \subseteq Files
        /\ \A f \in DOMAIN contents : contents[f] \in Texts
    BY PartialDomain DEF UserTextInv, TypeOK, LocalTypeOK
  <2>3. \A f \in changed : Text(disk[f]) \in Texts
    BY <2>2, TextIsText DEF UserTextInv, TypeOK, StoreTypeOK
  <2>4. LocalTypeOK'
    <3>1. edits' \in [changed -> [before : Texts, after : Texts]]
      BY <2>1, <2>2, <2>3
    <3>2. edits' \in PartialTo([before : Texts, after : Texts])
      BY <3>1, <2>2, PartialFunction
    <3>3. contents' \in PartialTo(Texts)
      BY <2>1, NothingIsPartial
    <3>4. QED
      BY <2>1, <3>2, <3>3 DEF UserTextInv, TypeOK, LocalTypeOK, PCs
  <2>5. EditsAreNotUserTexts'
    <3>1. \A f \in changed : contents[f] = Patch[Text(disk[f])]
      BY <2>1 DEF UserTextInv, BuiltFromDisk
    <3>2. \A f \in changed : contents[f] \notin UserTexts \cup {Blank}
      BY <3>1, <2>3, PatchAssumption
    <3>3. QED
      BY <2>1, <3>2 DEF EditsAreNotUserTexts
  <2>6. StoreTypeOK' /\ NoUserTextLost' /\ EntriesAreNotUserTexts' /\ NoBackupsYet'
    BY <2>1 DEF UserTextInv, TypeOK, StoreTypeOK, NoUserTextLost, EntriesAreNotUserTexts,
       NoBackupsYet, store, observed
  <2>7. QED
    BY <2>1, <2>4, <2>5, <2>6 DEF UserTextInv, TypeOK, TodoHasNoBackup, NextIsCopied,
       WrittenIsBackedUp, BuiltFromDisk, NothingWritten, FreshIsUnused, LoopsVisitEdits,
     RollbackVerified, store
<1>3. QED
  BY <1>1, <1>2

\* Entering validation only fills todo with the edited files.
LEMMA BeginApplyInv ==
  ASSUME UserTextInv, BeginApply
  PROVE  UserTextInv'
<1>1. todo' = DOMAIN edits /\ DOMAIN edits \subseteq Files
  BY PartialDomain DEF UserTextInv, TypeOK, LocalTypeOK, BeginApply
<1>2. LocalTypeOK'
  BY <1>1 DEF UserTextInv, TypeOK, LocalTypeOK, BeginApply, Goto, PCs
<1>3. StoreTypeOK' /\ NoUserTextLost' /\ NoBackupsYet'
  BY DEF UserTextInv, TypeOK, BeginApply, Goto, StoreTypeOK, NoUserTextLost,
     NoBackupsYet, store, observed
<1>4. EditsAreNotUserTexts' /\ EntriesAreNotUserTexts' /\ LoopsVisitEdits'
  BY <1>1 DEF UserTextInv, BeginApply, Goto, EditsAreNotUserTexts, EntriesAreNotUserTexts,
     LoopsVisitEdits, store
<1>5. QED
  BY <1>2, <1>3, <1>4 DEF BeginApply, Goto, UserTextInv, TypeOK, TodoHasNoBackup, NextIsCopied,
     WrittenIsBackedUp, BuiltFromDisk, NothingWritten, FreshIsUnused, RollbackVerified, store

-----------------------------------------------------------------------------
(* apply_patchset                                                          *)

\* When the write loop opens, no edit has a backup and nothing is written.
LEMMA ValidateInv ==
  ASSUME UserTextInv, NEW f \in Files, Validate(f)
  PROVE  UserTextInv'
<1>1. CASE Text(disk[f]) # edits[f].before
  BY <1>1, QuietReturn DEF Validate, store, observed, UserTextInv, TypeOK, StoreTypeOK
<1>2. CASE Text(disk[f]) = edits[f].before
  <2>1. /\ pc = "validate" /\ pc' \in {"validate", "backup"}
        /\ todo' \subseteq DOMAIN edits
        /\ UNCHANGED <<run, contents, edits, force, written, created,
                       disk, store, fresh, lastUser, saves>>
        /\ preimage' \in {preimage, [preimage EXCEPT ![run] = disk]}
    BY <1>2 DEF Validate, Goto, UserTextInv, LoopsVisitEdits
  <2>2. DOMAIN edits \subseteq Files
    BY PartialDomain DEF UserTextInv, TypeOK, LocalTypeOK
  <2>3. LocalTypeOK'
    BY <2>1, <2>2 DEF UserTextInv, TypeOK, LocalTypeOK, PCs
  <2>4. StoreTypeOK' /\ NoUserTextLost'
    BY <2>1 DEF UserTextInv, TypeOK, StoreTypeOK, NoUserTextLost, store
  <2>5. NoBackupsYet' /\ TodoHasNoBackup'
    BY <2>1, <2>2 DEF UserTextInv, TypeOK, LocalTypeOK, NoBackupsYet, TodoHasNoBackup, store
  <2>6. EditsAreNotUserTexts' /\ EntriesAreNotUserTexts' /\ LoopsVisitEdits'
    BY <2>1 DEF UserTextInv, EditsAreNotUserTexts, EntriesAreNotUserTexts, LoopsVisitEdits, store
  <2>7. WrittenIsBackedUp'
    BY <2>1 DEF UserTextInv, WrittenIsBackedUp, NothingWritten
  <2>8. QED
    BY <2>1, <2>3, <2>4, <2>5, <2>6, <2>7 DEF UserTextInv, TypeOK, NextIsCopied,
       BuiltFromDisk, NothingWritten, FreshIsUnused, RollbackVerified, store
<1>3. QED
  BY <1>1, <1>2

\* The copy is taken before the file can change, into an empty place.
LEMMA BackupInv ==
  ASSUME UserTextInv, NEW f \in Files, Backup(f)
  PROVE  UserTextInv'
<1>1. /\ pc = "backup" /\ pc' = "write" /\ IsFirst(f, todo) /\ run \in Runs
      /\ UNCHANGED <<run, contents, edits, force, disk, manifest, latest,
                     fresh, todo, written, observed>>
      /\ created' \subseteq Files
      /\ \/ disk[f] = Absent /\ backups' = backups
         \/ disk[f] # Absent /\ backups' = [backups EXCEPT ![run][f] = disk[f]]
  BY DEF Backup, Goto, UserTextInv, TypeOK, LocalTypeOK
<1>2. backups[run][f] = Absent
  BY <1>1 DEF UserTextInv, TodoHasNoBackup, IsFirst
<1>3. TypeOK'
  <2>1. backups' \in [Runs -> [Files -> Content]]
    <3>1. backups \in [Runs -> [Files -> Content]] /\ disk[f] \in Content
      BY DEF UserTextInv, TypeOK, StoreTypeOK
    <3>2. [backups EXCEPT ![run][f] = disk[f]] \in [Runs -> [Files -> Content]]
      BY <3>1
    <3>3. QED
      BY <1>1, <3>1, <3>2
  <2>2. LocalTypeOK'
    BY <1>1 DEF UserTextInv, TypeOK, LocalTypeOK, PCs
  <2>3. StoreTypeOK'
    BY <1>1, <2>1 DEF UserTextInv, TypeOK, StoreTypeOK, observed
  <2>4. QED
    BY <2>2, <2>3 DEF TypeOK
<1>4. \A g \in Files, r \in Runs : backups[r][g] # Absent => backups'[r][g] = backups[r][g]
  BY <1>1, <1>2 DEF UserTextInv, TypeOK, StoreTypeOK
<1>5. \A g \in Files : BackedUp(g) => BackedUp(g)'
  BY <1>1, <1>4, TextsAssumption DEF BackedUp, observed
<1>6. NoUserTextLost'
  BY <1>1, <1>4, TextsAssumption DEF UserTextInv, NoUserTextLost, observed
<1>7. NoBackupsYet' /\ TodoHasNoBackup' /\ NextIsCopied'
  <2>1. NoBackupsYet'
    BY <1>1 DEF UserTextInv, NoBackupsYet, TypeOK, StoreTypeOK, FreshIsUnused
  <2>2. TodoHasNoBackup'
    BY <1>1 DEF UserTextInv, TodoHasNoBackup, TypeOK, StoreTypeOK, LocalTypeOK
  <2>3. \A g \in todo : IsFirst(g, todo) => g = f
    <3>1. todo \subseteq Nat
      BY FilesOrdered DEF UserTextInv, TypeOK, LocalTypeOK
    <3>2. QED
      BY <1>1, <3>1 DEF IsFirst
  <2>4. disk[f] = Absent \/ backups'[run][f] = disk[f]
    BY <1>1 DEF UserTextInv, TypeOK, StoreTypeOK
  <2>5. NextIsCopied'
    BY <1>1, <2>3, <2>4 DEF NextIsCopied
  <2>6. QED
    BY <2>1, <2>2, <2>5
<1>8. WrittenIsBackedUp'
  BY <1>1, <1>5 DEF UserTextInv, WrittenIsBackedUp, TypeOK, LocalTypeOK
<1>9. QED
  BY <1>1, <1>3, <1>6, <1>7, <1>8 DEF UserTextInv, BuiltFromDisk, EditsAreNotUserTexts,
     EntriesAreNotUserTexts, NothingWritten, FreshIsUnused, LoopsVisitEdits, RollbackVerified

\* The file on its way out was copied or absent, so it is backed up.
LEMMA NextIsBackedUp ==
  ASSUME UserTextInv, pc = "write", NEW f \in Files, IsFirst(f, todo)
  PROVE  BackedUp(f)
BY TextsAssumption DEF UserTextInv, TypeOK, LocalTypeOK, NextIsCopied, NoUserTextLost,
   BackedUp, IsFirst

\* A write destroys a text the step before it copied; the file joins `written`,
\* which WrittenIsBackedUp lets the handler overwrite.
LEMMA WriteInv ==
  ASSUME UserTextInv, NEW f \in Files, Write(f)
  PROVE  UserTextInv'
<1>1. /\ pc = "write" /\ pc' \in {"manifest", "backup"} /\ IsFirst(f, todo)
      /\ disk' = [disk EXCEPT ![f] = edits[f].after]
      /\ written' = written \cup {f} /\ todo' = todo \ {f}
      /\ UNCHANGED <<run, contents, edits, force, store, fresh, created, observed>>
  BY DEF Write, Goto
<1>2. f \in DOMAIN edits /\ edits[f].after \in Texts
  <2>1. f \in DOMAIN edits
    BY <1>1 DEF UserTextInv, LoopsVisitEdits, IsFirst
  <2>2. edits \in PartialTo([before : Texts, after : Texts])
    BY DEF UserTextInv, TypeOK, LocalTypeOK
  <2>3. edits[f] \in [before : Texts, after : Texts]
    BY <2>1, <2>2, PartialDomain
  <2>4. QED
    BY <2>1, <2>3
<1>3. TypeOK'
  BY <1>1, <1>2 DEF UserTextInv, TypeOK, StoreTypeOK, LocalTypeOK, PCs, Content, store, observed
<1>4. BackedUp(f)
  BY <1>1, NextIsBackedUp
<1>5. NoUserTextLost'
  BY <1>1, <1>4, OverwriteBackedUp DEF UserTextInv, TypeOK, store, observed
<1>6. WrittenIsBackedUp'
  BY <1>1, <1>4 DEF UserTextInv, WrittenIsBackedUp, BackedUp, store, observed
<1>7. TodoHasNoBackup' /\ NoBackupsYet'
  BY <1>1, FilesOrdered DEF UserTextInv, TypeOK, LocalTypeOK, TodoHasNoBackup, NoBackupsYet,
     IsFirst, store
<1>8. QED
  BY <1>1, <1>3, <1>5, <1>6, <1>7 DEF UserTextInv, NextIsCopied, BuiltFromDisk, NothingWritten,
     FreshIsUnused, EditsAreNotUserTexts, EntriesAreNotUserTexts, LoopsVisitEdits,
     RollbackVerified, store

\* A step to the restore handler.
LEMMA ToRestore ==
  ASSUME UserTextInv, pc \in {"backup", "write", "restore"}, pc' = "restore",
         UNCHANGED <<run, contents, edits, force, store, fresh, todo, created, observed>>,
         written' \subseteq written, disk' \in [Files -> Content], NoUserTextLost'
  PROVE  UserTextInv'
<1>1. TypeOK'
  BY DEF UserTextInv, TypeOK, StoreTypeOK, LocalTypeOK, PCs, store, observed
<1>2. NoBackupsYet' /\ WrittenIsBackedUp'
  BY DEF UserTextInv, NoBackupsYet, WrittenIsBackedUp, BackedUp, store, observed
<1>3. EditsAreNotUserTexts' /\ EntriesAreNotUserTexts'
  BY DEF UserTextInv, EditsAreNotUserTexts, EntriesAreNotUserTexts, store
<1>4. QED
  BY <1>1, <1>2, <1>3 DEF UserTextInv, TodoHasNoBackup, NextIsCopied, BuiltFromDisk,
     NothingWritten, FreshIsUnused, LoopsVisitEdits, RollbackVerified, store

\* A copy or an open that fails leaves every file as it was.
LEMMA CopyOrOpenFailsInv ==
  ASSUME UserTextInv, CopyOrOpenFails
  PROVE  UserTextInv'
<1>1. NoUserTextLost' /\ disk' \in [Files -> Content]
  BY DEF CopyOrOpenFails, UserTextInv, TypeOK, StoreTypeOK, NoUserTextLost, store, observed
<1>2. QED
  BY <1>1, ToRestore DEF CopyOrOpenFails, Goto

\* A torn write destroys a text that was just copied.
LEMMA WriteFailsInv ==
  ASSUME UserTextInv, NEW f \in Files, WriteFails(f)
  PROVE  UserTextInv'
<1>1. NoUserTextLost'
  BY NextIsBackedUp, OverwriteBackedUp DEF WriteFails, UserTextInv, TypeOK, store, observed
<1>2. disk' \in [Files -> Content]
  BY TextsAssumption DEF WriteFails, UserTextInv, TypeOK, StoreTypeOK, Content
<1>3. QED
  BY <1>1, <1>2, ToRestore DEF WriteFails, Goto

\* The handler overwrites only files of `written`, which are backed up.
LEMMA RestoreInv ==
  ASSUME UserTextInv, NEW f \in Files, Restore(f)
  PROVE  UserTextInv'
<1>1. BackedUp(f)
  BY DEF Restore, UserTextInv, WrittenIsBackedUp, IsLast
<1>2. NoUserTextLost'
  BY <1>1, OverwriteBackedUp DEF Restore, UserTextInv, TypeOK, store, observed
<1>3. disk' \in [Files -> Content]
  BY DEF Restore, UserTextInv, TypeOK, StoreTypeOK, LocalTypeOK, Content
<1>4. QED
  BY <1>2, <1>3, ToRestore DEF Restore, Goto

\* A failing restore damages at most a file of `written`.
LEMMA RestoreFailsInv ==
  ASSUME UserTextInv, NEW f \in Files, RestoreFails(f)
  PROVE  UserTextInv'
<1>1. BackedUp(f)
  BY DEF RestoreFails, UserTextInv, WrittenIsBackedUp, IsLast
<1>2. NoUserTextLost'
  <2>1. CASE UNCHANGED disk
    BY <2>1 DEF RestoreFails, UserTextInv, NoUserTextLost, store, observed
  <2>2. CASE disk' = [disk EXCEPT ![f] = Blank]
    BY <1>1, <2>2, OverwriteBackedUp DEF RestoreFails, UserTextInv, TypeOK, store, observed
  <2>3. QED
    BY <2>1, <2>2 DEF RestoreFails
<1>3. StoreTypeOK'
  BY TextsAssumption DEF RestoreFails, UserTextInv, TypeOK, StoreTypeOK, Content, store, observed
<1>4. EntriesAreNotUserTexts'
  BY DEF RestoreFails, UserTextInv, EntriesAreNotUserTexts, store
<1>5. QED
  BY <1>2, <1>3, <1>4, ReturnInv DEF RestoreFails, store

\* The manifest records what was written.
LEMMA WriteManifestInv ==
  ASSUME UserTextInv, WriteManifest
  PROVE  UserTextInv'
<1> DEFINE entries == [f \in DOMAIN edits |-> [original |-> edits[f].before,
                                               patched  |-> edits[f].after,
                                               created  |-> f \in created]]
<1>1. /\ pc = "manifest" /\ pc' = "latest" /\ run \in Runs
      /\ manifest' = [manifest EXCEPT ![run] = [state |-> "live", entries |-> entries]]
      /\ UNCHANGED <<run, contents, edits, force, disk, backups, latest, fresh,
                     todo, written, created, observed>>
  BY DEF WriteManifest, Goto, UserTextInv, TypeOK, LocalTypeOK
<1>2. entries \in PartialTo(Entry)
  <2>1. /\ DOMAIN edits \subseteq Files
        /\ \A f \in DOMAIN edits : edits[f] \in [before : Texts, after : Texts]
    BY PartialDomain DEF UserTextInv, TypeOK, LocalTypeOK
  <2>2. entries \in [DOMAIN edits -> Entry]
    BY <2>1 DEF Entry
  <2>3. QED
    BY <2>1, <2>2, PartialFunction
<1>3. TypeOK'
  BY <1>1, <1>2 DEF UserTextInv, TypeOK, StoreTypeOK, LocalTypeOK, PCs, Manifest, observed
<1>4. EntriesAreNotUserTexts'
  BY <1>1 DEF UserTextInv, EntriesAreNotUserTexts, EditsAreNotUserTexts, TypeOK, StoreTypeOK
<1>5. NoUserTextLost' /\ NoBackupsYet'
  BY <1>1 DEF UserTextInv, NoUserTextLost, NoBackupsYet, observed
<1>6. QED
  BY <1>1, <1>3, <1>4, <1>5 DEF UserTextInv, TodoHasNoBackup, NextIsCopied, WrittenIsBackedUp,
     BuiltFromDisk, NothingWritten, FreshIsUnused, EditsAreNotUserTexts, LoopsVisitEdits,
     RollbackVerified

\* Setting the state of a manifest keeps its entries.
LEMMA ManifestState ==
  ASSUME UserTextInv, run \in Runs, NEW s \in {"torn", "rolledback"},
         manifest' = [manifest EXCEPT ![run].state = s]
  PROVE  manifest' \in [Runs -> Manifest] /\ EntriesAreNotUserTexts'
BY DEF UserTextInv, TypeOK, StoreTypeOK, Manifest, EntriesAreNotUserTexts

\* A manifest that cannot be written changes no file and no backup.
LEMMA ManifestFailsInv ==
  ASSUME UserTextInv, ManifestFails
  PROVE  UserTextInv'
<1>1. CASE UNCHANGED manifest
  BY <1>1, QuietReturn DEF ManifestFails, observed, UserTextInv, TypeOK, StoreTypeOK
<1>2. CASE manifest' = [manifest EXCEPT ![run].state = "torn"]
  <2>1. manifest' \in [Runs -> Manifest] /\ EntriesAreNotUserTexts'
    BY <1>2, ManifestState DEF ManifestFails, UserTextInv, TypeOK, LocalTypeOK
  <2>2. StoreTypeOK' /\ NoUserTextLost'
    BY <2>1 DEF ManifestFails, UserTextInv, TypeOK, StoreTypeOK, NoUserTextLost, observed
  <2>3. QED
    BY <2>1, <2>2, <1>2, ReturnInv DEF ManifestFails, UserTextInv, TypeOK, StoreTypeOK,
       FreshIsUnused
<1>3. QED
  BY <1>1, <1>2 DEF ManifestFails

-----------------------------------------------------------------------------
(* rollback_run                                                            *)

\* A rollback starts from a live manifest, whose run drew its id before.
LEMMA StartRollbackInv ==
  ASSUME UserTextInv, NEW r \in Runs, NEW forced \in BOOLEAN, StartRollback(r, forced)
  PROVE  UserTextInv'
<1>1. /\ pc' \in {"rbverify", "rbrestore"} /\ run' = r /\ r \notin fresh
      /\ todo' = DOMAIN manifest[r].entries
      /\ pc' = "rbrestore" => force'
  BY DEF StartRollback, UserTextInv, FreshIsUnused
<1>2. todo' \subseteq Files
  BY <1>1, EntryTyped DEF UserTextInv, TypeOK
<1>3. TypeOK'
  BY <1>1, <1>2 DEF StartRollback, UserTextInv, TypeOK, StoreTypeOK, LocalTypeOK, PCs, store,
     observed
<1>4. NoUserTextLost' /\ NoBackupsYet' /\ EditsAreNotUserTexts' /\ EntriesAreNotUserTexts'
  BY <1>1 DEF StartRollback, UserTextInv, NoUserTextLost, NoBackupsYet, EditsAreNotUserTexts,
     EntriesAreNotUserTexts, store, observed
<1>5. QED
  BY <1>1, <1>3, <1>4 DEF StartRollback, UserTextInv, TodoHasNoBackup, NextIsCopied,
     WrittenIsBackedUp, BuiltFromDisk, NothingWritten, FreshIsUnused, LoopsVisitEdits,
     RollbackVerified, store

\* Verification only goes on while the files hold the patched text.
LEMMA RbVerifyInv ==
  ASSUME UserTextInv, NEW f \in Files, RbVerify(f)
  PROVE  UserTextInv'
<1> DEFINE entries == manifest[run].entries
<1>1. CASE Text(disk[f]) # entries[f].patched
  BY <1>1, QuietReturn DEF RbVerify, store, observed, UserTextInv, TypeOK, StoreTypeOK
<1>2. CASE Text(disk[f]) = entries[f].patched
  <2>1. /\ pc = "rbverify" /\ IsFirst(f, todo) /\ pc' \in {"rbverify", "rbrestore"}
        /\ UNCHANGED <<run, contents, edits, force, written, created,
                       disk, store, fresh, observed>>
        /\ pc' = "rbverify"  => todo' = todo \ {f}
        /\ pc' = "rbrestore" => todo = {f} /\ todo' = DOMAIN entries
    BY <1>2 DEF RbVerify, Goto
  <2>2. DOMAIN entries \subseteq Files
    BY <2>1, EntryTyped DEF UserTextInv, TypeOK, LocalTypeOK
  <2>3. TypeOK'
    BY <2>1, <2>2 DEF UserTextInv, TypeOK, StoreTypeOK, LocalTypeOK, PCs, store, observed
  <2>4. RollbackVerified'
    BY <1>2, <2>1 DEF UserTextInv, RollbackVerified, store
  <2>5. QED
    BY <2>1, <2>3, <2>4 DEF UserTextInv, NoUserTextLost, NoBackupsYet, TodoHasNoBackup,
       NextIsCopied, WrittenIsBackedUp, BuiltFromDisk, EditsAreNotUserTexts,
       EntriesAreNotUserTexts, NothingWritten, FreshIsUnused, LoopsVisitEdits, store, observed
<1>3. QED
  BY <1>1, <1>2

\* A file that holds the patched text does not hold a text of the customer's.
LEMMA PatchedIsBackedUp ==
  ASSUME UserTextInv, pc = "rbrestore", ~force, NEW f \in todo
  PROVE  BackedUp(f)
<1>1. /\ Text(disk[f]) = manifest[run].entries[f].patched
      /\ f \in DOMAIN manifest[run].entries
      /\ f \in Files /\ run \in Runs
  BY DEF UserTextInv, RollbackVerified, TypeOK, LocalTypeOK
<1>2. disk[f] \notin UserTexts
  BY <1>1, TextsAssumption DEF UserTextInv, EntriesAreNotUserTexts, Text
<1>3. QED
  BY <1>1, <1>2 DEF UserTextInv, NoUserTextLost, BackedUp

\* Restoring or truncating the next file of a rollback loses no text: it was
\* verified, or given up.
LEMMA RollbackMayOverwrite ==
  ASSUME UserTextInv, pc = "rbrestore", NEW f \in todo, NEW c \in Content,
         disk' = [disk EXCEPT ![f] = c], GiveUp(f), UNCHANGED backups
  PROVE  NoUserTextLost' /\ lastUser' \in [Files -> Content]
<1>1. f \in Files /\ StoreTypeOK /\ NoUserTextLost /\ force \in BOOLEAN
  BY DEF UserTextInv, TypeOK, LocalTypeOK
<1>2. CASE force
  BY <1>1, <1>2, OverwriteGivenUp DEF GiveUp, StoreTypeOK
<1>3. CASE ~force
  BY <1>1, <1>3, PatchedIsBackedUp, OverwriteBackedUp DEF GiveUp, StoreTypeOK
<1>4. QED
  BY <1>1, <1>2, <1>3

\* Without --force only patched texts are overwritten; with it the text is given up.
LEMMA RbRestoreInv ==
  ASSUME UserTextInv, NEW f \in Files, RbRestore(f)
  PROVE  UserTextInv'
<1> DEFINE c == IF manifest[run].entries[f].created THEN Absent ELSE backups[run][f]
<1>1. /\ pc = "rbrestore" /\ f \in todo /\ run \in Runs /\ pc' \in {"rbrename", "rbrestore"}
      /\ disk' = [disk EXCEPT ![f] = c] /\ GiveUp(f) /\ todo' = todo \ {f}
      /\ UNCHANGED <<run, contents, edits, force, written, created, store, fresh,
                     preimage, saves>>
  BY DEF RbRestore, Goto, IsFirst, UserTextInv, TypeOK, LocalTypeOK
<1>2. c \in Content
  BY <1>1 DEF UserTextInv, TypeOK, StoreTypeOK, Content
<1>3. NoUserTextLost' /\ lastUser' \in [Files -> Content]
  BY <1>1, <1>2, RollbackMayOverwrite DEF store
<1>4. TypeOK'
  BY <1>1, <1>2, <1>3 DEF UserTextInv, TypeOK, StoreTypeOK, LocalTypeOK, PCs, store
<1>5. RollbackVerified'
  BY <1>1 DEF UserTextInv, RollbackVerified, TypeOK, StoreTypeOK, LocalTypeOK, store
<1>6. QED
  BY <1>1, <1>3, <1>4, <1>5 DEF UserTextInv, NoBackupsYet, TodoHasNoBackup, NextIsCopied,
     WrittenIsBackedUp, BuiltFromDisk, EditsAreNotUserTexts, EntriesAreNotUserTexts,
     NothingWritten, FreshIsUnused, LoopsVisitEdits, store

\* Setting the manifest aside changes no file and no backup.
LEMMA RbRenameInv ==
  ASSUME UserTextInv, RbRename
  PROVE  UserTextInv'
<1>1. /\ pc = "rbrename" /\ pc' = "rblatest" /\ run \in Runs
      /\ manifest' = [manifest EXCEPT ![run].state = "rolledback"]
      /\ UNCHANGED <<run, contents, edits, force, disk, backups, latest, fresh,
                     todo, written, created, observed>>
  BY DEF RbRename, Goto, UserTextInv, TypeOK, LocalTypeOK
<1>2. manifest' \in [Runs -> Manifest] /\ EntriesAreNotUserTexts'
  BY <1>1, ManifestState
<1>3. TypeOK' /\ NoUserTextLost' /\ NoBackupsYet'
  BY <1>1, <1>2 DEF UserTextInv, TypeOK, StoreTypeOK, LocalTypeOK, NoUserTextLost, NoBackupsYet,
     PCs, observed
<1>4. FreshIsUnused'
  BY <1>1 DEF UserTextInv, FreshIsUnused, TypeOK, StoreTypeOK
<1>5. QED
  BY <1>1, <1>2, <1>3, <1>4 DEF UserTextInv, TodoHasNoBackup, NextIsCopied, WrittenIsBackedUp,
     BuiltFromDisk, EditsAreNotUserTexts, NothingWritten, LoopsVisitEdits, RollbackVerified

\* A restore that stops half way destroys what RbRestore may destroy.
LEMMA RbRestoreFailsInv ==
  ASSUME UserTextInv, NEW f \in Files, RbRestoreFails(f)
  PROVE  UserTextInv'
<1>1. CASE UNCHANGED <<disk, lastUser>>
  BY <1>1, QuietReturn DEF RbRestoreFails, store, UserTextInv, TypeOK, StoreTypeOK
<1>2. CASE disk' = [disk EXCEPT ![f] = Blank] /\ GiveUp(f)
  <2>1. f \in todo /\ pc = "rbrestore" /\ Return
        /\ UNCHANGED <<store, fresh, preimage, saves>>
    BY DEF RbRestoreFails, IsFirst
  <2>2. NoUserTextLost' /\ lastUser' \in [Files -> Content]
    BY <1>2, <2>1, RollbackMayOverwrite, TextsAssumption DEF Content, store
  <2>3. StoreTypeOK'
    BY <1>2, <2>1, <2>2, TextsAssumption DEF UserTextInv, TypeOK, StoreTypeOK, Content, store
  <2>4. EntriesAreNotUserTexts'
    BY <2>1 DEF UserTextInv, EntriesAreNotUserTexts, store
  <2>5. QED
    BY <2>1, <2>2, <2>3, <2>4, ReturnInv DEF store
<1>3. QED
  BY <1>1, <1>2 DEF RbRestoreFails

\* Commands that end without touching what the invariant speaks of.
LEMMA QuietEndsInv ==
  ASSUME UserTextInv,
         StopBeforeApply \/ Reraise \/ WriteLatest \/ LatestFails \/ RbLatest \/ RbFinishFails
  PROVE  UserTextInv'
<1>1. /\ Return
      /\ UNCHANGED <<disk, backups, manifest, fresh, preimage, lastUser, saves>>
  BY DEF StopBeforeApply, Reraise, WriteLatest, LatestFails, RbLatest, RbFinishFails, store,
     observed
<1>2. latest' \in Runs \cup {NoRun}
  BY DEF StopBeforeApply, Reraise, WriteLatest, LatestFails, RbLatest, RbFinishFails, store,
     observed, UserTextInv, TypeOK, StoreTypeOK, LocalTypeOK
<1>3. QED
  BY <1>1, <1>2, QuietReturn

-----------------------------------------------------------------------------
(* The environment                                                         *)

\* A kill truncates at most the file the command was about to overwrite.
LEMMA CrashInv ==
  ASSUME UserTextInv, Crash
  PROVE  UserTextInv'
<1>1. Return /\ pc # "idle" /\ UNCHANGED <<fresh, preimage, saves>>
  BY DEF Crash
<1>2. /\ StoreTypeOK /\ NoUserTextLost /\ EntriesAreNotUserTexts
      /\ run \in Runs /\ Blank \in Content
  BY <1>1, TextsAssumption DEF UserTextInv, TypeOK, LocalTypeOK, Content
<1>3. ASSUME NEW f \in Files, UNCHANGED store, disk' = [disk EXCEPT ![f] = Blank],
             NoUserTextLost', lastUser' \in [Files -> Content]
      PROVE  UserTextInv'
  <2>1. StoreTypeOK' /\ EntriesAreNotUserTexts'
    BY <1>1, <1>2, <1>3 DEF StoreTypeOK, EntriesAreNotUserTexts, store
  <2>2. QED
    BY <1>1, <1>3, <2>1, ReturnInv DEF store
<1>4. ASSUME NEW f \in Files, BackedUp(f), UNCHANGED <<store, lastUser>>,
             disk' = [disk EXCEPT ![f] = Blank]
      PROVE  UserTextInv'
  <2>1. NoUserTextLost' /\ lastUser' \in [Files -> Content]
    BY <1>2, <1>4, OverwriteBackedUp DEF store, StoreTypeOK
  <2>2. QED
    BY <1>3, <1>4, <2>1
<1>5. CASE UNCHANGED <<disk, store, lastUser>>
  BY <1>1, <1>2, <1>5, QuietReturn DEF store, StoreTypeOK
<1>6. CASE /\ pc = "write" /\ UNCHANGED <<store, lastUser>>
           /\ \E f \in todo : IsFirst(f, todo) /\ disk' = [disk EXCEPT ![f] = Blank]
  BY <1>4, <1>6, NextIsBackedUp DEF UserTextInv, TypeOK, LocalTypeOK
<1>7. CASE /\ pc = "restore" /\ UNCHANGED <<store, lastUser>>
           /\ \E f \in written \ created :
                IsLast(f, written) /\ disk' = [disk EXCEPT ![f] = Blank]
  BY <1>4, <1>7 DEF UserTextInv, TypeOK, LocalTypeOK, WrittenIsBackedUp
<1>8. CASE /\ pc = "rbrestore" /\ UNCHANGED store
           /\ \E f \in todo : /\ IsFirst(f, todo)
                              /\ ~manifest[run].entries[f].created
                              /\ disk' = [disk EXCEPT ![f] = Blank]
                              /\ GiveUp(f)
  <2>1. PICK f \in todo : disk' = [disk EXCEPT ![f] = Blank] /\ GiveUp(f)
    BY <1>8
  <2>2. NoUserTextLost' /\ lastUser' \in [Files -> Content] /\ f \in Files
    BY <1>2, <1>8, <2>1, RollbackMayOverwrite DEF store, UserTextInv, TypeOK, LocalTypeOK
  <2>3. QED
    BY <1>3, <1>8, <2>1, <2>2
<1>9. CASE manifest' = [manifest EXCEPT ![run].state = "torn"]
           /\ UNCHANGED <<disk, backups, latest, lastUser>>
  <2>1. manifest' \in [Runs -> Manifest] /\ EntriesAreNotUserTexts'
    BY <1>2, <1>9, ManifestState
  <2>2. StoreTypeOK' /\ NoUserTextLost'
    BY <1>1, <1>2, <1>9, <2>1 DEF StoreTypeOK, NoUserTextLost
  <2>3. QED
    BY <1>1, <1>2, <1>9, <2>1, <2>2, ReturnInv DEF UserTextInv, StoreTypeOK, FreshIsUnused
<1>10. CASE latest' = NoRun /\ UNCHANGED <<disk, backups, manifest, lastUser>>
  BY <1>1, <1>10, QuietReturn
<1>11. QED
  BY <1>5, <1>6, <1>7, <1>8, <1>9, <1>10 DEF Crash

\* Outside the windows, a save changes nothing a command relies on.
LEMMA UserSavesInv ==
  ASSUME UserTextInv, SafePoints, NEW f \in Files,
         NEW c \in UserTexts \cup {Blank, Absent}, UserSaves(f, c)
  PROVE  UserTextInv'
<1>1. /\ pc \notin Windows /\ disk' = [disk EXCEPT ![f] = c]
      /\ lastUser' = [lastUser EXCEPT ![f] = c]
      /\ UNCHANGED <<store, fresh, pc, locals, preimage>>
      /\ saves < MaxEdits /\ saves' = saves + 1
  BY DEF UserSaves, SafePoints
<1>2. TypeOK'
  BY <1>1, TextsAssumption, BoundAssumption DEF UserTextInv, TypeOK, StoreTypeOK, LocalTypeOK,
     Content, store, locals
<1>3. NoUserTextLost'
  BY <1>1 DEF UserTextInv, TypeOK, StoreTypeOK, NoUserTextLost, store
<1>4. QED
  BY <1>1, <1>2, <1>3 DEF UserTextInv, Windows, NoBackupsYet, TodoHasNoBackup, NextIsCopied,
     WrittenIsBackedUp, BuiltFromDisk, EditsAreNotUserTexts, EntriesAreNotUserTexts,
     NothingWritten, FreshIsUnused, LoopsVisitEdits, RollbackVerified, store, locals

-----------------------------------------------------------------------------
(* The theorems                                                            *)

\* The initial disk is the customer's.
LEMMA InitInv ==
  ASSUME Init
  PROVE  UserTextInv
<1>1. LocalTypeOK
  <2>1. Nothing \in PartialTo(Texts) /\ Nothing \in PartialTo([before : Texts, after : Texts])
    BY NothingIsPartial
  <2>2. QED
    BY <2>1 DEF Init, LocalTypeOK, PCs
<1>2. StoreTypeOK
  <2>1. Nothing \in PartialTo(Entry)
    BY NothingIsPartial
  <2>2. QED
    BY <2>1, TextsAssumption, BoundAssumption DEF Init, StoreTypeOK, Content, Manifest, NoTree
<1>3. EntriesAreNotUserTexts /\ EditsAreNotUserTexts
  BY DEF Init, EntriesAreNotUserTexts, EditsAreNotUserTexts, Nothing
<1>4. NoUserTextLost /\ NoBackupsYet
  BY DEF Init, NoUserTextLost, NoBackupsYet
<1>5. FreshIsUnused
  BY RunsAssumption DEF Init, FreshIsUnused
<1>6. QED
  BY <1>1, <1>2, <1>3, <1>4, <1>5 DEF Init, UserTextInv, TypeOK, TodoHasNoBackup, NextIsCopied,
     WrittenIsBackedUp, BuiltFromDisk, NothingWritten, LoopsVisitEdits, RollbackVerified

\* Every step keeps the invariant.
LEMMA StepInv ==
  ASSUME UserTextInv, SafePoints, [Next]_vars
  PROVE  UserTextInv'
<1>1. CASE Integrate
  BY <1>1, InspectInv, BuildInv, RenderInv, BeginApplyInv, ValidateInv, BackupInv, WriteInv,
     RestoreInv, WriteManifestInv, QuietEndsInv DEF Integrate
<1>2. CASE Rollback
  BY <1>2, StartRollbackInv, RbVerifyInv, RbRestoreInv, RbRenameInv, QuietEndsInv DEF Rollback
<1>3. CASE Exceptions
  BY <1>3, CopyOrOpenFailsInv, ManifestFailsInv, WriteFailsInv, RestoreFailsInv,
     RbRestoreFailsInv, QuietEndsInv DEF Exceptions
<1>4. CASE Crash
  BY <1>4, CrashInv
<1>5. CASE \E f \in Files, c \in UserTexts \cup {Blank, Absent} : UserSaves(f, c)
  BY <1>5, UserSavesInv
<1>6. CASE UNCHANGED vars
  BY <1>6 DEF vars, store, locals, observed, UserTextInv, TypeOK, StoreTypeOK, LocalTypeOK,
     NoUserTextLost, NoBackupsYet, TodoHasNoBackup, NextIsCopied, WrittenIsBackedUp, BackedUp,
     BuiltFromDisk, EditsAreNotUserTexts, EntriesAreNotUserTexts, NothingWritten,
     FreshIsUnused, LoopsVisitEdits, RollbackVerified
<1>7. QED
  BY <1>1, <1>2, <1>3, <1>4, <1>5, <1>6 DEF Next

\* The invariant holds of every behaviour whose saves avoid the windows.
THEOREM UserTextInvariant ==
  ASSUME SafePoints
  PROVE  Spec => []UserTextInv
<1>1. Init => UserTextInv
  BY InitInv
<1>2. UserTextInv /\ [Next]_vars => UserTextInv'
  BY SafePoints, StepInv
<1>3. QED
  BY <1>1, <1>2, PTL DEF Spec

\* Type correctness of the executor, its store and its locals.
THEOREM TypeCorrect ==
  ASSUME SafePoints
  PROVE  Spec => []TypeOK
<1>1. UserTextInv => TypeOK
  BY DEF UserTextInv
<1>2. Spec => []UserTextInv
  BY SafePoints, UserTextInvariant
<1>3. QED
  BY <1>1, <1>2, PTL

\* Whatever fails and whenever the process is killed, what the customer last
\* left in a file is on disk or in a backup (unless --force gave it up).
THEOREM UserTextSafe ==
  ASSUME SafePoints
  PROVE  Spec => []NoUserTextLost
<1>1. UserTextInv => NoUserTextLost
  BY DEF UserTextInv
<1>2. Spec => []UserTextInv
  BY SafePoints, UserTextInvariant
<1>3. QED
  BY <1>1, <1>2, PTL

-----------------------------------------------------------------------------
(* Rollbacks and manifests                                                 *)

\* The customer saves between commands, or while a run is being prepared.
Quiet == EditPoints \subseteq {"idle", "planned", "rendered"}

\* Commands that have passed validation run undisturbed by the customer; so
\* does the window between the two reads of Build and Render.
LEMMA QuietIsSafe == Quiet => SafePoints
BY DEF Quiet, SafePoints, Windows

-----------------------------------------------------------------------------
(* What steps have in common                                               *)

\* There is one first element.
LEMMA FirstIsUnique ==
  ASSUME UserTextInv, NEW f, NEW g, IsFirst(f, todo), IsFirst(g, todo)
  PROVE  f = g
<1>1. todo \subseteq Nat
  BY FilesOrdered DEF UserTextInv, TypeOK, LocalTypeOK
<1>2. QED
  BY <1>1 DEF IsFirst

\* A command that ends leaves only what its manifest says.
LEMMA ReturnRollback ==
  ASSUME Return, LiveManifestIsBacked'
  PROVE  RollbackInv'
<1>1. EditsArePatches'
  BY DEF Return, EditsArePatches, Nothing
<1>2. QED
  BY <1>1 DEF Return, RollbackInv, RollbackExact, ManifestTruthful, RunIsNew,
     RollbackIsOfLive, ValidatedSoFar, NothingCreated, DoneOrUntouched, CopiedInTurn,
     RestoredSoFar

\* A manifest that is no longer live, or unchanged, promises nothing new.
LEMMA BackedStays ==
  ASSUME LiveManifestIsBacked, UNCHANGED <<backups, preimage>>,
         \A r \in Runs : manifest'[r] = manifest[r] \/ manifest'[r].state # "live"
  PROVE  LiveManifestIsBacked'
BY DEF LiveManifestIsBacked

\* Ending with the manifests as they were, or with one that is not live.
LEMMA EndRollback ==
  ASSUME RollbackInv, Return, UNCHANGED <<backups, preimage>>,
         \A r \in Runs : manifest'[r] = manifest[r] \/ manifest'[r].state # "live"
  PROVE  RollbackInv'
BY ReturnRollback, BackedStays DEF RollbackInv

\* Changing the state of a run's manifest leaves it with that state.
LEMMA StateChanged ==
  ASSUME UserTextInv, run \in Runs, NEW s,
         manifest' = [manifest EXCEPT ![run].state = s]
  PROVE  \A r \in Runs : \/ manifest'[r] = manifest[r]
                         \/ r = run /\ manifest'[r].state = s
<1>1. manifest \in [Runs -> Manifest]
  BY DEF UserTextInv, TypeOK, StoreTypeOK
<1>2. manifest[run] \in Manifest
  BY <1>1
<1>3. manifest'[run].state = s
  BY <1>1, <1>2 DEF Manifest
<1>4. QED
  BY <1>1, <1>3

-----------------------------------------------------------------------------
(* integrate_repo                                                          *)

\* A drawn id has no manifest yet.
LEMMA InspectRollback ==
  ASSUME UserTextInv, RollbackInv, NEW r \in Runs, Inspect(r)
  PROVE  RollbackInv'
<1>1. manifest[r].state = "none" /\ written = {} /\ created = {}
  BY DEF Inspect, UserTextInv, FreshIsUnused, NothingWritten, RollbackInv, NothingCreated
<1>2. LiveManifestIsBacked'
  BY BackedStays DEF Inspect, RollbackInv, store, observed
<1>3. QED
  BY <1>1, <1>2 DEF Inspect, RollbackInv, RollbackExact, ManifestTruthful, RunIsNew,
     RollbackIsOfLive, EditsArePatches, ValidatedSoFar, NothingCreated, DoneOrUntouched,
     CopiedInTurn, RestoredSoFar, store

\* Building reads files and changes nothing.
LEMMA BuildRollback ==
  ASSUME UserTextInv, RollbackInv, NEW T \in SUBSET Files, Build(T)
  PROVE  RollbackInv'
<1>1. LiveManifestIsBacked'
  BY BackedStays DEF Build, RollbackInv, store, observed
<1>2. QED
  BY <1>1 DEF Build, RollbackInv, RollbackExact, ManifestTruthful, RunIsNew,
     RollbackIsOfLive, EditsArePatches, ValidatedSoFar, NothingCreated, DoneOrUntouched,
     CopiedInTurn, RestoredSoFar, store

\* What is rendered was built from the text that is hashed.
LEMMA RenderRollback ==
  ASSUME UserTextInv, RollbackInv, Render
  PROVE  RollbackInv'
<1> DEFINE changed == {f \in DOMAIN contents : Text(disk[f]) # contents[f]}
<1>1. CASE changed = {}
  BY <1>1, EndRollback DEF Render, store, observed
<1>2. CASE changed # {}
  <2>1. /\ edits' = [f \in changed |-> [before |-> Text(disk[f]), after |-> contents[f]]]
        /\ pc = "built" /\ pc' = "rendered"
        /\ UNCHANGED <<run, todo, written, created, force, disk, store, fresh, observed>>
    BY <1>2 DEF Render
  <2>2. EditsArePatches'
    BY <2>1 DEF UserTextInv, BuiltFromDisk, EditsArePatches
  <2>3. LiveManifestIsBacked'
    BY <2>1, BackedStays DEF RollbackInv, store, observed
  <2>4. QED
    BY <2>1, <2>2, <2>3 DEF RollbackInv, RollbackExact, ManifestTruthful, RunIsNew,
       RollbackIsOfLive, ValidatedSoFar, NothingCreated, DoneOrUntouched, CopiedInTurn,
       RestoredSoFar, store
<1>3. QED
  BY <1>1, <1>2

\* Nothing is validated yet.
LEMMA BeginApplyRollback ==
  ASSUME UserTextInv, RollbackInv, BeginApply
  PROVE  RollbackInv'
<1>1. LiveManifestIsBacked'
  BY BackedStays DEF BeginApply, RollbackInv, store, observed
<1>2. QED
  BY <1>1 DEF BeginApply, Goto, RollbackInv, RollbackExact, ManifestTruthful, RunIsNew,
     RollbackIsOfLive, EditsArePatches, ValidatedSoFar, NothingCreated, DoneOrUntouched,
     CopiedInTurn, RestoredSoFar, store

-----------------------------------------------------------------------------
(* apply_patchset                                                          *)

\* The last validation finds the whole tree as hashed: that is the preimage.
LEMMA ValidateRollback ==
  ASSUME UserTextInv, RollbackInv, NEW f \in Files, Validate(f)
  PROVE  RollbackInv'
<1>1. CASE Text(disk[f]) # edits[f].before
  BY <1>1, EndRollback DEF Validate, store
<1>2. CASE Text(disk[f]) = edits[f].before /\ todo # {f}
  <2>1. /\ pc = "validate" /\ pc' = "validate" /\ todo' = todo \ {f}
        /\ UNCHANGED <<run, contents, edits, force, written, created, preimage,
                       disk, store, fresh>>
    BY <1>2 DEF Validate, Goto
  <2>2. LiveManifestIsBacked'
    BY <2>1, BackedStays DEF RollbackInv, store
  <2>3. QED
    BY <1>2, <2>1, <2>2 DEF RollbackInv, RollbackExact, ManifestTruthful, RunIsNew,
       RollbackIsOfLive, EditsArePatches, ValidatedSoFar, NothingCreated, DoneOrUntouched,
       CopiedInTurn, RestoredSoFar, store
<1>3. CASE Text(disk[f]) = edits[f].before /\ todo = {f}
  <2>1. /\ pc = "validate" /\ pc' = "backup" /\ todo' = DOMAIN edits /\ run \in Runs
        /\ preimage' = [preimage EXCEPT ![run] = disk]
        /\ UNCHANGED <<run, contents, edits, force, written, created, disk, store, fresh>>
    BY <1>3 DEF Validate, Goto, UserTextInv, TypeOK, LocalTypeOK
  <2>2. /\ preimage'[run] = disk
        /\ \A r \in Runs \ {run} : preimage'[r] = preimage[r]
    BY <2>1 DEF UserTextInv, TypeOK, StoreTypeOK
  <2>3. \A g \in DOMAIN edits : Text(disk[g]) = edits[g].before
    BY <1>3, <2>1 DEF RollbackInv, ValidatedSoFar
  <2>4. LiveManifestIsBacked'
    BY <2>1, <2>2 DEF RollbackInv, LiveManifestIsBacked, RunIsNew, store
  <2>5. created = {}
    BY <2>1 DEF RollbackInv, NothingCreated
  <2>6. DoneOrUntouched' /\ CopiedInTurn'
    BY <2>1, <2>2, <2>3, <2>5 DEF DoneOrUntouched, CopiedInTurn
  <2>7. QED
    BY <2>1, <2>4, <2>6 DEF RollbackInv, RollbackExact, ManifestTruthful, RunIsNew,
       RollbackIsOfLive, EditsArePatches, ValidatedSoFar, NothingCreated, RestoredSoFar, store
<1>4. QED
  BY <1>1, <1>2, <1>3

\* The copy is of the text that was hashed, and no run with a manifest loses one.
LEMMA BackupRollback ==
  ASSUME UserTextInv, RollbackInv, NEW f \in Files, Backup(f)
  PROVE  RollbackInv'
<1>1. /\ pc = "backup" /\ pc' = "write" /\ IsFirst(f, todo) /\ f \in todo /\ run \in Runs
      /\ UNCHANGED <<run, edits, disk, manifest, todo, preimage>>
      /\ \/ disk[f] = Absent /\ backups' = backups /\ created' = created \cup {f}
         \/ /\ disk[f] # Absent /\ created' = created
            /\ backups' = [backups EXCEPT ![run][f] = disk[f]]
  BY DEF Backup, Goto, IsFirst, UserTextInv, TypeOK, LocalTypeOK, observed
<1>2. /\ \A r \in Runs \ {run} : backups'[r] = backups[r]
      /\ \A g \in Files \ {f} : backups'[run][g] = backups[run][g]
      /\ disk[f] # Absent => backups'[run][f] = disk[f]
  BY <1>1 DEF UserTextInv, TypeOK, StoreTypeOK
<1>3. /\ Text(disk[f]) = edits[f].before /\ disk[f] = preimage[run][f] /\ f \notin created
      /\ DOMAIN edits \subseteq Files
  BY <1>1, PartialDomain DEF RollbackInv, DoneOrUntouched, CopiedInTurn, UserTextInv, TypeOK,
     LocalTypeOK
<1>4. Copied(f)'
  BY <1>1, <1>2, <1>3 DEF Copied
<1>5. \A g \in Files \ {f} : Copied(g) => Copied(g)'
  BY <1>1, <1>2 DEF Copied
<1>6. LiveManifestIsBacked'
  BY <1>1, <1>2 DEF RollbackInv, LiveManifestIsBacked, RunIsNew
<1>7. DoneOrUntouched'
  BY <1>1, <1>3, <1>5 DEF RollbackInv, DoneOrUntouched
<1>8. CopiedInTurn'
  <2>1. \A g \in todo : IsFirst(g, todo) => g = f
    BY <1>1, FirstIsUnique
  <2>2. \A g \in todo : g # f => g \notin created'
    BY <1>1 DEF RollbackInv, CopiedInTurn
  <2>3. \A g \in todo : IF IsFirst(g, todo) THEN Copied(g)' ELSE g \notin created'
    BY <1>1, <1>4, <2>1, <2>2
  <2>4. QED
    BY <1>1, <2>3 DEF CopiedInTurn, IsFirst
<1>9. QED
  BY <1>1, <1>6, <1>7, <1>8 DEF RollbackInv, RollbackExact, ManifestTruthful, RunIsNew,
     RollbackIsOfLive, EditsArePatches, ValidatedSoFar, NothingCreated, RestoredSoFar

\* A file joins the done ones with its copy; the next one is untouched.
LEMMA WriteRollback ==
  ASSUME UserTextInv, RollbackInv, NEW f \in Files, Write(f)
  PROVE  RollbackInv'
<1>1. /\ pc = "write" /\ IsFirst(f, todo) /\ f \in todo /\ f \in DOMAIN edits
      /\ disk' = [disk EXCEPT ![f] = edits[f].after] /\ todo' = todo \ {f}
      /\ pc' = IF todo = {f} THEN "manifest" ELSE "backup"
      /\ UNCHANGED <<run, edits, backups, manifest, created, preimage>>
  BY DEF Write, Goto, IsFirst, UserTextInv, LoopsVisitEdits, store, observed
<1>2. /\ disk'[f] = edits[f].after
      /\ \A g \in Files \ {f} : disk'[g] = disk[g]
  BY <1>1 DEF UserTextInv, TypeOK, StoreTypeOK
<1>3. Copied(f) /\ \A g \in todo \ {f} : g \notin created
  BY <1>1, FirstIsUnique DEF RollbackInv, CopiedInTurn
<1>4. DOMAIN edits \subseteq Files /\ todo \subseteq Files
  BY PartialDomain DEF UserTextInv, TypeOK, LocalTypeOK
<1>5. DoneOrUntouched'
  <2>1. \A g : Copied(g) => Copied(g)'
    BY <1>1 DEF Copied
  <2>2. \A g \in DOMAIN edits \ todo' : Copied(g)' /\ disk'[g] = edits[g].after
    BY <1>1, <1>2, <1>3, <1>4, <2>1 DEF RollbackInv, DoneOrUntouched
  <2>3. \A g \in todo' : Text(disk'[g]) = edits[g].before
    BY <1>1, <1>2, <1>4 DEF RollbackInv, DoneOrUntouched
  <2>4. \A g \in Files \ (DOMAIN edits \ todo') : disk'[g] = preimage[run][g]
    BY <1>1, <1>2 DEF RollbackInv, DoneOrUntouched
  <2>5. QED
    BY <1>1, <2>2, <2>3, <2>4 DEF DoneOrUntouched
<1>6. CopiedInTurn'
  BY <1>1, <1>3 DEF CopiedInTurn
<1>7. LiveManifestIsBacked'
  BY <1>1, BackedStays DEF RollbackInv
<1>8. QED
  BY <1>1, <1>5, <1>6, <1>7 DEF RollbackInv, RollbackExact, ManifestTruthful, RunIsNew,
     RollbackIsOfLive, EditsArePatches, ValidatedSoFar, NothingCreated, RestoredSoFar

\* On the way to the handler, and inside it, the run has no manifest.
LEMMA HandlerRollback ==
  ASSUME UserTextInv, RollbackInv,
         CopyOrOpenFails \/ (\E f \in Files : WriteFails(f) \/ Restore(f))
  PROVE  RollbackInv'
<1>1. /\ pc \in {"backup", "write", "restore"} /\ pc' = "restore"
      /\ UNCHANGED <<run, edits, backups, manifest, preimage>>
  BY DEF CopyOrOpenFails, WriteFails, Restore, Goto, store, observed
<1>2. LiveManifestIsBacked'
  BY <1>1, BackedStays DEF RollbackInv
<1>3. QED
  BY <1>1, <1>2 DEF RollbackInv, RollbackExact, ManifestTruthful, RunIsNew,
     RollbackIsOfLive, EditsArePatches, ValidatedSoFar, NothingCreated, DoneOrUntouched,
     CopiedInTurn, RestoredSoFar

\* The manifest records what was done; the copies it relies on are there.
LEMMA WriteManifestRollback ==
  ASSUME UserTextInv, RollbackInv, WriteManifest
  PROVE  RollbackInv'
<1> DEFINE e(f) == [original |-> edits[f].before, patched |-> edits[f].after,
                    created |-> f \in created]
<1>1. /\ pc = "manifest" /\ pc' = "latest" /\ run \in Runs
      /\ manifest' = [manifest EXCEPT ![run] =
                        [state |-> "live", entries |-> [f \in DOMAIN edits |-> e(f)]]]
      /\ UNCHANGED <<run, edits, disk, backups, created, preimage>>
  BY DEF WriteManifest, Goto, UserTextInv, TypeOK, LocalTypeOK, observed
<1>2. /\ manifest'[run].entries = [f \in DOMAIN edits |-> e(f)]
      /\ \A r \in Runs \ {run} : manifest'[r] = manifest[r]
  BY <1>1 DEF UserTextInv, TypeOK, StoreTypeOK
<1>3. \A f \in DOMAIN edits : Copied(f) /\ disk[f] = edits[f].after
  BY <1>1 DEF RollbackInv, DoneOrUntouched
<1>4. \A f \in Files \ DOMAIN edits : disk[f] = preimage[run][f]
  BY <1>1 DEF RollbackInv, DoneOrUntouched
<1>5. ASSUME NEW f \in DOMAIN edits
      PROVE  LET d == manifest'[run].entries[f]
             IN  /\ d.original = Text(preimage[run][f]) /\ d.patched = disk[f]
                 /\ d.created <=> preimage[run][f] = Absent
                 /\ d.created \/ /\ backups[run][f] = preimage[run][f]
                                 /\ Text(backups[run][f]) = d.original
  <2>1. manifest'[run].entries[f] = e(f)
    BY <1>2
  <2>2. /\ e(f).original = edits[f].before /\ e(f).patched = edits[f].after
        /\ e(f).created <=> f \in created
    OBVIOUS
  <2>3. /\ edits[f].before = Text(preimage[run][f]) /\ edits[f].after = disk[f]
        /\ f \in created <=> preimage[run][f] = Absent
        /\ f \notin created => backups[run][f] = preimage[run][f]
    BY <1>3 DEF Copied
  <2>4. QED
    BY <2>1, <2>2, <2>3
<1>6. ManifestTruthful' /\ LiveManifestIsBacked'
  <2>1. ManifestTruthful'
    BY <1>1, <1>2, <1>4, <1>5 DEF ManifestTruthful
  <2>2. LiveManifestIsBacked'
    BY <1>1, <1>2, <1>5 DEF RollbackInv, LiveManifestIsBacked
  <2>3. QED
    BY <2>1, <2>2
<1>7. QED
  BY <1>1, <1>6 DEF RollbackInv, RollbackExact, RunIsNew, RollbackIsOfLive,
     EditsArePatches, ValidatedSoFar, NothingCreated, DoneOrUntouched, CopiedInTurn,
     RestoredSoFar

\* A manifest that could not be written is not live.
LEMMA ManifestFailsRollback ==
  ASSUME UserTextInv, RollbackInv, ManifestFails
  PROVE  RollbackInv'
<1>1. run \in Runs /\ Return /\ UNCHANGED <<backups, preimage>>
  BY DEF ManifestFails, UserTextInv, TypeOK, LocalTypeOK, observed
<1>2. CASE UNCHANGED manifest
  BY <1>1, <1>2, EndRollback
<1>3. CASE manifest' = [manifest EXCEPT ![run].state = "torn"]
  BY <1>1, <1>3, StateChanged, EndRollback
<1>4. QED
  BY <1>2, <1>3 DEF ManifestFails

-----------------------------------------------------------------------------
(* rollback_run                                                            *)

\* A rollback takes a live manifest and has restored nothing yet.
LEMMA StartRollbackRollback ==
  ASSUME UserTextInv, RollbackInv, NEW r \in Runs, NEW forced \in BOOLEAN,
         StartRollback(r, forced)
  PROVE  RollbackInv'
<1>1. LiveManifestIsBacked'
  BY BackedStays DEF StartRollback, RollbackInv, store, observed
<1>2. QED
  BY <1>1 DEF StartRollback, RollbackInv, RollbackExact, ManifestTruthful, RunIsNew,
     RollbackIsOfLive, EditsArePatches, ValidatedSoFar, NothingCreated, DoneOrUntouched,
     CopiedInTurn, RestoredSoFar, store

\* Verification changes nothing.
LEMMA RbVerifyRollback ==
  ASSUME UserTextInv, RollbackInv, NEW f \in Files, RbVerify(f)
  PROVE  RollbackInv'
<1>1. CASE Text(disk[f]) # manifest[run].entries[f].patched
  BY <1>1, EndRollback DEF RbVerify, store, observed
<1>2. CASE Text(disk[f]) = manifest[run].entries[f].patched
  <2>1. /\ pc = "rbverify" /\ pc' \in {"rbverify", "rbrestore"}
        /\ pc' = "rbrestore" => todo' = DOMAIN manifest[run].entries
        /\ UNCHANGED <<run, edits, created, disk, backups, manifest, preimage>>
    BY <1>2 DEF RbVerify, Goto, store, observed
  <2>2. LiveManifestIsBacked'
    BY <2>1, BackedStays DEF RollbackInv
  <2>3. QED
    BY <2>1, <2>2 DEF RollbackInv, RollbackExact, ManifestTruthful, RunIsNew,
       RollbackIsOfLive, EditsArePatches, ValidatedSoFar, NothingCreated, DoneOrUntouched,
       CopiedInTurn, RestoredSoFar
<1>3. QED
  BY <1>1, <1>2

\* What is put back is what the run found.
LEMMA RbRestoreRollback ==
  ASSUME UserTextInv, RollbackInv, NEW f \in Files, RbRestore(f)
  PROVE  RollbackInv'
<1> DEFINE e == manifest[run].entries[f]
<1>1. /\ pc = "rbrestore" /\ f \in todo /\ run \in Runs
      /\ pc' = IF todo = {f} THEN "rbrename" ELSE "rbrestore"
      /\ disk' = [disk EXCEPT ![f] = IF e.created THEN Absent ELSE backups[run][f]]
      /\ todo' = todo \ {f}
      /\ UNCHANGED <<run, edits, created, backups, manifest, preimage>>
  BY DEF RbRestore, Goto, IsFirst, UserTextInv, TypeOK, LocalTypeOK, store
<1>2. manifest[run].state = "live" /\ f \in DOMAIN manifest[run].entries
  BY <1>1 DEF RollbackInv, RollbackIsOfLive, UserTextInv, RollbackVerified
<1>3. (IF e.created THEN Absent ELSE backups[run][f]) = preimage[run][f]
  BY <1>1, <1>2 DEF RollbackInv, LiveManifestIsBacked
<1>4. DOMAIN manifest[run].entries \subseteq Files
  BY <1>1, EntryTyped DEF UserTextInv, TypeOK
<1>5. \A g \in DOMAIN manifest[run].entries \ todo' : disk'[g] = preimage[run][g]
  BY <1>1, <1>3, <1>4 DEF RollbackInv, RestoredSoFar, UserTextInv, TypeOK, StoreTypeOK
<1>6. RollbackExact' /\ RestoredSoFar'
  BY <1>1, <1>5 DEF RollbackExact, RestoredSoFar
<1>7. LiveManifestIsBacked'
  BY <1>1, BackedStays DEF RollbackInv
<1>8. QED
  BY <1>1, <1>2, <1>6, <1>7 DEF RollbackInv, ManifestTruthful, RunIsNew, RollbackIsOfLive,
     EditsArePatches, ValidatedSoFar, NothingCreated, DoneOrUntouched, CopiedInTurn

\* Setting the manifest aside ends its promise.
LEMMA RbRenameRollback ==
  ASSUME UserTextInv, RollbackInv, RbRename
  PROVE  RollbackInv'
<1>1. /\ pc = "rbrename" /\ pc' = "rblatest" /\ run \in Runs
      /\ manifest' = [manifest EXCEPT ![run].state = "rolledback"]
      /\ UNCHANGED <<run, edits, created, disk, backups, preimage>>
  BY DEF RbRename, Goto, UserTextInv, TypeOK, LocalTypeOK, observed
<1>2. LiveManifestIsBacked'
  BY <1>1, StateChanged, BackedStays DEF RollbackInv
<1>3. QED
  BY <1>1, <1>2 DEF RollbackInv, RollbackExact, ManifestTruthful, RunIsNew,
     RollbackIsOfLive, EditsArePatches, ValidatedSoFar, NothingCreated, DoneOrUntouched,
     CopiedInTurn, RestoredSoFar

-----------------------------------------------------------------------------
(* Ends, kills and saves                                                   *)

\* Commands that end with the manifests as they were.
LEMMA EndsRollback ==
  ASSUME UserTextInv, RollbackInv,
         \/ StopBeforeApply \/ Reraise \/ WriteLatest \/ LatestFails \/ RbLatest
         \/ RbFinishFails \/ \E f \in Files : RestoreFails(f) \/ RbRestoreFails(f)
  PROVE  RollbackInv'
<1>1. Return /\ UNCHANGED <<backups, manifest, preimage>>
  BY DEF StopBeforeApply, Reraise, WriteLatest, LatestFails, RbLatest, RbFinishFails,
     RestoreFails, RbRestoreFails, store, observed
<1>2. QED
  BY <1>1, EndRollback

\* A kill leaves the manifests, or tears the one that was being written.
LEMMA CrashRollback ==
  ASSUME UserTextInv, RollbackInv, Crash
  PROVE  RollbackInv'
<1>1. /\ Return /\ run \in Runs /\ UNCHANGED <<backups, preimage>>
      /\ UNCHANGED manifest \/ manifest' = [manifest EXCEPT ![run].state = "torn"]
  BY DEF Crash, UserTextInv, TypeOK, LocalTypeOK, store
<1>2. CASE UNCHANGED manifest
  BY <1>1, <1>2, EndRollback
<1>3. CASE manifest' = [manifest EXCEPT ![run].state = "torn"]
  BY <1>1, <1>3, StateChanged, EndRollback
<1>4. QED
  BY <1>1, <1>2, <1>3

\* A save at a quiet point is no concern of a run's manifest or copies.
LEMMA UserSavesRollback ==
  ASSUME UserTextInv, RollbackInv, Quiet, NEW f \in Files,
         NEW c \in UserTexts \cup {Blank, Absent}, UserSaves(f, c)
  PROVE  RollbackInv'
<1>1. /\ pc \in {"idle", "planned", "rendered"}
      /\ UNCHANGED <<pc, run, edits, todo, created, backups, manifest, preimage>>
  BY DEF UserSaves, Quiet, store, locals
<1>2. LiveManifestIsBacked'
  BY <1>1, BackedStays DEF RollbackInv
<1>3. QED
  BY <1>1, <1>2 DEF RollbackInv, RollbackExact, ManifestTruthful, RunIsNew,
     RollbackIsOfLive, EditsArePatches, ValidatedSoFar, NothingCreated, DoneOrUntouched,
     CopiedInTurn, RestoredSoFar

-----------------------------------------------------------------------------
(* The theorems                                                            *)

\* At the start there are no manifests and no edits.
LEMMA InitRollback ==
  ASSUME Init
  PROVE  RollbackInv
BY DEF Init, Nothing, RollbackInv, RollbackExact, ManifestTruthful, LiveManifestIsBacked,
   RunIsNew, RollbackIsOfLive, EditsArePatches, ValidatedSoFar, NothingCreated,
   DoneOrUntouched, CopiedInTurn, RestoredSoFar

\* Every step keeps the invariant.
LEMMA StepRollback ==
  ASSUME UserTextInv, RollbackInv, Quiet, [Next]_vars
  PROVE  RollbackInv'
<1>1. CASE Integrate
  BY <1>1, InspectRollback, BuildRollback, RenderRollback, BeginApplyRollback,
     ValidateRollback, BackupRollback, WriteRollback, HandlerRollback,
     WriteManifestRollback, EndsRollback DEF Integrate
<1>2. CASE Rollback
  BY <1>2, StartRollbackRollback, RbVerifyRollback, RbRestoreRollback, RbRenameRollback,
     EndsRollback DEF Rollback
<1>3. CASE Exceptions
  BY <1>3, HandlerRollback, ManifestFailsRollback, EndsRollback DEF Exceptions
<1>4. CASE Crash
  BY <1>4, CrashRollback
<1>5. CASE \E f \in Files, c \in UserTexts \cup {Blank, Absent} : UserSaves(f, c)
  BY <1>5, UserSavesRollback
<1>6. CASE UNCHANGED vars
  BY <1>6 DEF vars, store, locals, observed, RollbackInv, RollbackExact, ManifestTruthful,
     LiveManifestIsBacked, RunIsNew, RollbackIsOfLive, EditsArePatches, ValidatedSoFar,
     NothingCreated, DoneOrUntouched, CopiedInTurn, Copied, RestoredSoFar
<1>7. QED
  BY <1>1, <1>2, <1>3, <1>4, <1>5, <1>6 DEF Next

\* The copies and the manifest of a run are right at every point of every
\* behaviour whose saves are at quiet points.
THEOREM RollbackInvariant ==
  ASSUME Quiet
  PROVE  Spec => []RollbackInv
<1>1. Init => RollbackInv
  BY InitRollback
<1>2. UserTextInv /\ RollbackInv /\ [Next]_vars => RollbackInv'
  BY Quiet, StepRollback
<1>3. Spec => []UserTextInv
  BY Quiet, QuietIsSafe, UserTextInvariant
<1>4. QED
  BY <1>1, <1>2, <1>3, PTL DEF Spec

\* A rollback that has gone through its entries leaves each file as the run
\* found it, the created ones deleted, whatever ran or failed in between.
THEOREM RollbackRestores ==
  ASSUME Quiet
  PROVE  Spec => []RollbackExact
<1>1. RollbackInv => RollbackExact
  BY DEF RollbackInv
<1>2. QED
  BY Quiet, <1>1, RollbackInvariant, PTL

\* A manifest just written is true of every file of the tree.
THEOREM ManifestIsTrue ==
  ASSUME Quiet
  PROVE  Spec => []ManifestTruthful
<1>1. RollbackInv => ManifestTruthful
  BY DEF RollbackInv
<1>2. QED
  BY Quiet, <1>1, RollbackInvariant, PTL

\* A live manifest keeps exact copies of what its run replaced, for good.
THEOREM ManifestStaysBacked ==
  ASSUME Quiet
  PROVE  Spec => []LiveManifestIsBacked
<1>1. RollbackInv => LiveManifestIsBacked
  BY DEF RollbackInv
<1>2. QED
  BY Quiet, <1>1, RollbackInvariant, PTL

\* No write replaces a text other than the one it was computed from.
THEOREM WritesAreCurrent ==
  ASSUME Quiet
  PROVE  Spec => []WritesMatchBase
<1>1. UserTextInv /\ RollbackInv => WritesMatchBase
  BY DEF UserTextInv, LoopsVisitEdits, RollbackInv, EditsArePatches, DoneOrUntouched,
     WritesMatchBase, IsFirst
<1>2. Spec => []UserTextInv
  BY Quiet, QuietIsSafe, UserTextInvariant
<1>3. QED
  BY Quiet, <1>1, <1>2, RollbackInvariant, PTL

-----------------------------------------------------------------------------
(* Atomicity                                                               *)

\* What must not fail, or not half way, for a run to happen at once.
WritesSucceed   == "write" \notin Faults
HandlerSucceeds == ~Crashes /\ Faults \cap {"write", "restore", "manifest"} = {}
RollbackEnds    == ~Crashes /\ "rblatest" \notin Faults

-----------------------------------------------------------------------------
(* AtomicInv                                                               *)

\* A command that ends, with manifests as they were or not live.
LEMMA EndAtomic ==
  ASSUME AtomicInv, Return,
         \A r \in Runs : manifest'[r] = manifest[r] \/ manifest'[r].state # "live"
  PROVE  AtomicInv'
BY DEF Return, AtomicInv, EditsNotEmpty, EntriesNotEmpty, WrittenIsDone, HandlerRestores

\* A step of the preparation or of a rollback, with nothing rendered anew.
LEMMA PreparingAtomic ==
  ASSUME AtomicInv, UNCHANGED <<manifest, edits>>,
         pc' \in {"idle", "planned", "built", "rendered", "validate",
                  "rbverify", "rbrestore", "rbrename", "rblatest"},
         pc' \in {"rendered", "validate"} => pc \in {"rendered", "validate"}
  PROVE  AtomicInv'
BY DEF AtomicInv, EditsNotEmpty, EntriesNotEmpty, WrittenIsDone, HandlerRestores

\* integrate_repo up to the write loop: an empty patch set is not applied.
LEMMA PrepareAtomic ==
  ASSUME UserTextInv, AtomicInv,
         \/ \E r \in Runs : Inspect(r)
         \/ \E T \in SUBSET Files : Build(T)
         \/ Render \/ BeginApply
         \/ \E f \in Files : Validate(f)
  PROVE  AtomicInv'
<1>1. ASSUME NEW r \in Runs, Inspect(r) PROVE AtomicInv'
  BY <1>1, PreparingAtomic DEF Inspect, store
<1>2. ASSUME NEW T \in SUBSET Files, Build(T) PROVE AtomicInv'
  BY <1>2, PreparingAtomic DEF Build, store
<1>3. CASE Render
  <2>1. CASE Return
    BY <1>3, <2>1, EndAtomic DEF Render, store
  <2>2. CASE pc' = "rendered" /\ DOMAIN edits' # {}
    BY <1>3, <2>2 DEF Render, store, AtomicInv, EditsNotEmpty, EntriesNotEmpty,
       WrittenIsDone, HandlerRestores
  <2>3. QED
    BY <1>3, <2>1, <2>2 DEF Render
<1>4. CASE BeginApply
  BY <1>4, PreparingAtomic DEF BeginApply, Goto, store
<1>5. ASSUME NEW f \in Files, Validate(f) PROVE AtomicInv'
  <2>1. CASE Return
    BY <1>5, <2>1, EndAtomic DEF Validate, store
  <2>2. CASE Goto("validate")
    BY <1>5, <2>2, PreparingAtomic DEF Validate, Goto, store
  <2>3. CASE pc' = "backup" /\ todo' = DOMAIN edits /\ UNCHANGED <<edits, written>>
    <3>1. pc = "validate" /\ written = {} /\ UNCHANGED manifest
      BY <1>5 DEF Validate, store, UserTextInv, NothingWritten
    <3>2. QED
      BY <2>3, <3>1 DEF AtomicInv, EditsNotEmpty, EntriesNotEmpty, WrittenIsDone,
         HandlerRestores
  <2>4. QED
    BY <1>5, <2>1, <2>2, <2>3 DEF Validate, Goto
<1>6. QED
  BY <1>1, <1>2, <1>3, <1>4, <1>5

\* In the write loop, what is not to do is done.
LEMMA LoopAtomic ==
  ASSUME UserTextInv, AtomicInv, NEW f \in Files, Backup(f) \/ Write(f)
  PROVE  AtomicInv'
<1>1. CASE Backup(f)
  BY <1>1 DEF Backup, Goto, AtomicInv, EditsNotEmpty, EntriesNotEmpty, WrittenIsDone,
     HandlerRestores
<1>2. CASE Write(f)
  BY <1>2 DEF Write, Goto, IsFirst, store, UserTextInv, LoopsVisitEdits, AtomicInv,
     EditsNotEmpty, EntriesNotEmpty, WrittenIsDone, HandlerRestores
<1>3. QED
  BY <1>1, <1>2

\* The handler finds every written file copied and every other file untouched.
LEMMA CopyOrOpenFailsAtomic ==
  ASSUME UserTextInv, RollbackInv, AtomicInv, CopyOrOpenFails
  PROVE  AtomicInv'
<1>1. /\ pc \in {"backup", "write"} /\ pc' = "restore"
      /\ UNCHANGED <<run, edits, disk, backups, manifest, written, created, preimage>>
  BY DEF CopyOrOpenFails, Goto, store, observed
<1>2. written = DOMAIN edits \ todo
  BY <1>1 DEF AtomicInv, WrittenIsDone
<1>3. \A f \in written : preimage[run][f] = IF f \in created THEN Absent ELSE backups[run][f]
  BY <1>1, <1>2 DEF RollbackInv, DoneOrUntouched, Copied
<1>4. \A f \in Files \ written : disk[f] = preimage[run][f]
  BY <1>1, <1>2 DEF RollbackInv, DoneOrUntouched
<1>5. HandlerRestores'
  BY <1>1, <1>2, <1>3, <1>4 DEF HandlerRestores
<1>6. QED
  BY <1>1, <1>5 DEF AtomicInv, EditsNotEmpty, EntriesNotEmpty, WrittenIsDone

\* A restored file is as it was.
LEMMA RestoreAtomic ==
  ASSUME UserTextInv, AtomicInv, NEW f \in Files, Restore(f)
  PROVE  AtomicInv'
<1>1. /\ pc = "restore" /\ pc' = "restore" /\ f \in written
      /\ disk' = [disk EXCEPT ![f] = IF f \in created THEN Absent ELSE backups[run][f]]
      /\ written' = written \ {f}
      /\ UNCHANGED <<run, edits, backups, manifest, created, preimage>>
  BY DEF Restore, Goto, IsLast, store, observed
<1>2. HandlerRestores'
  BY <1>1 DEF AtomicInv, HandlerRestores, UserTextInv, TypeOK, StoreTypeOK
<1>3. QED
  BY <1>1, <1>2 DEF AtomicInv, EditsNotEmpty, EntriesNotEmpty, WrittenIsDone

\* The entries of a manifest are the edits of its run.
LEMMA WriteManifestAtomic ==
  ASSUME UserTextInv, AtomicInv, WriteManifest
  PROVE  AtomicInv'
<1>1. /\ pc = "manifest" /\ pc' = "latest" /\ run \in Runs /\ DOMAIN edits # {}
  BY DEF WriteManifest, Goto, UserTextInv, TypeOK, LocalTypeOK, AtomicInv, EditsNotEmpty
<1>2. /\ DOMAIN manifest'[run].entries = DOMAIN edits
      /\ \A r \in Runs \ {run} : manifest'[r] = manifest[r]
  BY <1>1 DEF WriteManifest, UserTextInv, TypeOK, StoreTypeOK
<1>3. QED
  BY <1>1, <1>2 DEF AtomicInv, EditsNotEmpty, EntriesNotEmpty, WrittenIsDone, HandlerRestores

\* A rollback writes no manifest but the one it sets aside.
LEMMA RollbackAtomic ==
  ASSUME UserTextInv, AtomicInv, Rollback
  PROVE  AtomicInv'
<1>1. ASSUME NEW r \in Runs, NEW forced \in BOOLEAN, StartRollback(r, forced)
      PROVE  AtomicInv'
  BY <1>1, PreparingAtomic DEF StartRollback, store
<1>2. ASSUME NEW f \in Files, RbVerify(f) PROVE AtomicInv'
  <2>1. CASE Return
    BY <1>2, <2>1, EndAtomic DEF RbVerify, store
  <2>2. CASE pc' \in {"rbverify", "rbrestore"} /\ UNCHANGED edits
    BY <1>2, <2>2, PreparingAtomic DEF RbVerify, store
  <2>3. QED
    BY <1>2, <2>1, <2>2 DEF RbVerify, Goto
<1>3. ASSUME NEW f \in Files, RbRestore(f) PROVE AtomicInv'
  BY <1>3, PreparingAtomic DEF RbRestore, Goto, store
<1>4. CASE RbRename
  <2>1. /\ pc' = "rblatest" /\ UNCHANGED edits
        /\ \A r \in Runs : manifest'[r] = manifest[r] \/ manifest'[r].state # "live"
    BY <1>4, StateChanged DEF RbRename, Goto, UserTextInv, TypeOK, LocalTypeOK
  <2>2. QED
    BY <2>1 DEF AtomicInv, EditsNotEmpty, EntriesNotEmpty, WrittenIsDone, HandlerRestores
<1>5. CASE RbLatest
  BY <1>5, EndAtomic DEF RbLatest
<1>6. QED
  BY <1>1, <1>2, <1>3, <1>4, <1>5 DEF Rollback

\* Commands that end, fail or are killed: no manifest becomes live.
LEMMA EndsAtomic ==
  ASSUME UserTextInv, AtomicInv,
         \/ StopBeforeApply \/ Reraise \/ WriteLatest \/ Crash
         \/ ManifestFails \/ LatestFails \/ RbFinishFails
         \/ \E f \in Files : RestoreFails(f) \/ RbRestoreFails(f)
  PROVE  AtomicInv'
<1>1. Return
  BY DEF StopBeforeApply, Reraise, WriteLatest, Crash, ManifestFails, LatestFails,
     RbFinishFails, RestoreFails, RbRestoreFails
<1>2. UNCHANGED manifest \/ /\ run \in Runs
                            /\ manifest' = [manifest EXCEPT ![run].state = "torn"]
  BY DEF StopBeforeApply, Reraise, WriteLatest, Crash, ManifestFails, LatestFails,
     RbFinishFails, RestoreFails, RbRestoreFails, store, UserTextInv, TypeOK, LocalTypeOK
<1>3. \A r \in Runs : manifest'[r] = manifest[r] \/ manifest'[r].state # "live"
  BY <1>2, StateChanged
<1>4. QED
  BY <1>1, <1>3, EndAtomic

\* Every step keeps the invariant, if no write truncates its target.
LEMMA StepAtomic ==
  ASSUME UserTextInv, RollbackInv, AtomicInv, Quiet, WritesSucceed, [Next]_vars
  PROVE  AtomicInv'
<1>1. CASE Integrate
  BY <1>1, PrepareAtomic, LoopAtomic, RestoreAtomic, WriteManifestAtomic, EndsAtomic
     DEF Integrate
<1>2. CASE Rollback
  BY <1>2, RollbackAtomic
<1>3. CASE Exceptions
  BY <1>3, CopyOrOpenFailsAtomic, EndsAtomic DEF Exceptions, WriteFails, WritesSucceed
<1>4. CASE Crash
  BY <1>4, EndsAtomic
<1>5. CASE \E f \in Files, c \in UserTexts \cup {Blank, Absent} : UserSaves(f, c)
  BY <1>5, PreparingAtomic DEF UserSaves, Quiet, store, locals
<1>6. CASE UNCHANGED vars
  BY <1>6 DEF vars, store, locals, observed, AtomicInv, EditsNotEmpty, EntriesNotEmpty,
     WrittenIsDone, HandlerRestores
<1>7. QED
  BY <1>1, <1>2, <1>3, <1>4, <1>5, <1>6 DEF Next

\* What the restore handler has to put back is exactly what was changed.
THEOREM AtomicInvariant ==
  ASSUME Quiet, WritesSucceed
  PROVE  Spec => []AtomicInv
<1>1. Init => AtomicInv
  BY DEF Init, AtomicInv, EditsNotEmpty, EntriesNotEmpty, WrittenIsDone, HandlerRestores
<1>2. UserTextInv /\ RollbackInv /\ AtomicInv /\ [Next]_vars => AtomicInv'
  BY Quiet, WritesSucceed, StepAtomic
<1>3. Spec => []UserTextInv
  BY Quiet, QuietIsSafe, UserTextInvariant
<1>4. Spec => []RollbackInv
  BY Quiet, RollbackInvariant
<1>5. QED
  BY <1>1, <1>2, <1>3, <1>4, PTL DEF Spec

-----------------------------------------------------------------------------
(* Exceptions leave the tree as it was validated                           *)

\* With these faults only the re-raise leaves apply_patchset without a run.
LEMMA OnlyReraiseRaises ==
  ASSUME UserTextInv, HandlerSucceeds, "latest" \notin Faults, [Next]_vars, ApplyRaises
  PROVE  Reraise
<1>1. /\ pc \in {"backup", "write", "restore", "manifest", "latest"} /\ pc' = "idle"
      /\ latest' # run /\ ~Crash
  BY DEF ApplyRaises, HandlerSucceeds, Crash
<1>2. CASE Integrate
  BY <1>1, <1>2 DEF Integrate, Inspect, StopBeforeApply, Render, BeginApply, Build, Validate,
     Backup, Write, Restore, WriteManifest, WriteLatest, Goto
<1>3. CASE Rollback
  BY <1>1, <1>3 DEF Rollback, StartRollback, RbVerify, RbRestore, RbRename, RbLatest
<1>4. CASE Exceptions
  BY <1>1, <1>4 DEF Exceptions, CopyOrOpenFails, ManifestFails, LatestFails, RbFinishFails,
     WriteFails, RestoreFails, RbRestoreFails, Goto, HandlerSucceeds
<1>5. CASE \E f \in Files, c \in UserTexts \cup {Blank, Absent} : UserSaves(f, c)
  BY <1>1, <1>5 DEF UserSaves
<1>6. CASE UNCHANGED vars
  BY <1>1, <1>6 DEF vars
<1>7. QED
  BY <1>1, <1>2, <1>3, <1>4, <1>5, <1>6 DEF Next

\* The re-raise comes when every file is back.
LEMMA ReraiseRestored ==
  ASSUME UserTextInv, AtomicInv, Reraise
  PROVE  disk' = preimage[run]
<1>1. /\ run \in Runs /\ disk' = disk
      /\ \A f \in Files : disk[f] = preimage[run][f]
  BY DEF Reraise, AtomicInv, HandlerRestores, UserTextInv, TypeOK, LocalTypeOK
<1>2. disk \in [Files -> Content] /\ preimage[run] \in [Files -> Content]
  BY <1>1 DEF UserTextInv, TypeOK, StoreTypeOK
<1>3. QED
  BY <1>1, <1>2

\* A copy or an open that fails, anywhere in the write loop, is undone in full.
THEOREM ExceptionsUndoTheRun ==
  ASSUME Quiet, HandlerSucceeds, "latest" \notin Faults
  PROVE  Spec => AllOrNothing
<1>1. UserTextInv /\ AtomicInv /\ [Next]_vars => [ApplyRaises => disk' = preimage[run]]_vars
  BY HandlerSucceeds, "latest" \notin Faults, OnlyReraiseRaises, ReraiseRestored
<1>2. Spec => []UserTextInv
  BY Quiet, QuietIsSafe, UserTextInvariant
<1>3. Spec => []AtomicInv
  BY Quiet, HandlerSucceeds, AtomicInvariant DEF HandlerSucceeds, WritesSucceed
<1>4. QED
  BY <1>1, <1>2, <1>3, PTL DEF Spec, AllOrNothing

-----------------------------------------------------------------------------
(* runs/latest                                                             *)

\* Steps that leave the manifests and runs/latest alone.
LEMMA LatestStays ==
  ASSUME LatestInv, UNCHANGED manifest, latest' \in {latest, NoRun},
         pc # "rblatest", pc' # "latest"
  PROVE  LatestInv'
BY DEF LatestInv

\* Every step keeps runs/latest on a live manifest, or the rollback's own.
LEMMA StepLatest ==
  ASSUME UserTextInv, RollbackInv, LatestInv, RollbackEnds, [Next]_vars
  PROVE  LatestInv'
<1>1. CASE Integrate
  <2>1. CASE WriteManifest
    <3>1. /\ pc' = "latest" /\ run \in Runs /\ UNCHANGED <<latest, run>>
          /\ \A r \in Runs \ {run} : manifest'[r] = manifest[r]
          /\ manifest'[run].state = "live" /\ pc = "manifest"
      BY <2>1 DEF WriteManifest, Goto, UserTextInv, TypeOK, StoreTypeOK, LocalTypeOK
    <3>2. QED
      BY <3>1 DEF LatestInv
  <2>2. CASE WriteLatest
    <3>1. /\ latest' = run /\ run \in Runs /\ manifest[run].state = "live"
          /\ pc' = "idle" /\ UNCHANGED manifest
      BY <2>2 DEF WriteLatest, Return, LatestInv, UserTextInv, TypeOK, LocalTypeOK
    <3>2. QED
      BY <3>1 DEF LatestInv
  <2>3. CASE ~WriteManifest /\ ~WriteLatest
    BY <1>1, <2>3, LatestStays DEF Integrate, Inspect, StopBeforeApply, Render, BeginApply,
       Build, Validate, Backup, Write, Restore, Reraise, Goto, Return, store
  <2>4. QED
    BY <2>1, <2>2, <2>3
<1>2. CASE Rollback
  <2>1. CASE RbRename
    <3>1. /\ pc' = "rblatest" /\ run \in Runs /\ UNCHANGED <<latest, run>>
          /\ \A r \in Runs : manifest'[r] = manifest[r] \/ r = run
          /\ pc = "rbrename"
      BY <2>1, StateChanged DEF RbRename, Goto, UserTextInv, TypeOK, LocalTypeOK
    <3>2. QED
      BY <3>1 DEF LatestInv
  <2>2. CASE RbLatest
    BY <2>2 DEF RbLatest, Return, LatestInv
  <2>3. CASE ~RbRename /\ ~RbLatest
    BY <1>2, <2>3, LatestStays DEF Rollback, StartRollback, RbVerify, RbRestore, Goto, Return,
       store
  <2>4. QED
    BY <2>1, <2>2, <2>3
<1>3. CASE Exceptions
  <2>1. CASE ManifestFails
    <3>1. /\ pc' = "idle" /\ run \in Runs /\ UNCHANGED latest /\ pc = "manifest"
          /\ \A r \in Runs : manifest'[r] = manifest[r] \/ r = run
          /\ manifest[run].state = "none"
      BY <2>1, StateChanged DEF ManifestFails, Return, UserTextInv, TypeOK, LocalTypeOK,
         RollbackInv, RunIsNew
    <3>2. QED
      BY <3>1 DEF LatestInv
  <2>2. CASE ~ManifestFails
    BY <1>3, <2>2, LatestStays DEF Exceptions, RollbackEnds, CopyOrOpenFails, LatestFails,
       RbFinishFails, WriteFails, RestoreFails, RbRestoreFails, Goto, Return, store
  <2>3. QED
    BY <2>1, <2>2
<1>4. CASE \E f \in Files, c \in UserTexts \cup {Blank, Absent} : UserSaves(f, c)
  BY <1>4 DEF UserSaves, store, locals, LatestInv
<1>5. CASE UNCHANGED vars
  BY <1>5 DEF vars, store, locals, LatestInv
<1>6. ~Crash
  BY DEF RollbackEnds, Crash
<1>7. QED
  BY <1>1, <1>2, <1>3, <1>4, <1>5, <1>6 DEF Next

\* Between commands, runs/latest names a run that load_manifest accepts.
THEOREM LatestIsLoadable ==
  ASSUME Quiet, RollbackEnds
  PROVE  Spec => []LatestLoadable
<1>1. Init => LatestInv
  BY DEF Init, LatestInv
<1>2. UserTextInv /\ RollbackInv /\ LatestInv /\ [Next]_vars => LatestInv'
  BY RollbackEnds, StepLatest
<1>3. LatestInv => LatestLoadable
  BY DEF LatestInv, LatestLoadable
<1>4. Spec => []UserTextInv
  BY Quiet, QuietIsSafe, UserTextInvariant
<1>5. Spec => []RollbackInv
  BY Quiet, RollbackInvariant
<1>6. QED
  BY <1>1, <1>2, <1>3, <1>4, <1>5, PTL DEF Spec

-----------------------------------------------------------------------------
(* Refinement of AtomicRuns                                                *)

HalfWay == {"backup", "write", "restore", "manifest", "rbrestore", "rbrename"}

\* The promise and the executor name the same empty function.
LEMMA SameNothing == Atomic!Nothing = Nothing
BY DEF Atomic!Nothing, Nothing

\* What is seen of every file and kept of every run says what is seen.
LEMMA Stutter ==
  ASSUME \A f \in Files : Seen(f)' = Seen(f), \A r \in Runs : Kept(r)' = Kept(r),
         UNCHANGED saves
  PROVE  UNCHANGED <<TreeSeen, UndoKept, saves>>
BY DEF TreeSeen, UndoKept

\* Between commands and outside the loops, the tree seen is the disk.
LEMMA PlainStutter ==
  ASSUME pc \notin HalfWay, pc' \notin HalfWay, UNCHANGED <<disk, backups, manifest, saves>>
  PROVE  UNCHANGED <<TreeSeen, UndoKept, saves>>
<1>1. \A f \in Files : Seen(f)' = Seen(f)
  BY DEF Seen, HalfWay
<1>2. \A r \in Runs : Kept(r)' = Kept(r)
  BY DEF Kept, HalfWay
<1>3. QED
  BY <1>1, <1>2, Stutter

\* The last validation fixes the tree that is seen until the run takes effect.
LEMMA ValidateStutter ==
  ASSUME UserTextInv, RollbackInv, NEW f \in Files, Validate(f)
  PROVE  UNCHANGED <<TreeSeen, UndoKept, saves>>
<1>1. CASE pc' # "backup"
  BY <1>1, PlainStutter DEF Validate, Return, Goto, HalfWay, store
<1>2. CASE pc' = "backup"
  <2>1. /\ pc = "validate" /\ run \in Runs /\ preimage' = [preimage EXCEPT ![run] = disk]
        /\ UNCHANGED <<run, edits, disk, backups, manifest, saves>>
    BY <1>2 DEF Validate, Return, Goto, store, UserTextInv, TypeOK, LocalTypeOK
  <2>2. preimage'[run] = disk
    BY <2>1 DEF UserTextInv, TypeOK, StoreTypeOK
  <2>3. \A g \in Files : Seen(g)' = Seen(g)
    BY <1>2, <2>1, <2>2 DEF Seen
  <2>4. \A r \in Runs : Kept(r)' = Kept(r)
    BY <1>2, <2>1 DEF Kept
  <2>5. QED
    BY <2>1, <2>3, <2>4, Stutter
<1>3. QED
  BY <1>1, <1>2

\* The write loop and its handler change only files that are not seen.
LEMMA LoopStutter ==
  ASSUME UserTextInv, RollbackInv, AtomicInv,
         \/ CopyOrOpenFails
         \/ \E f \in Files : Backup(f) \/ Write(f) \/ Restore(f)
  PROVE  UNCHANGED <<TreeSeen, UndoKept, saves>>
<1>1. /\ pc \in {"backup", "write", "restore"} /\ pc' \in {"write", "backup", "restore", "manifest"}
      /\ UNCHANGED <<run, edits, manifest, preimage, saves>>
      /\ run \in Runs /\ manifest[run].state = "none"
  BY DEF CopyOrOpenFails, Backup, Write, Restore, Goto, store, observed, UserTextInv, TypeOK,
     LocalTypeOK, RollbackInv, RunIsNew
<1>2. \A g \in Files \ DOMAIN edits : disk'[g] = disk[g]
  BY DEF CopyOrOpenFails, Backup, Write, Restore, IsFirst, IsLast, UserTextInv, TypeOK,
     StoreTypeOK, LoopsVisitEdits, AtomicInv, HandlerRestores
<1>3. \A r \in Runs \ {run} : backups'[r] = backups[r]
  BY <1>1 DEF CopyOrOpenFails, Backup, Write, Restore, store, UserTextInv, TypeOK, StoreTypeOK
<1>4. \A g \in Files : Seen(g)' = Seen(g)
  BY <1>1, <1>2 DEF Seen
<1>5. \A r \in Runs : Kept(r)' = Kept(r)
  BY <1>1, <1>3 DEF Kept
<1>6. QED
  BY <1>1, <1>4, <1>5, Stutter

\* When the handler re-raises, what is seen has become what is there.
LEMMA ReraiseStutter ==
  ASSUME UserTextInv, AtomicInv, Reraise
  PROVE  UNCHANGED <<TreeSeen, UndoKept, saves>>
<1>1. /\ pc = "restore" /\ pc' = "idle" /\ UNCHANGED <<disk, backups, manifest, saves>>
      /\ \A f \in Files : disk[f] = preimage[run][f]
  BY DEF Reraise, Return, store, observed, AtomicInv, HandlerRestores
<1>2. \A f \in Files : Seen(f)' = Seen(f)
  BY <1>1 DEF Seen
<1>3. \A r \in Runs : Kept(r)' = Kept(r)
  BY <1>1 DEF Kept
<1>4. QED
  BY <1>1, <1>2, <1>3, Stutter

\* A run takes effect when its manifest is there.
LEMMA ManifestApplies ==
  ASSUME UserTextInv, RollbackInv, AtomicInv, WriteManifest
  PROVE  Atomic!Next
<1> DEFINE new == [f \in DOMAIN edits |-> edits[f].after]
<1>1. /\ pc = "manifest" /\ pc' = "latest" /\ run \in Runs /\ manifest[run].state = "none"
      /\ UNCHANGED <<run, edits, disk, backups, preimage, saves>>
  BY DEF WriteManifest, Goto, observed, UserTextInv, TypeOK, LocalTypeOK, RollbackInv, RunIsNew
<1>2. /\ manifest'[run].state = "live"
      /\ DOMAIN manifest'[run].entries = DOMAIN edits
      /\ \A f \in DOMAIN edits : manifest'[run].entries[f].created <=> f \in created
      /\ \A r \in Runs \ {run} : manifest'[r] = manifest[r]
  <2>1. manifest' = [manifest EXCEPT ![run] =
          [state |-> "live",
           entries |-> [f \in DOMAIN edits |-> [original |-> edits[f].before,
                                                patched  |-> edits[f].after,
                                                created  |-> f \in created]]]]
    BY DEF WriteManifest
  <2>2. manifest'[run] =
          [state |-> "live",
           entries |-> [f \in DOMAIN edits |-> [original |-> edits[f].before,
                                                patched  |-> edits[f].after,
                                                created  |-> f \in created]]]
    BY <1>1, <2>1 DEF UserTextInv, TypeOK, StoreTypeOK
  <2>3. \A r \in Runs \ {run} : manifest'[r] = manifest[r]
    BY <2>1 DEF UserTextInv, TypeOK, StoreTypeOK
  <2>4. ASSUME NEW f \in DOMAIN edits
        PROVE  manifest'[run].entries[f].created <=> f \in created
    <3> DEFINE e == [original |-> edits[f].before, patched |-> edits[f].after,
                     created |-> f \in created]
    <3>1. manifest'[run].entries[f] = e
      BY <2>2
    <3>2. e.created <=> f \in created
      OBVIOUS
    <3>3. QED
      BY <3>1, <3>2
  <2>5. QED
    BY <2>2, <2>3, <2>4
<1>3. /\ \A f \in DOMAIN edits : Copied(f) /\ disk[f] = edits[f].after
      /\ \A f \in Files \ DOMAIN edits : disk[f] = preimage[run][f]
  BY <1>1 DEF RollbackInv, DoneOrUntouched
<1>4. DOMAIN edits # {} /\ DOMAIN edits \subseteq Files
  BY <1>1, PartialDomain DEF AtomicInv, EditsNotEmpty, UserTextInv, TypeOK, LocalTypeOK
<1>5. new \in [DOMAIN edits -> Content]
  <2>1. edits \in PartialTo([before : Texts, after : Texts])
    BY DEF UserTextInv, TypeOK, LocalTypeOK
  <2>2. \A f \in DOMAIN edits : edits[f] \in [before : Texts, after : Texts]
    BY <2>1, PartialDomain
  <2>3. QED
    BY <2>2 DEF Content
<1>6. UndoKept[run] = Atomic!Nothing
  BY <1>1, SameNothing DEF UndoKept, Kept
<1>7. TreeSeen' = [f \in Files |-> IF f \in DOMAIN new THEN new[f] ELSE TreeSeen[f]]
  <2>1. \A f \in Files : Seen(f)' = IF f \in DOMAIN new THEN new[f] ELSE TreeSeen[f]
    BY <1>1, <1>3 DEF Seen, TreeSeen
  <2>2. QED
    BY <2>1 DEF TreeSeen
<1>8. UndoKept' = [UndoKept EXCEPT ![run] = [f \in DOMAIN new |-> TreeSeen[f]]]
  <2>1. \A f \in DOMAIN edits : TreeSeen[f] = preimage[run][f]
    BY <1>1, <1>4 DEF TreeSeen, Seen
  <2>2. \A f \in DOMAIN edits :
          (IF manifest'[run].entries[f].created THEN Absent ELSE backups[run][f]) = TreeSeen[f]
    BY <1>2, <1>3, <2>1 DEF Copied
  <2>3. Kept(run)' = [f \in DOMAIN edits |->
                        IF manifest'[run].entries[f].created THEN Absent ELSE backups[run][f]]
    BY <1>1, <1>2 DEF Kept
  <2>4. Kept(run)' = [f \in DOMAIN new |-> TreeSeen[f]]
    BY <2>2, <2>3
  <2>5. \A r \in Runs \ {run} : Kept(r)' = Kept(r)
    BY <1>1, <1>2 DEF Kept
  <2>6. QED
    BY <1>1, <2>4, <2>5 DEF UndoKept
<1>9. Atomic!ApplyRun(run, new)
  BY <1>1, <1>4, <1>6, <1>7, <1>8 DEF Atomic!ApplyRun
<1>10. QED
  BY <1>1, <1>4, <1>5, <1>9 DEF Atomic!Next

\* A rollback takes effect when its restore loop begins.
LEMMA RestoreLoopUndoes ==
  ASSUME UserTextInv, RollbackInv, AtomicInv, NEW r \in Runs,
         pc \in {"idle", "rbverify"}, pc' = "rbrestore", run' = r,
         manifest[r].state = "live", todo' = DOMAIN manifest[r].entries,
         UNCHANGED <<disk, backups, manifest, saves>>
  PROVE  Atomic!Next
<1> DEFINE kept == [f \in DOMAIN manifest[r].entries |->
                      IF manifest[r].entries[f].created THEN Absent ELSE backups[r][f]]
<1>1. Kept(r) = kept /\ UndoKept[r] = kept
  BY DEF Kept, UndoKept
<1>2. kept # Atomic!Nothing
  <2>1. DOMAIN kept # {}
    BY DEF AtomicInv, EntriesNotEmpty
  <2>2. DOMAIN Atomic!Nothing = {}
    BY DEF Atomic!Nothing
  <2>3. QED
    BY <2>1, <2>2
<1>3. TreeSeen' = [f \in Files |-> IF f \in DOMAIN kept THEN kept[f] ELSE TreeSeen[f]]
  <2>1. \A f \in Files : Seen(f)' = IF f \in DOMAIN kept THEN kept[f] ELSE TreeSeen[f]
    BY DEF Seen, TreeSeen
  <2>2. QED
    BY <2>1 DEF TreeSeen
<1>4. UndoKept' = [UndoKept EXCEPT ![r] = Atomic!Nothing]
  <2>1. Kept(r)' = Nothing /\ \A s \in Runs \ {r} : Kept(s)' = Kept(s)
    BY DEF Kept
  <2>2. QED
    BY <2>1, SameNothing DEF UndoKept
<1>5. Atomic!UndoRun(r)
  BY <1>1, <1>2, <1>3, <1>4 DEF Atomic!UndoRun
<1>6. QED
  BY <1>5 DEF Atomic!Next

\* The restore loop makes true what is seen already.
LEMMA RbRestoreStutter ==
  ASSUME UserTextInv, NEW f \in Files, RbRestore(f)
  PROVE  UNCHANGED <<TreeSeen, UndoKept, saves>>
<1>1. /\ pc = "rbrestore" /\ f \in todo /\ todo' = todo \ {f}
      /\ pc' = IF todo = {f} THEN "rbrename" ELSE "rbrestore"
      /\ disk' = [disk EXCEPT ![f] = IF manifest[run].entries[f].created
                                     THEN Absent ELSE backups[run][f]]
      /\ UNCHANGED <<run, backups, manifest, saves>>
  BY DEF RbRestore, Goto, IsFirst, store
<1>2. \A g \in Files : Seen(g)' = Seen(g)
  BY <1>1 DEF Seen, UserTextInv, TypeOK, StoreTypeOK
<1>3. \A r \in Runs : Kept(r)' = Kept(r)
  BY <1>1 DEF Kept
<1>4. QED
  BY <1>1, <1>2, <1>3, Stutter

\* Setting the manifest aside keeps nothing to undo, as before.
LEMMA RbRenameStutter ==
  ASSUME UserTextInv, RbRename
  PROVE  UNCHANGED <<TreeSeen, UndoKept, saves>>
<1>1. /\ pc = "rbrename" /\ pc' = "rblatest" /\ run \in Runs
      /\ manifest' = [manifest EXCEPT ![run].state = "rolledback"]
      /\ UNCHANGED <<run, disk, backups, saves>>
  BY DEF RbRename, Goto, observed, UserTextInv, TypeOK, LocalTypeOK
<1>2. \A f \in Files : Seen(f)' = Seen(f)
  BY <1>1 DEF Seen
<1>3. \A r \in Runs : Kept(r)' = Kept(r)
  <2>1. manifest \in [Runs -> Manifest]
    BY DEF UserTextInv, TypeOK, StoreTypeOK
  <2>2. manifest'[run].state = "rolledback"
    BY <1>1, <2>1 DEF Manifest
  <2>3. \A r \in Runs \ {run} : manifest'[r] = manifest[r]
    BY <1>1, <2>1
  <2>4. QED
    BY <1>1, <2>2, <2>3 DEF Kept
<1>4. QED
  BY <1>1, <1>2, <1>3, Stutter

\* A save at a quiet point is a save seen.
LEMMA SaveIsSave ==
  ASSUME UserTextInv, Quiet, NEW f \in Files,
         NEW c \in UserTexts \cup {Blank, Absent}, UserSaves(f, c)
  PROVE  Atomic!Next
<1>1. /\ pc \in {"idle", "planned", "rendered"} /\ pc' = pc
      /\ disk' = [disk EXCEPT ![f] = c] /\ saves' = saves + 1
      /\ UNCHANGED <<run, backups, manifest>>
  BY DEF UserSaves, Quiet, store, locals
<1>2. c \in Content
  BY TextsAssumption DEF Content
<1>3. TreeSeen' = [TreeSeen EXCEPT ![f] = c]
  <2>1. TreeSeen = [g \in Files |-> disk[g]]
    BY <1>1 DEF TreeSeen, Seen
  <2>2. TreeSeen' = [g \in Files |-> disk'[g]]
    BY <1>1 DEF TreeSeen, Seen
  <2>3. QED
    BY <1>1, <2>1, <2>2 DEF UserTextInv, TypeOK, StoreTypeOK
<1>4. UNCHANGED UndoKept
  <2>1. \A r \in Runs : Kept(r)' = Kept(r)
    BY <1>1 DEF Kept
  <2>2. QED
    BY <2>1 DEF UndoKept
<1>5. QED
  BY <1>1, <1>2, <1>3, <1>4 DEF Atomic!Next, Atomic!Save

\* Every step of the executor is one of whole runs, or is not seen.
LEMMA StepRefines ==
  ASSUME UserTextInv, RollbackInv, AtomicInv, Quiet, HandlerSucceeds,
         Faults \cap {"rbrestore", "rbrename"} = {}, [Next]_vars
  PROVE  [Atomic!Next]_<<TreeSeen, UndoKept, saves>>
<1>1. CASE Integrate
  <2>1. CASE \/ StopBeforeApply \/ Render \/ BeginApply \/ WriteLatest
             \/ \E r \in Runs : Inspect(r)
             \/ \E T \in SUBSET Files : Build(T)
    BY <2>1, PlainStutter DEF StopBeforeApply, Render, BeginApply, WriteLatest, Inspect, Build,
       Return, Goto, HalfWay, store, observed
  <2>2. QED
    BY <1>1, <2>1, ValidateStutter, LoopStutter, ReraiseStutter, ManifestApplies DEF Integrate
<1>2. CASE Rollback
  <2>1. ASSUME NEW r \in Runs, NEW forced \in BOOLEAN, StartRollback(r, forced)
        PROVE  [Atomic!Next]_<<TreeSeen, UndoKept, saves>>
    <3>1. CASE forced
      BY <2>1, <3>1, RestoreLoopUndoes DEF StartRollback, store, observed
    <3>2. CASE ~forced
      BY <2>1, <3>2, PlainStutter DEF StartRollback, HalfWay, store, observed
    <3>3. QED
      BY <3>1, <3>2
  <2>2. ASSUME NEW f \in Files, RbVerify(f)
        PROVE  [Atomic!Next]_<<TreeSeen, UndoKept, saves>>
    <3>1. CASE pc' = "rbrestore"
      <4>1. /\ pc = "rbverify" /\ run \in Runs /\ run' = run /\ manifest[run].state = "live"
            /\ todo' = DOMAIN manifest[run].entries
            /\ UNCHANGED <<disk, backups, manifest, saves>>
        BY <2>2, <3>1 DEF RbVerify, Return, Goto, store, observed, UserTextInv, TypeOK,
           LocalTypeOK, RollbackInv, RollbackIsOfLive
      <4>2. QED
        BY <3>1, <4>1, RestoreLoopUndoes
    <3>2. CASE pc' # "rbrestore"
      BY <2>2, <3>2, PlainStutter DEF RbVerify, Return, Goto, HalfWay, store, observed
    <3>3. QED
      BY <3>1, <3>2
  <2>3. CASE RbLatest
    BY <2>3, PlainStutter DEF RbLatest, Return, HalfWay, observed
  <2>4. QED
    BY <1>2, <2>1, <2>2, <2>3, RbRestoreStutter, RbRenameStutter DEF Rollback
<1>3. CASE Exceptions
  <2>1. CASE LatestFails \/ RbFinishFails
    BY <2>1, PlainStutter DEF LatestFails, RbFinishFails, Return, HalfWay, store, observed
  <2>2. QED
    BY <1>3, <2>1, LoopStutter DEF Exceptions, ManifestFails, WriteFails, RestoreFails,
       RbRestoreFails, HandlerSucceeds
<1>4. CASE \E f \in Files, c \in UserTexts \cup {Blank, Absent} : UserSaves(f, c)
  BY <1>4, SaveIsSave
<1>5. CASE UNCHANGED vars
  <2>1. /\ UNCHANGED <<disk, backups, manifest, pc, run, edits, todo, preimage, saves>>
    BY <1>5 DEF vars, store, locals, observed
  <2>2. \A f \in Files : Seen(f)' = Seen(f)
    BY <2>1 DEF Seen
  <2>3. \A r \in Runs : Kept(r)' = Kept(r)
    BY <2>1 DEF Kept
  <2>4. QED
    BY <2>1, <2>2, <2>3, Stutter
<1>6. ~Crash
  BY DEF HandlerSucceeds, Crash
<1>7. QED
  BY <1>1, <1>2, <1>3, <1>4, <1>5, <1>6 DEF Next

\* At the start the tree seen is the disk, and there is nothing to undo.
LEMMA InitRefines ==
  ASSUME Init
  PROVE  Atomic!Init
<1>1. \A f \in Files : Seen(f) = disk[f] /\ disk[f] \in Content
  BY TextsAssumption DEF Init, Seen, Content
<1>2. TreeSeen \in [Files -> Content]
  BY <1>1 DEF TreeSeen
<1>3. \A r \in Runs : Kept(r) = Nothing
  BY DEF Init, Kept
<1>4. UndoKept = [r \in Runs |-> Atomic!Nothing]
  BY <1>3, SameNothing DEF UndoKept
<1>5. QED
  BY <1>2, <1>4 DEF Init, Atomic!Init

\* The executor implements whole runs applied and undone.
THEOREM ExecutorIsAtomic ==
  ASSUME Quiet, HandlerSucceeds, Faults \cap {"rbrestore", "rbrename"} = {}
  PROVE  Spec => RunsAreAtomic
<1>1. Init => Atomic!Init
  BY InitRefines
<1>2. UserTextInv /\ RollbackInv /\ AtomicInv /\ [Next]_vars
        => [Atomic!Next]_<<TreeSeen, UndoKept, saves>>
  BY Quiet, HandlerSucceeds, Faults \cap {"rbrestore", "rbrename"} = {}, StepRefines
<1>3. Spec => []UserTextInv
  BY Quiet, QuietIsSafe, UserTextInvariant
<1>4. Spec => []RollbackInv
  BY Quiet, RollbackInvariant
<1>5. Spec => []AtomicInv
  BY Quiet, HandlerSucceeds, AtomicInvariant DEF HandlerSucceeds, WritesSucceed
<1>6. QED
  BY <1>1, <1>2, <1>3, <1>4, <1>5, PTL DEF Spec, RunsAreAtomic, Atomic!Spec
=============================================================================
