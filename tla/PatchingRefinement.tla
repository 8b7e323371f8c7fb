------------------------- MODULE PatchingRefinement -------------------------
(***************************************************************************)
(* patching.py implements AtomicRuns when nothing fails half way: a run    *)
(* takes effect when its manifest is written, a rollback when its restore  *)
(* loop begins.                                                            *)
(***************************************************************************)
EXTENDS Patching

\* The tree an observer of whole runs sees.
Seen(f) ==
  IF pc \in {"backup", "write", "restore", "manifest"} /\ f \in DOMAIN edits
  THEN preimage[run][f]
  ELSE IF pc = "rbrestore" /\ f \in todo
  THEN IF manifest[run].entries[f].created THEN Absent ELSE backups[run][f]
  ELSE disk[f]

TreeSeen == [f \in Files |-> Seen(f)]

\* What the manifests and backups on disk can still undo.
Kept(r) ==
  IF manifest[r].state = "live" /\ ~(run = r /\ pc \in {"rbrestore", "rbrename"})
  THEN [f \in DOMAIN manifest[r].entries |->
          IF manifest[r].entries[f].created THEN Absent ELSE backups[r][f]]
  ELSE Nothing

UndoKept == [r \in Runs |-> Kept(r)]

Atomic == INSTANCE AtomicRuns WITH tree <- TreeSeen, undo <- UndoKept

\* Every behaviour of the executor, seen through TreeSeen and UndoKept, is one
\* of whole runs applied and undone, with the customer's saves in between.
RunsAreAtomic == Atomic!Spec
=============================================================================
