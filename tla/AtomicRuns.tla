----------------------------- MODULE AtomicRuns -----------------------------
(***************************************************************************)
(* What the patch executor promises: a run patches all of its files in one *)
(* step or none of them, and as long as it can be undone, undoing it puts  *)
(* every one of its files back in one step.                                *)
(***************************************************************************)
EXTENDS Naturals

CONSTANTS Files, Runs, Content

VARIABLES
  tree,   \* file |-> its content
  undo,   \* run |-> the files it changed and what was there
  saves   \* how often somebody else changed a file

Nothing == [f \in {} |-> 0]

Init ==
  /\ tree \in [Files -> Content]
  /\ undo = [r \in Runs |-> Nothing]
  /\ saves = 0

\* A run replaces the content of a nonempty set of files and can be undone.
ApplyRun(r, new) ==
  /\ undo[r] = Nothing /\ DOMAIN new # {}
  /\ tree' = [f \in Files |-> IF f \in DOMAIN new THEN new[f] ELSE tree[f]]
  /\ undo' = [undo EXCEPT ![r] = [f \in DOMAIN new |-> tree[f]]]
  /\ UNCHANGED saves

UndoRun(r) ==
  /\ undo[r] # Nothing
  /\ tree' = [f \in Files |-> IF f \in DOMAIN undo[r] THEN undo[r][f]
                                                      ELSE tree[f]]
  /\ undo' = [undo EXCEPT ![r] = Nothing]
  /\ UNCHANGED saves

\* Somebody else changes one file between runs.
Save(f, c) ==
  /\ tree' = [tree EXCEPT ![f] = c]
  /\ saves' = saves + 1
  /\ UNCHANGED undo

Next ==
  \/ \E r \in Runs, S \in SUBSET Files : \E new \in [S -> Content] : ApplyRun(r, new)
  \/ \E r \in Runs : UndoRun(r)
  \/ \E f \in Files, c \in Content : Save(f, c)

Spec == Init /\ [][Next]_<<tree, undo, saves>>
=============================================================================
