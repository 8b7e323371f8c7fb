------------------------------- MODULE MCShell -------------------------------
(***************************************************************************)
(* Instances of Shell for TLC: two directories, one of them also written   *)
(* with a tilde, two numbers, and every line of up to two pieces: a word,  *)
(* an option with its value in either form, a flag; the last piece may be  *)
(* an option whose value is missing.                                       *)
(***************************************************************************)
EXTENDS Shell

CONSTANTS d1, d2, tilde2, desired, five, seven, junk

MCDirs == {d1, d2}
MCHomeDirs == {tilde2}
MCResolve == [w \in {d1, d2, tilde2} |-> IF w = d1 THEN d1 ELSE d2]
MCFiles == {desired}
MCNumbers == {five, seven}
MCOthers == {junk}

Whole ==
  {<<Word(w)>> : w \in {d2, tilde2, junk}}
  \cup {<<Option("--mode"), Word("observe")>>, <<Assign("--mode", "observe")>>,
        <<Option("--model-mode"), Word("openrouter")>>, <<Assign("--model-mode", "openrouter")>>,
        <<Option("--model-mode"), Word("fake")>>,
        <<Option("--platform-mode"), Word("staging")>>, <<Assign("--platform-mode", "staging")>>,
        <<Option("--agent-id"), Word(seven)>>, <<Option("--project-id"), Word(seven)>>,
        <<Option("--desired-state"), Word(desired)>>, <<Option("--apply")>>}
Dangling == {<<Option("--platform-mode")>>, <<Option("--mode")>>}

MCLines == {<< >>} \cup Whole \cup Dangling \cup {p \o q : p \in Whole, q \in Whole \cup Dangling}
=============================================================================
