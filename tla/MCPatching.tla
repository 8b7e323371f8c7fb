----------------------------- MODULE MCPatching -----------------------------
(* Two files, two runs, two texts a person may write.                      *)
EXTENDS PatchingRefinement, PatchingInvariant, TLC

CONSTANTS u, v,    \* texts a person writes; v needs no change
          pb, pu   \* the empty text and u after the patch

MCUser  == {u, v}
MCOne   == {u}
MCTexts == {u, v, pb, pu, Blank}
MCPatch == (Blank :> pb) @@ (u :> pu) @@ [t \in {v, pb, pu} |-> t]
=============================================================================
