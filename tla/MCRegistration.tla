--------------------------- MODULE MCRegistration ---------------------------
(***************************************************************************)
(* Instances of Registration for TLC: two names, a hinted, a Boolean and a *)
(* text parameter, two documents that share a base name, one of them       *)
(* outside the knowledge directory.  One edit makes pairs of each starting  *)
(* item with every item, in both orders, and triples of the two pairs.     *)
(***************************************************************************)
EXTENDS Registration

CONSTANTS n1, n2, hinted, flag, text, inside, outside, shared, old, new, huge

MCNames == {n1, n2}
MCParams == {hinted, flag, text}
MCHinted == {hinted}
MCBooleans == {flag}
MCPaths == {inside, outside}
MCInKBDir == {inside}
MCContents == {old, new, huge}
MCTooLarge == {huge}
MCBase == [p \in MCPaths |-> shared]

Tool(n, ps)       == [kind |-> "tool", name |-> n, params |-> ps, rejected |-> FALSE]
Placeholder(n, r) == [kind |-> "placeholder", name |-> n, params |-> {}, rejected |-> r]
Input(n)          == [kind |-> "input", name |-> n, params |-> {}, rejected |-> FALSE]
Reading(p)        == [kind |-> "read", name |-> p, params |-> {}, rejected |-> FALSE]

MCItems ==
  {Tool(n1, {}), Tool(n1, {hinted, flag}), Tool(n1, {text}), Tool(n2, {flag}),
   Placeholder(n1, FALSE), Placeholder(n2, TRUE), Input(n1), Input(NoKey), Reading(outside)}
MCInitialItems ==
  {<<Tool(n1, {hinted, flag})>>, <<Tool(n1, {text})>>, <<Placeholder(n1, FALSE)>>,
   <<Reading(outside)>>,
   <<Tool(n1, {text}), Tool(n1, {hinted, flag})>>, <<Input(n1), Placeholder(n1, FALSE)>>}
MCInitialDocs == {[p \in MCPaths |-> old]}
=============================================================================
