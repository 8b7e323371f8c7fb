----------------------------- MODULE MCReconcile ----------------------------
(***************************************************************************)
(* Instances of Reconcile for TLC: two mock tools and two dynamic          *)
(* variables, one of each desired, and one approved document.              *)
(***************************************************************************)
EXTENDS Reconcile, TLC

CONSTANTS t, t2, v, v2, d, x, y

MCTools == {t, t2}
MCVars  == {v, v2}
MCDocs  == {d}
MCVals  == {x, y}
MCDesiredTools == (t :> x) @@ (t2 :> NoVal)
MCDesiredVars  == (v :> x) @@ (v2 :> NoVal)

MCOneAgent  == {1}
MCThreeAgents == 1..3

Reuse(a, apply, approve) == [target |-> a, apply |-> apply, approve |-> approve]

MCReuse    == {Reuse(1, apply, approve) : apply, approve \in BOOLEAN}
MCApply    == {Reuse(1, TRUE, approve) : approve \in BOOLEAN}
MCNew      == {Reuse(NoAgent, apply, FALSE) : apply \in BOOLEAN}
MCCreate   == {Reuse(NoAgent, TRUE, approve) : approve \in BOOLEAN}
MCMixed    == MCReuse \cup MCNew \cup {Reuse(2, TRUE, TRUE)}
=============================================================================
