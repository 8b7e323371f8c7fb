--------------------------- MODULE OutcomeProofs ---------------------------
(***************************************************************************)
(* Theorems about how commands end, for any well-formed repositories of    *)
(* which no file calls a tracer twice: an integration with the reference   *)
(* plan of a supported, tidy repository is accepted, carried out and       *)
(* passes every check but the expected ones; and verify passes no          *)
(* repository whose agent is not traced, whatever was integrated and       *)
(* deleted before, if the repository was fresh at first.                   *)
(* The lemmas go along a run: the plan and its acceptance, the lines that  *)
(* are written and the verdict of each check of them; then what is left of *)
(* those lines after deletions, and what a verify that passes says of it.  *)
(***************************************************************************)
EXTENDS IntegrationProofs

-----------------------------------------------------------------------------
(* The reference plan of a supported repository                            *)

\* A set that two finite sets index is finite.
LEMMA IndexedByTwo ==
  ASSUME NEW S, NEW A, NEW B, IsFiniteSet(A), IsFiniteSet(B),
         NEW g \in [S -> A], NEW h \in [S -> B],
         \A e, d \in S : g[e] = g[d] /\ h[e] = h[d] => e = d
  PROVE  IsFiniteSet(S)
<1> DEFINE pair == [e \in S |-> <<g[e], h[e]>>]
<1>1. pair \in [S -> A \X B]
  OBVIOUS
<1>2. ASSUME NEW e \in S, NEW d \in S, pair[e] = pair[d] PROVE e = d
  <2>1. g[e] = g[d] /\ h[e] = h[d]
    BY <1>2
  <2> QED BY <2>1
<1>3. IsFiniteSet(A \X B)
  BY FS_Product
<1> HIDE DEF pair
<1>4. pair \in Injection(S, A \X B)
  BY <1>1, <1>2 DEF Injection, IsInjective
<1> QED BY <1>3, <1>4, FS_Injection

\* Evidence that its place and function tell apart is finite.
LEMMA PlacesAreFinite ==
  ASSUME NEW r, WellFormed(r), NEW S,
         \A e \in S : /\ e.file \in DOMAIN r.code /\ e.line \in DOMAIN r.code[e.file]
                      /\ e.fn \in Functions_(r.code[e.file]),
         \A e, d \in S : e.file = d.file /\ e.line = d.line /\ e.fn = d.fn => e = d
  PROVE  IsFiniteSet(S)
<1> DEFINE here(file) == {e \in S : e.file = file}
           H == {here(file) : file \in DOMAIN r.code}
<1>1. ASSUME NEW file \in DOMAIN r.code PROVE IsFiniteSet(here(file))
  <2> DEFINE T == here(file)
             functions == Functions_(r.code[file])
             lines == DOMAIN r.code[file]
             g == [e \in T |-> e.line]
             h == [e \in T |-> e.fn]
  <2>1. \A e \in T : e \in S /\ e.line \in lines /\ e.fn \in functions
    <3> HIDE DEF functions
    <3> QED BY DEF functions
  <2>2. \A e, d \in T : e.line = d.line /\ e.fn = d.fn => e = d
    OBVIOUS
  <2>3. IsFiniteSet(lines)
    BY FileIs
  <2>4. IsFiniteSet(functions)
    <3> DEFINE defs == Where(r.code[file], {"def"})
               nameOf == [i \in defs |-> r.code[file][i].name]
    <3>2. IsFiniteSet(defs)
      BY <2>3, FS_Subset DEF Where
    <3>3. nameOf \in Surjection(defs, functions)
      BY DEF Surjection, Functions_
    <3> HIDE DEF defs, nameOf, functions
    <3> QED BY <3>2, <3>3, FS_Surjection
  <2> HIDE DEF T, functions, lines
  <2>5. g \in [T -> lines] /\ h \in [T -> functions]
    BY <2>1
  <2>6. \A e, d \in T : g[e] = g[d] /\ h[e] = h[d] => e = d
    BY <2>2
  <2>7. IsFiniteSet(T)
    <3> HIDE DEF g, h
    <3> QED BY <2>3, <2>4, <2>5, <2>6, IndexedByTwo
  <2> QED BY <2>7 DEF T
<1>2. IsFiniteSet(H)
  <2> DEFINE F == [file \in DOMAIN r.code |-> here(file)]
  <2>1. F \in Surjection(DOMAIN r.code, H)
    BY DEF Surjection
  <2>2. IsFiniteSet(DOMAIN r.code)
    BY DEF WellFormed
  <2> HIDE DEF F, H
  <2> QED BY <2>1, <2>2, FS_Surjection
<1>3. IsFiniteSet(UNION H)
  BY <1>1, <1>2, FS_UNION
<1>4. S \subseteq UNION H
  OBVIOUS
<1> QED BY <1>3, <1>4, FS_Subset

\* A repository has finitely many session starts and pipeline tasks.
LEMMA StartsAreFinite ==
  ASSUME NEW r, WellFormed(r)
  PROVE  IsFiniteSet(OfKind(r, "session_start")) /\ IsFiniteSet(OfKind(r, "pipeline_task"))
<1>1. IsFiniteSet(OfKind(r, "session_start"))
  <2> DEFINE S == OfKind(r, "session_start")
  <2>1. ASSUME NEW e \in S
        PROVE  /\ e.file \in DOMAIN r.code /\ e.line \in DOMAIN r.code[e.file]
               /\ e.fn \in Functions_(r.code[e.file]) /\ StartEv(e, e.file, e.line, e.fn)
    <3>1. PICK g, f, i : /\ g \in DOMAIN r.code /\ f \in Functions_(r.code[g]) /\ i \in StartsIn(r.code[g], f)
                         /\ StartEv(e, g, i, f)
      BY StartEvidence
    <3> QED BY <3>1, EvIs DEF StartsIn, InBody, Where
  <2>2. ASSUME NEW e \in S, NEW d \in S, e.file = d.file /\ e.line = d.line /\ e.fn = d.fn PROVE e = d
    <3>1. StartEv(e, e.file, e.line, e.fn) /\ StartEv(d, e.file, e.line, e.fn)
      BY <2>1, <2>2
    <3> QED BY <3>1 DEF StartEv
  <2> HIDE DEF S
  <2>3. IsFiniteSet(S)
    BY <2>1, <2>2, PlacesAreFinite
  <2> QED BY <2>3 DEF S
<1>2. IsFiniteSet(OfKind(r, "pipeline_task"))
  <2> DEFINE S == OfKind(r, "pipeline_task")
  <2>1. ASSUME NEW e \in S
        PROVE  /\ e.file \in DOMAIN r.code /\ e.line \in DOMAIN r.code[e.file]
               /\ e.fn \in Functions_(r.code[e.file]) /\ TaskEv(e, e.file, e.line, e.fn)
    <3>1. PICK g, f, i : /\ g \in DOMAIN r.code /\ f \in Functions_(r.code[g]) /\ i \in TasksIn(r.code[g], f)
                         /\ TaskEv(e, g, i, f)
      BY TaskEvidence
    <3> QED BY <3>1, EvIs DEF TasksIn, InBody, Where
  <2>2. ASSUME NEW e \in S, NEW d \in S, e.file = d.file /\ e.line = d.line /\ e.fn = d.fn PROVE e = d
    <3>1. TaskEv(e, e.file, e.line, e.fn) /\ TaskEv(d, e.file, e.line, e.fn)
      BY <2>1, <2>2
    <3> QED BY <3>1 DEF TaskEv
  <2> HIDE DEF S
  <2>3. IsFiniteSet(S)
    BY <2>1, <2>2, PlacesAreFinite
  <2> QED BY <2>3 DEF S
<1> QED BY <1>1, <1>2

\* The one start that the reference planner anchors a session in.
TheStart(r, entry, start) ==
  /\ Entries(r, "livekit") = {entry} /\ TheEntry(r) = entry
  /\ StartsOfEntry(r) = {start} /\ start \in OfKind(r, "session_start")
  /\ start.file = entry.file /\ start.fn = entry.fn

\* The planner does not raise on a LiveKit agent with one start in its entrypoint.
LEMMA OneStart ==
  ASSUME NEW r, WellFormed(r), Supported(r), ~Existing(r), ~FakePlannerRaises(r), Framework(r) = "livekit"
  PROVE  \E entry, start : TheStart(r, entry, start)
<1>1. PICK entry : Entries(r, "livekit") = {entry}
  BY OneEntry
<1>2. TheEntry(r) = entry
  BY <1>1 DEF TheEntry
<1>3. PICK start : StartsOfEntry(r) = {start}
  <2>1. Cardinality(StartsOfEntry(r)) = 1
    BY DEF FakePlannerRaises
  <2>2. IsFiniteSet(StartsOfEntry(r))
    BY StartsAreFinite, FS_Subset DEF StartsOfEntry
  <2> QED BY <2>1, <2>2, FS_Singleton, Zenon
<1>4. EntryAt(r, "livekit", entry.file, entry.line) /\ entry.fn = r.code[entry.file][entry.line].name
  BY <1>1, EntryIs
<1>5. PICK i : i \in StartsIn(r.code[entry.file], entry.fn)
  BY <1>1, SupportedIs DEF SupportedFacts
<1>6. PICK e : StartEv(e, entry.file, i, entry.fn)
  BY DEF StartEv
<1>7. e \in OfKind(r, "session_start") /\ e.file = entry.file /\ e.fn = entry.fn
  <2>1. entry.fn \in Functions_(r.code[entry.file])
    BY <1>4 DEF EntryAt, Functions_
  <2>2. e.file = entry.file /\ e.fn = entry.fn
    BY <1>6 DEF StartEv, Ev
  <2>3. entry.file \in DOMAIN r.code /\ entry.file \notin ScannerTests /\ Readable(r, entry.file)
    BY <1>4 DEF EntryAt
  <2>4. e \in OfKind(r, "session_start")
    BY <1>5, <1>6, <2>1, <2>3, StartEvidence
  <2> QED BY <2>2, <2>4
<1>8. e \in StartsOfEntry(r)
  BY <1>2, <1>7 DEF StartsOfEntry
<1> QED BY <1>1, <1>2, <1>3, <1>7, <1>8 DEF TheStart

\* The one task that the reference planner traces.
TheTask(r, entry, task) ==
  /\ Entries(r, "pipecat") = {entry}
  /\ OfKind(r, "pipeline_task") = {task}
  /\ task.file = entry.file /\ task.fn = entry.fn

\* Nor on a Pipecat bot with one task.
LEMMA OneTask ==
  ASSUME NEW r, WellFormed(r), Supported(r), ~Existing(r), ~FakePlannerRaises(r), Framework(r) = "pipecat"
  PROVE  \E entry, task : TheTask(r, entry, task)
<1>1. PICK entry : Entries(r, "pipecat") = {entry}
  BY OneEntry
<1>2. PICK task : OfKind(r, "pipeline_task") = {task}
  <2>1. Cardinality(OfKind(r, "pipeline_task")) = 1
    BY DEF FakePlannerRaises
  <2> QED BY <2>1, StartsAreFinite, FS_Singleton, Zenon
<1>3. EntryAt(r, "pipecat", entry.file, entry.line) /\ entry.fn = r.code[entry.file][entry.line].name
  BY <1>1, EntryIs
<1>4. PICK i : i \in TasksIn(r.code[entry.file], entry.fn)
  BY <1>3 DEF EntryAt
<1>5. PICK e : TaskEv(e, entry.file, i, entry.fn)
  BY DEF TaskEv
<1>6. e \in OfKind(r, "pipeline_task") /\ e.file = entry.file /\ e.fn = entry.fn
  <2>1. entry.fn \in Functions_(r.code[entry.file])
    BY <1>3 DEF EntryAt, Functions_
  <2>2. e.file = entry.file /\ e.fn = entry.fn
    BY <1>5 DEF TaskEv, Ev
  <2>3. entry.file \in DOMAIN r.code /\ entry.file \notin ScannerTests /\ Readable(r, entry.file)
    BY <1>3 DEF EntryAt
  <2>4. e \in OfKind(r, "pipeline_task")
    BY <1>4, <1>5, <2>1, <2>3, TaskEvidence
  <2> QED BY <2>2, <2>4
<1> QED BY <1>1, <1>2, <1>6 DEF TheTask

-----------------------------------------------------------------------------
(* The reference plan is accepted                                          *)

\* The validator has nothing against the action.
Acceptable(r, mode, b) ==
  /\ b.type \in AllowedActions(Framework(r), mode, Existing(r))
  /\ b.file = NoFile \/ PathOk(r, b)
  /\ EvidenceOk({e \in Evidence(r) : ~Rejected(e)}, b)
  /\ ParamsOk(r, Framework(r), mode, b)

\* Nor against a plan of such actions with one that makes the agent be traced.
LEMMA PlanIsValid ==
  ASSUME NEW r, NEW mode, NEW p, \A b \in p : Acceptable(r, mode, b),
         NEW t, {a \in p : a.type \in TracerActions} = {t}
  PROVE  ValidPlans(r, mode, {p}) # {}
<1>1. p # {} /\ p \in {p} \ {{}}
  OBVIOUS
<1>2. Cardinality({a \in p : a.type \in TracerActions}) = 1
  BY FS_Singleton, Zenon
<1>3. p \subseteq {b \in UNION {p} : Acceptable(r, mode, b)}
  OBVIOUS
<1>4. p \in ValidPlans(r, mode, {p})
  BY <1>1, <1>2, <1>3 DEF ValidPlans, ValidActions, Acceptable
<1> QED BY <1>4

\* What the planner's one start, or task, and the entry are to the validator.
Citable(r, file, S) ==
  /\ file \in DOMAIN r.code /\ file \notin PlanTests
  /\ \A e \in S : e \in Evidence(r) /\ ~Rejected(e) /\ e.file = file

\* The planner cites nothing that the validator does not know.
LEMMA EvidenceIsCitable ==
  ASSUME NEW r, NEW fw, NEW entry \in Entries(r, fw), NEW e, e \in OfKind(r, "session_start") \cup OfKind(r, "pipeline_task"),
         e.file = entry.file
  PROVE  Citable(r, entry.file, {entry, e}) /\ entry.kind = "entrypoint" /\ entry.file \in DOMAIN r.code
<1>1. EntryAt(r, fw, entry.file, entry.line)
  BY EntryIs
<1>2. entry.file \in DOMAIN r.code /\ entry.file \notin PlanTests
  BY <1>1, PathsAssumption DEF EntryAt
<1>3. entry \in OfKind(r, "entrypoint")
  BY DEF Entries
<1> QED BY <1>2, <1>3 DEF Citable, OfKind

\* The dependency of the reference plan.
LEMMA DependencyAcceptable ==
  ASSUME NEW r, ~Existing(r), Framework(r) \in {"livekit", "pipecat"}, NEW mode,
         NEW b, b = Action("add_dependency", Manifest(r), Pinned(Framework(r)), {})
  PROVE  /\ b.type = "add_dependency" /\ b.file = Manifest(r)
         /\ Manifest(r) \notin PlanTests => Acceptable(r, mode, b)
<1>1. b.type = "add_dependency" /\ b.file = Manifest(r) /\ b.param = Pinned(Framework(r)) /\ b.cites = {}
  BY ActionIs
<1>2. b.type \in AllowedActions(Framework(r), mode, Existing(r))
  BY <1>1 DEF AllowedActions, TextActions
<1>3. Manifest(r) \notin PlanTests => PathOk(r, b)
  BY <1>1 DEF PathOk, TextActions
<1>4. RequiredEvidence(b.type) = {}
  BY <1>1 DEF RequiredEvidence, SessionActions, PipecatActions
<1>5. EvidenceOk({e \in Evidence(r) : ~Rejected(e)}, b)
  BY <1>1, <1>4 DEF EvidenceOk
<1>6. ParamsOk(r, Framework(r), mode, b)
  BY <1>1 DEF ParamsOk, PipecatActions, Packages
<1> QED BY <1>1, <1>2, <1>3, <1>5, <1>6 DEF Acceptable

\* The two actions of the reference plan for LiveKit.
LiveKitActions(mode, entry, start, i, a) ==
  /\ i = Action("insert_tracer_init", entry.file, "livekit", {entry})
  /\ a = Action(SessionAction(mode), start.file, NoParam, {entry, start})

\* The validator has nothing against either action for LiveKit.
LEMMA SessionAcceptable ==
  ASSUME NEW r, ~Existing(r), Framework(r) = "livekit", NEW mode \in Modes,
         NEW entry, NEW start, TheStart(r, entry, start),
         NEW i, NEW a, LiveKitActions(mode, entry, start, i, a)
  PROVE  /\ Acceptable(r, mode, i) /\ i.type = "insert_tracer_init"
         /\ Acceptable(r, mode, a) /\ a.type = SessionAction(mode) /\ a.file = entry.file
<1> DEFINE live == {e \in Evidence(r) : ~Rejected(e)}
<1>1. entry \in Entries(r, "livekit") /\ start \in OfKind(r, "session_start") /\ start.file = entry.file
  BY DEF TheStart
<1>2. Citable(r, entry.file, {entry, start}) /\ entry.kind = "entrypoint" /\ start.kind = "session_start"
  BY <1>1, EvidenceIsCitable DEF OfKind
<1>3. i.type = "insert_tracer_init" /\ i.file = entry.file /\ i.cites = {entry}
  BY ActionIs DEF LiveKitActions
<1>4. a.type = SessionAction(mode) /\ a.file = entry.file /\ a.cites = {entry, start}
  BY <1>1, ActionIs DEF LiveKitActions
<1>5. SessionAction(mode) \in {"insert_track_session", "insert_observe_session"}
  BY DEF SessionAction
<1>6. /\ i.type \in AllowedActions(Framework(r), mode, Existing(r))
      /\ a.type \in AllowedActions(Framework(r), mode, Existing(r))
  BY <1>3, <1>4 DEF AllowedActions
<1>7. PathOk(r, i) /\ PathOk(r, a)
  BY <1>2, <1>3, <1>4 DEF PathOk, Citable
<1>8. RequiredEvidence(i.type) = {"entrypoint"} /\ RequiredEvidence(a.type) = {"entrypoint", "session_start"}
  BY <1>3, <1>4, <1>5 DEF RequiredEvidence, SessionActions, PipecatActions
<1>9. EvidenceOk(live, i)
  <2>1. i.cites \subseteq live /\ {"entrypoint"} \subseteq {e.kind : e \in i.cites} /\ i.file \in {e.file : e \in i.cites}
    BY <1>2, <1>3 DEF Citable
  <2> HIDE DEF live
  <2> QED BY <1>8, <2>1 DEF EvidenceOk
<1>10. EvidenceOk(live, a)
  <2>1. a.cites \subseteq live /\ a.file \in {e.file : e \in a.cites}
    BY <1>2, <1>4 DEF Citable
  <2>2. {"entrypoint", "session_start"} \subseteq {e.kind : e \in a.cites}
    BY <1>2, <1>4
  <2> HIDE DEF live
  <2> QED BY <1>8, <2>1, <2>2 DEF EvidenceOk
<1>11. ParamsOk(r, Framework(r), mode, i) /\ ParamsOk(r, Framework(r), mode, a)
  BY <1>3, <1>4, <1>5 DEF ParamsOk, PipecatActions
<1> QED BY <1>3, <1>4, <1>6, <1>7, <1>9, <1>10, <1>11 DEF Acceptable

\* The style that suits the pipeline's task.
StyleOf(r, task) == IF HasCustomKwargs(LineOf(r, task)) THEN "pipecat_multi_step" ELSE "pipecat_single_step"

\* The action of the reference plan for Pipecat.
PipecatAction(r, mode, task, a) ==
  a = Action(StyleOf(r, task), task.file, mode, {task} \cup Entries(r, "pipecat"))

\* Nor against the one for Pipecat.
LEMMA TaskAcceptable ==
  ASSUME NEW r, ~Existing(r), Framework(r) = "pipecat", NEW mode \in Modes,
         NEW entry, NEW task, TheTask(r, entry, task),
         NEW a, PipecatAction(r, mode, task, a)
  PROVE  Acceptable(r, mode, a) /\ a.type = StyleOf(r, task) /\ a.file = entry.file
<1> DEFINE live == {e \in Evidence(r) : ~Rejected(e)}
<1>1. entry \in Entries(r, "pipecat") /\ task \in OfKind(r, "pipeline_task") /\ task.file = entry.file
  BY DEF TheTask
<1>2. Citable(r, entry.file, {entry, task}) /\ entry.kind = "entrypoint" /\ task.kind = "pipeline_task"
  BY <1>1, EvidenceIsCitable DEF OfKind
<1>3. a.type = StyleOf(r, task) /\ a.file = entry.file /\ a.param = mode /\ a.cites = {task} \cup {entry}
  BY <1>1, ActionIs DEF TheTask, PipecatAction
<1>4. StyleOf(r, task) \in {"pipecat_multi_step", "pipecat_single_step"}
  BY DEF StyleOf
<1>5. a.type \in AllowedActions(Framework(r), mode, Existing(r))
  BY <1>3, <1>4 DEF AllowedActions, PipecatActions
<1>6. PathOk(r, a)
  BY <1>2, <1>3 DEF PathOk, Citable
<1>7. RequiredEvidence(a.type) = {"pipeline_task"}
  BY <1>3, <1>4 DEF RequiredEvidence, SessionActions, PipecatActions
<1>8. EvidenceOk(live, a)
  <2>1. a.cites \subseteq live /\ {"pipeline_task"} \subseteq {e.kind : e \in a.cites} /\ a.file \in {e.file : e \in a.cites}
    BY <1>2, <1>3 DEF Citable
  <2> HIDE DEF live
  <2> QED BY <1>7, <2>1 DEF EvidenceOk
<1>9. ParamsOk(r, Framework(r), mode, a)
  <2>1. a.type = "pipecat_single_step" => ~HasCustomKwargs(LineOf(r, task))
    BY <1>3 DEF StyleOf
  <2>2. \A e \in a.cites : e.kind = "pipeline_task" => e = task
    BY <1>2, <1>3
  <2> QED BY <1>3, <1>4, <2>1, <2>2 DEF ParamsOk, PipecatActions
<1> QED BY <1>3, <1>5, <1>6, <1>8, <1>9 DEF Acceptable

\* The tracer action of the reference plan.
Reference(r, mode, a) ==
  /\ a \in FakePlan(r, mode)
  /\ {b \in FakePlan(r, mode) : b.type \in TracerActions} = {a}
  /\ \A b \in FakePlan(r, mode) : b.type = "add_dependency" <=> b = Action("add_dependency", Manifest(r), Pinned(Framework(r)), {})
  /\ Action("add_dependency", Manifest(r), Pinned(Framework(r)), {}) \in FakePlan(r, mode)
  /\ Framework(r) = "livekit" => a.type = SessionAction(mode) /\ \E entry, start : TheStart(r, entry, start) /\ a.file = entry.file
  /\ Framework(r) = "pipecat" => \E entry, task : TheTask(r, entry, task) /\ a.file = entry.file /\ a.type = StyleOf(r, task)

\* The reference plan for LiveKit has such an action, and is accepted.
LEMMA LiveKitReference ==
  ASSUME NEW r, WellFormed(r), Supported(r), ~Existing(r), ~FakePlannerRaises(r), Framework(r) = "livekit",
         NEW mode \in Modes
  PROVE  /\ \E a : Reference(r, mode, a)
         /\ Manifest(r) \notin PlanTests => \A b \in FakePlan(r, mode) : Acceptable(r, mode, b)
<1>1. PICK entry, start : TheStart(r, entry, start)
  BY OneStart
<1>2. TheEntry(r) = entry /\ StartsOfEntry(r) = {start}
  BY <1>1 DEF TheStart
<1>3. (CHOOSE e \in StartsOfEntry(r) : TRUE) = start
  BY <1>2
<1>4. PICK d : d = Action("add_dependency", Manifest(r), Pinned(Framework(r)), {})
  OBVIOUS
<1>5. PICK i : i = Action("insert_tracer_init", entry.file, "livekit", {entry})
  OBVIOUS
<1>6. PICK a : a = Action(SessionAction(mode), start.file, NoParam, {entry, start})
  OBVIOUS
<1>7. FakePlan(r, mode) = {d} \cup {i, a}
  BY <1>2, <1>3, <1>4, <1>5, <1>6 DEF FakePlan, LiveKitPlan
<1>8. (Manifest(r) \notin PlanTests => Acceptable(r, mode, d)) /\ d.type = "add_dependency"
  BY <1>4, DependencyAcceptable
<1>9. /\ Acceptable(r, mode, i) /\ i.type = "insert_tracer_init"
      /\ Acceptable(r, mode, a) /\ a.type = SessionAction(mode) /\ a.file = entry.file
  <2>1. LiveKitActions(mode, entry, start, i, a)
    BY <1>5, <1>6 DEF LiveKitActions
  <2> QED BY <1>1, <2>1, SessionAcceptable
<1>10. SessionAction(mode) \in TracerActions /\ "insert_tracer_init" \notin TracerActions /\ "add_dependency" \notin TracerActions
  BY DEF SessionAction, TracerActions, SessionActions, PipecatActions
<1>11. a.type # "add_dependency" /\ i.type # "add_dependency"
  BY <1>9, <1>10
<1>12. {b \in FakePlan(r, mode) : b.type \in TracerActions} = {a}
  BY <1>7, <1>8, <1>9, <1>10
<1>13. \A b \in FakePlan(r, mode) : b.type = "add_dependency" <=> b = d
  BY <1>7, <1>8, <1>11
<1>14. Reference(r, mode, a)
  BY <1>1, <1>4, <1>7, <1>9, <1>12, <1>13 DEF Reference
<1> QED BY <1>7, <1>8, <1>9, <1>14

\* So has, and is, the one for Pipecat.
LEMMA PipecatReference ==
  ASSUME NEW r, WellFormed(r), Supported(r), ~Existing(r), ~FakePlannerRaises(r), Framework(r) = "pipecat",
         NEW mode \in Modes
  PROVE  /\ \E a : Reference(r, mode, a)
         /\ Manifest(r) \notin PlanTests => \A b \in FakePlan(r, mode) : Acceptable(r, mode, b)
<1>1. PICK entry, task : TheTask(r, entry, task)
  BY OneTask
<1>2. (CHOOSE e \in OfKind(r, "pipeline_task") : TRUE) = task
  BY <1>1 DEF TheTask
<1>3. PICK d : d = Action("add_dependency", Manifest(r), Pinned(Framework(r)), {})
  OBVIOUS
<1>4. PICK a : a = Action(StyleOf(r, task), task.file, mode, {task} \cup Entries(r, "pipecat"))
  OBVIOUS
<1>5. FakePlan(r, mode) = {d} \cup {a}
  BY <1>2, <1>3, <1>4 DEF FakePlan, PipecatPlan, StyleOf
<1>6. (Manifest(r) \notin PlanTests => Acceptable(r, mode, d)) /\ d.type = "add_dependency"
  BY <1>3, DependencyAcceptable
<1>7. Acceptable(r, mode, a) /\ a.type = StyleOf(r, task) /\ a.file = entry.file
  <2>1. PipecatAction(r, mode, task, a)
    BY <1>4 DEF PipecatAction
  <2> QED BY <1>1, <2>1, TaskAcceptable
<1>8. a.type \in TracerActions /\ a.type # "add_dependency" /\ "add_dependency" \notin TracerActions
  BY <1>7 DEF StyleOf, TracerActions, SessionActions, PipecatActions
<1>9. {b \in FakePlan(r, mode) : b.type \in TracerActions} = {a}
  BY <1>5, <1>6, <1>8
<1>10. \A b \in FakePlan(r, mode) : b.type = "add_dependency" <=> b = d
  BY <1>5, <1>6, <1>8
<1>11. Reference(r, mode, a)
  BY <1>1, <1>3, <1>5, <1>7, <1>9, <1>10 DEF Reference
<1> QED BY <1>5, <1>6, <1>7, <1>11

\* The reference plan of a supported repository is accepted.
LEMMA FakePlanAccepted ==
  ASSUME NEW r, WellFormed(r), Supported(r), ~Existing(r), ~FakePlannerRaises(r), NEW mode \in Modes
  PROVE  /\ \E a : Reference(r, mode, a)
         /\ Manifest(r) \notin PlanTests => ValidPlans(r, mode, {FakePlan(r, mode)}) # {}
<1>1. Framework(r) \in {"livekit", "pipecat"}
  BY SupportedIs DEF SupportedFacts
<1>2. /\ \E a : Reference(r, mode, a)
      /\ Manifest(r) \notin PlanTests => \A b \in FakePlan(r, mode) : Acceptable(r, mode, b)
  BY <1>1, LiveKitReference, PipecatReference
<1>3. PICK a : Reference(r, mode, a)
  BY <1>2
<1>4. {b \in FakePlan(r, mode) : b.type \in TracerActions} = {a}
  BY <1>3 DEF Reference
<1> QED BY <1>2, <1>4, PlanIsValid

\* The adapters find what the reference plan tells them to edit.
LEMMA ReferenceDoesNotCrash ==
  ASSUME NEW r, WellFormed(r), Supported(r), ~Existing(r), ~FakePlannerRaises(r), NEW mode \in Modes
  PROVE  BuildVerdict(r, FakePlan(r, mode)) \in {"ok", "refused"}
<1>1. PICK a : Reference(r, mode, a)
  BY FakePlanAccepted
<1>2. ~AdapterRaises(r, a)
  <2>1. CASE Framework(r) = "livekit"
    <3>1. PICK entry, start : TheStart(r, entry, start) /\ a.file = entry.file
      BY <1>1, <2>1 DEF Reference
    <3>2. entry \in AnchorEntries(r, "livekit", a.file)
      BY <3>1 DEF TheStart, AnchorEntries
    <3>3. start \in AnchorStarts(r, a.file)
      BY <3>1, <3>2 DEF TheStart, AnchorStarts
    <3>4. a.type \in SessionActions
      BY <1>1, <2>1 DEF Reference, SessionAction, SessionActions
    <3> QED BY <3>3, <3>4 DEF AdapterRaises
  <2>2. CASE Framework(r) = "pipecat"
    <3>1. PICK entry, task : TheTask(r, entry, task) /\ a.file = entry.file /\ a.type = StyleOf(r, task)
      BY <1>1, <2>2 DEF Reference
    <3>2. entry \in AnchorEntries(r, "pipecat", a.file) /\ task \in AnchorTasks(r, a.file)
      BY <3>1 DEF TheTask, AnchorEntries, AnchorTasks
    <3>3. a.type \notin SessionActions
      BY <3>1 DEF StyleOf, SessionActions
    <3> QED BY <3>2, <3>3 DEF AdapterRaises
  <2>3. Framework(r) \in {"livekit", "pipecat"}
    BY SupportedIs DEF SupportedFacts
  <2> QED BY <2>1, <2>2, <2>3
<1>3. {b \in FakePlan(r, mode) : b.type \in TracerActions} = {a}
  BY <1>1 DEF Reference
<1> DEFINE p == FakePlan(r, mode)
<1>4. {b \in p : b.type \in TracerActions} = {a}
  BY <1>3
<1> HIDE DEF p
<1>5. BuildVerdict(r, p) \in {"ok", "refused"}
  BY <1>2, <1>4 DEF BuildVerdict
<1> QED BY <1>5 DEF p

-----------------------------------------------------------------------------
(* Exactly which checks fail                                               *)

\* Of checks of which one at most fails, that one.
LEMMA OneCheck ==
  ASSUME NEW checks, NEW k, NEW p \in BOOLEAN, <<k, p>> \in checks,
         \A c \in checks : c = <<k, p>> \/ c[2] = FALSE,
         NEW x
  PROVE  x \in Failing(checks) <=> x = k /\ p
<1>1. CASE p = TRUE
  <2>1. PICK c : c = <<k, p>>
    OBVIOUS
  <2>2. c[1] = k /\ c[2] = TRUE /\ c \in checks
    BY <1>1, <2>1
  <2>3. k \in Failing(checks)
    BY <2>2, FailingIs
  <2>4. ASSUME x \in Failing(checks) PROVE x = k
    <3>1. PICK b \in checks : b[2] /\ b[1] = x
      BY <2>4, FailingIs
    <3>2. b = c
      BY <2>1, <3>1
    <3> QED BY <2>2, <3>1, <3>2
  <2> QED BY <1>1, <2>3, <2>4
<1>2. CASE p = FALSE
  <2>1. PICK c : c = <<k, p>>
    OBVIOUS
  <2>2. c[2] = FALSE
    BY <1>2, <2>1
  <2>3. \A b \in checks : b[2] = FALSE
    BY <2>1, <2>2
  <2> QED BY <1>2, <2>3, FailingIs
<1> QED BY <1>1, <1>2

\* A check that passes.
LEMMA Passes ==
  ASSUME NEW c, NEW k, NEW p, c = <<k, p>>, p = FALSE
  PROVE  c[2] = FALSE
OBVIOUS

\* The checks of a LiveKit file fail only for a call in nested functions, if
\* everything else is in order.
LEMMA LiveKitOnly ==
  ASSUME NEW code, NEW mode,
         \A c \in CallsOf(code, SessionCalls), s \in CallsOf(code, {"start"}) :
            c[2] = s[2] /\ code[c[1]].name = code[s[1]].name => ~(c[1] > s[1]),
         \A c \in CallsOf(code, SessionCalls) : /\ code[c[1]].op = "track_session" => "agent" \in code[c[1]].has
                                                /\ code[c[1]].op = CallFor(mode, SessionCalls),
         TracerInits(code, "LiveKitTracer") = {} \/ AtModuleScope(code, "LiveKitTracer"),
         NEW x
  PROVE  x \in LiveKitFailures(code, mode) <=>
           x = "tracer_exactly_once" /\ Cardinality(CallsOf(code, SessionCalls)) > 1
<1> DEFINE p1 == \E c \in CallsOf(code, SessionCalls), s \in CallsOf(code, {"start"}) :
                   /\ c[2] = s[2] /\ code[c[1]].name = code[s[1]].name
                   /\ c[1] > s[1]
           p2 == \E c \in CallsOf(code, SessionCalls) : code[c[1]].op = "track_session" /\ "agent" \notin code[c[1]].has
           p3 == TracerInits(code, "LiveKitTracer") # {} /\ ~AtModuleScope(code, "LiveKitTracer")
           p4 == \E c \in CallsOf(code, SessionCalls) : code[c[1]].op # CallFor(mode, SessionCalls)
           p5 == Cardinality(CallsOf(code, SessionCalls)) > 1
           checks == {<<"tracer_before_start", p1>>, <<"track_session_has_agent", p2>>, <<"module_scope_init", p3>>,
                      <<"mode_consistent", p4>>, <<"tracer_exactly_once", p5>>}
<1>1. p1 = FALSE /\ p2 = FALSE /\ p3 = FALSE /\ p4 = FALSE
  OBVIOUS
<1>2. p5 \in BOOLEAN
  OBVIOUS
<1>3. LiveKitFailures(code, mode) = Failing(checks)
  BY DEF LiveKitFailures
<1>4. p5 <=> Cardinality(CallsOf(code, SessionCalls)) > 1
  OBVIOUS
<1> HIDE DEF p1, p2, p3, p4, p5
<1>5. PICK k : k = "tracer_exactly_once"
  OBVIOUS
<1>6. <<k, p5>> \in checks
  BY <1>5
<1>7. ASSUME NEW c \in checks PROVE c = <<k, p5>> \/ c[2] = FALSE
  <2>1. CASE c = <<"tracer_before_start", p1>>
    BY <1>1, <2>1, Passes
  <2>2. CASE c = <<"track_session_has_agent", p2>>
    BY <1>1, <2>2, Passes
  <2>3. CASE c = <<"module_scope_init", p3>>
    BY <1>1, <2>3, Passes
  <2>4. CASE c = <<"mode_consistent", p4>>
    BY <1>1, <2>4, Passes
  <2>5. CASE c = <<"tracer_exactly_once", p5>>
    BY <1>5, <2>5
  <2> QED BY <2>1, <2>2, <2>3, <2>4, <2>5
<1> HIDE DEF checks
<1>8. x \in Failing(checks) <=> x = k /\ p5
  BY <1>2, <1>6, <1>7, OneCheck
<1> QED BY <1>3, <1>4, <1>5, <1>8

\* Those of a Pipecat file, only for a wrapped pipeline whose last task lacks a flag.
LEMMA PipecatOnly ==
  ASSUME NEW code, NEW mode, TracerInits(code, "PipecatTracer") # {},
         NEW single, NEW wrap, NEW register, NEW task, NEW last,
         single = CallsOf(code, CreateCalls), wrap = CallsOf(code, WrapCalls), register = CallsOf(code, {"register"}),
         task = Where(code, {"task"}), last = LastWalked(code, task),
         ~AtModuleScope(code, "PipecatTracer"), single # {} \/ wrap # {},
         single = {} => register # {} /\ task # {} /\ \A c \in register : ~(c[1] < last),
         \A c \in single \cup wrap : code[c[1]].op \in {CallFor(mode, CreateCalls), CallFor(mode, WrapCalls)},
         ~(Cardinality(single \cup wrap) > 1), Where(code, {"direct_observe"}) = {},
         NEW x
  PROVE  x \in PipecatFailures(code, mode) <=>
           /\ x = "multi_step_tracing_flags" /\ single = {}
           /\ ~({"enable_tracing", "enable_turn_tracking"} \subseteq code[last].has)
<1> DEFINE flags == {"enable_tracing", "enable_turn_tracking"} \subseteq code[last].has
           p1 == AtModuleScope(code, "PipecatTracer")
           p2 == single = {} /\ wrap = {}
           p3 == single = {} /\ wrap # {} /\ ~(task # {} /\ flags)
           p4 == single = {} /\ wrap # {} /\ (register = {} \/ (task # {} /\ \E c \in register : c[1] < last))
           p5 == \E c \in single \cup wrap :
                   code[c[1]].op \notin {CallFor(mode, CreateCalls), CallFor(mode, WrapCalls)}
           p6 == Cardinality(single \cup wrap) > 1
           p7 == Where(code, {"direct_observe"}) # {}
           checks == {<<"per_call_tracer", p1>>, <<"integration_style", p2>>, <<"multi_step_tracing_flags", p3>>,
                      <<"register_task_handlers", p4>>, <<"mode_consistent", p5>>, <<"tracer_exactly_once", p6>>,
                      <<"no_direct_observe_duplication", p7>>}
<1>1. p1 = FALSE /\ p2 = FALSE /\ p4 = FALSE /\ p5 = FALSE /\ p6 = FALSE /\ p7 = FALSE
  OBVIOUS
<1>2. p3 \in BOOLEAN
  OBVIOUS
<1>3. PipecatFailures(code, mode) = Failing(checks)
  BY DEF PipecatFailures
<1>4. p3 <=> single = {} /\ ~flags
  OBVIOUS
<1> HIDE DEF p1, p2, p3, p4, p5, p6, p7
<1>5. PICK k : k = "multi_step_tracing_flags"
  OBVIOUS
<1>6. <<k, p3>> \in checks
  BY <1>5
<1>7. ASSUME NEW c \in checks PROVE c = <<k, p3>> \/ c[2] = FALSE
  <2>1. CASE c = <<"per_call_tracer", p1>>
    BY <1>1, <2>1, Passes
  <2>2. CASE c = <<"integration_style", p2>>
    BY <1>1, <2>2, Passes
  <2>3. CASE c = <<"multi_step_tracing_flags", p3>>
    BY <1>5, <2>3
  <2>4. CASE c = <<"register_task_handlers", p4>>
    BY <1>1, <2>4, Passes
  <2>5. CASE c = <<"mode_consistent", p5>>
    BY <1>1, <2>5, Passes
  <2>6. CASE c = <<"tracer_exactly_once", p6>>
    BY <1>1, <2>6, Passes
  <2>7. CASE c = <<"no_direct_observe_duplication", p7>>
    BY <1>1, <2>7, Passes
  <2> QED BY <2>1, <2>2, <2>3, <2>4, <2>5, <2>6, <2>7
<1> HIDE DEF checks
<1>8. x \in Failing(checks) <=> x = k /\ p3
  BY <1>2, <1>6, <1>7, OneCheck
<1> QED BY <1>3, <1>4, <1>5, <1>8

\* A call counts once for each function around it.
LEMMA CallsOfOne ==
  ASSUME NEW code, CodeOk(code), NEW ops, NEW j, Where(code, ops) = {j}
  PROVE  IsFiniteSet(CallsOf(code, ops)) /\ Cardinality(CallsOf(code, ops)) = Cardinality(code[j].scope)
<1> DEFINE S == code[j].scope
           T == CallsOf(code, ops)
           g == [f \in S |-> <<j, f>>]
<1>1. j \in DOMAIN code /\ S \subseteq Functions_(code)
  BY DEF Where, CodeOk
<1>2. IsFiniteSet(S)
  BY <1>1, ScopesAreFinite
<1>3. ASSUME NEW c \in T PROVE \E f \in S : c = <<j, f>>
  BY DEF CallsOf
<1>4. ASSUME NEW f \in S PROVE <<j, f>> \in T
  <2>1. PICK c \in CallsOf(code, ops) : c[1] = j /\ c[2] = f
    BY CallIn
  <2>2. PICK h \in S : c = <<j, h>>
    BY <1>3
  <2> QED BY <2>1, <2>2
<1> HIDE DEF S, T
<1>5. g \in Bijection(S, T)
  <2>1. g \in [S -> T]
    BY <1>4
  <2>2. \A e, f \in S : g[e] = g[f] => e = f
    OBVIOUS
  <2>3. \A c \in T : \E f \in S : g[f] = c
    BY <1>3
  <2> HIDE DEF g
  <2> QED BY <2>1, <2>2, <2>3 DEF Bijection, Injection, IsInjective, Surjection
<1> HIDE DEF g
<1>6. IsFiniteSet(T) /\ Cardinality(T) = Cardinality(S)
  BY <1>2, <1>5, FS_Bijection DEF ExistsBijection
<1> QED BY <1>6 DEF S, T

-----------------------------------------------------------------------------
(* What the checks say of what the reference plan writes                   *)

\* Starts of sessions of one name are in the same functions, or have none in common.
SessionsApart(code) ==
  \A i, j \in Where(code, {"start"}) :
     code[i].name = code[j].name => code[i].scope = code[j].scope \/ code[i].scope \cap code[j].scope = {}

\* The lines of the file that LiveKit tracing adds, as they end up.
SessionLines(code, out, at, d, mode, old, call, t) ==
  /\ d = 0 /\ CodeOk(code) /\ CodeOk(out) /\ DOMAIN code \subseteq Nat /\ DOMAIN out \subseteq Nat
  /\ at \in DOMAIN code /\ code[at].op = "start" /\ code[at].scope # {}
  /\ call \in DOMAIN out /\ out[call].op = CallFor(mode, SessionCalls)
  /\ out[call].name = code[at].name /\ out[call].scope = code[at].scope
  /\ mode = "test" => "agent" \in out[call].has
  /\ t \in DOMAIN out /\ out[t].op = "tracer" /\ out[t].name = "LiveKitTracer" /\ out[t].scope = {}
  /\ Where(out, TracerCalls) = {call}
  /\ \A j \in DOMAIN out : \/ out[j].op = "import" /\ out[j].name \notin Tracers \ {"LiveKitTracer"}
                           \/ out[j].op = "tracer" /\ out[j].name = "LiveKitTracer"
                           \/ j = call
                           \/ \E i \in DOMAIN code : j = old[i] /\ out[j] = code[i]
  /\ \A i \in DOMAIN code : at <= i => call < old[i]

\* The lines of a LiveKit edit, as the checks meet them.
LEMMA SessionLinesAre ==
  ASSUME NEW r, NEW mode \in Modes, NEW file, NEW out, NEW start, NEW at, NEW n, NEW H, NEW d, NEW L,
         NEW old, NEW head, NEW new, LiveKitEdit(r, mode, file, out, start, at, n, H, d, L, old, head, new),
         CodeOk(out), Cardinality(Where(out, TracerCalls)) <= 1
  PROVE  \E call, t : SessionLines(r.code[file], out, at, d, mode, old, call, t)
<1> DEFINE code == r.code[file]
           f == start.fn
           op == CallFor(mode, SessionCalls)
<1>1. /\ CodeOk(code) /\ Edited(code, out, n, H, at, d, L, old, head, new) /\ d = 0 /\ d \in {0, 1}
      /\ LiveKitLines(code, at, SessionAction(mode), H, L) /\ at \in DOMAIN code /\ f \in code[at].scope
      /\ code[at].op = "start"
  BY DEF LiveKitEdit, LiveKitAnchor, InBody, Body, Where
<1> HIDE DEF code, f
<1>2. PICK k \in 1..Len(L) : /\ k = 1 /\ L[k].scope = code[at].scope /\ L[k].name = code[at].name /\ L[k].op = op
                             /\ mode = "test" => "agent" \in L[k].has
  <2>1. mode = "test" => L[1].op = "track_session" /\ L[1].has = {"agent"}
    BY <1>1 DEF LiveKitLines, SessionAction
  <2>2. mode # "test" => L[1].op = "observe_session"
    BY <1>1 DEF LiveKitLines, SessionAction
  <2>3. L[1].op = op
    BY <2>1, <2>2, CallForIs DEF Modes
  <2>4. 1 \in 1..Len(L) /\ L[1].scope = code[at].scope /\ L[1].name = code[at].name
    BY <1>1 DEF LiveKitLines
  <2> QED BY <2>1, <2>3, <2>4
<1> DEFINE call == new[k]
<1>3. call \in DOMAIN out /\ out[call] = L[k]
  BY <1>1, <1>2, EditedIs
<1>4. PICK l \in 1..Len(H) : /\ l = Len(H) /\ H[l].op = "tracer" /\ H[l].name = "LiveKitTracer" /\ H[l].scope = {}
  <2>1. Len(H) \in Nat /\ Len(H) # 0
    BY <1>1 DEF LiveKitLines
  <2> QED BY <1>1, <2>1 DEF LiveKitLines
<1> DEFINE t == head[l]
<1>5. t \in DOMAIN out /\ out[t] = H[l]
  BY <1>1, <1>4, EditedIs
<1>6. call \in Where(out, TracerCalls)
  BY <1>2, <1>3, CallForIs DEF Where, TracerCalls
<1>7. Where(out, TracerCalls) = {call}
  <2>1. IsFiniteSet(Where(out, TracerCalls))
    BY CallsAreFinite
  <2>2. \A j \in Where(out, TracerCalls) : j = call
    BY <1>6, <2>1, AtMostOne
  <2> QED BY <1>6, <2>2
<1>8. ASSUME NEW j \in DOMAIN out
      PROVE  \/ out[j].op = "import" /\ out[j].name \notin Tracers \ {"LiveKitTracer"}
             \/ out[j].op = "tracer" /\ out[j].name = "LiveKitTracer"
             \/ j = call
             \/ \E i \in DOMAIN code : j = old[i] /\ out[j] = code[i]
  <2>1. ComesFrom(code, out, at, d, H, L, old, head, new, j)
    BY <1>1, EditedIs
  <2>2. CASE \E m \in 1..Len(H) : j = head[m] /\ out[j] = H[m]
    <3>1. PICK m \in 1..Len(H) : out[j] = H[m]
      BY <2>2
    <3>2. Len(H) \in Nat
      BY <1>1 DEF LiveKitLines
    <3>3. m = Len(H) \/ m \in 1..(Len(H) - 1)
      BY <3>2
    <3>4. CASE m \in 1..(Len(H) - 1)
      <4>1. ImportFor(code, "LiveKitTracer", H[m])
        BY <1>1, <3>4 DEF LiveKitLines
      <4>2. H[m].op = "import" /\ H[m].name \notin Tracers \ {"LiveKitTracer"}
        BY <4>1 DEF ImportFor, Tracers
      <4> QED BY <3>1, <4>2
    <3> QED BY <1>4, <3>1, <3>3, <3>4
  <2>3. CASE \E m \in 1..Len(L) : j = new[m] /\ out[j] = L[m]
    <3>1. PICK m \in 1..Len(L) : j = new[m]
      BY <2>3
    <3>2. m = k
      BY <1>1, <1>2 DEF LiveKitLines
    <3> QED BY <3>1, <3>2
  <2> HIDE DEF call
  <2> QED BY <2>1, <2>2, <2>3 DEF ComesFrom
<1>9. ASSUME NEW i \in DOMAIN code, at <= i PROVE call < old[i]
  <2>1. i \in 1..Len(code)
    BY <1>1 DEF CodeOk
  <2>2. Placed(Len(code), Len(H), Len(L), n, at, d, old, head, new)
    BY <1>1 DEF Edited
  <2>3. at + d <= i
    BY <1>1, <1>9, <2>1 DEF CodeOk
  <2> QED BY <1>2, <2>1, <2>2, <2>3 DEF Placed
<1>10. DOMAIN code \subseteq Nat /\ DOMAIN out \subseteq Nat
  BY <1>1 DEF CodeOk
<1> HIDE DEF call, t, op
<1>11. SessionLines(code, out, at, d, mode, old, call, t)
  <2>1. /\ out[call].op = CallFor(mode, SessionCalls) /\ out[call].name = code[at].name
        /\ out[call].scope = code[at].scope
        /\ mode = "test" => "agent" \in out[call].has
    BY <1>2, <1>3 DEF op
  <2>2. out[t].op = "tracer" /\ out[t].name = "LiveKitTracer" /\ out[t].scope = {}
    BY <1>4, <1>5
  <2>3. code[at].scope # {}
    BY <1>1
  <2> QED BY <1>1, <1>3, <1>5, <1>7, <1>8, <1>9, <1>10, <2>1, <2>2, <2>3 DEF SessionLines
<1> QED BY <1>11 DEF code

\* The call is before every start of its session that it could be for.
StartsFirst(code, at) ==
  \A i \in Where(code, {"start"}) :
     code[i].name = code[at].name /\ code[i].scope = code[at].scope => at <= i

\* A LiveKit file passes, but for a call counted once for each function around it.
LEMMA LiveKitPasses ==
  ASSUME NEW code, NEW out, NEW at, NEW d, NEW mode \in Modes, NEW old, NEW call, NEW t,
         SessionLines(code, out, at, d, mode, old, call, t), SessionsApart(code), StartsFirst(code, at),
         \A i \in Where(code, {"tracer"}) : code[i].name # "PipecatTracer",
         \A i \in Where(code, {"import"}) : code[i].name \notin Tracers,
         NEW x
  PROVE  x \in FileChecks(out, mode) <=> x = "tracer_exactly_once" /\ Cardinality(code[at].scope) > 1
<1>1. /\ CodeOk(out) /\ call \in DOMAIN out /\ out[call].op = CallFor(mode, SessionCalls)
      /\ out[call].name = code[at].name /\ out[call].scope = code[at].scope
      /\ t \in DOMAIN out /\ out[t].op = "tracer" /\ out[t].name = "LiveKitTracer" /\ out[t].scope = {}
      /\ DOMAIN code \subseteq Nat /\ DOMAIN out \subseteq Nat
  BY DEF SessionLines
<1>2. Where(out, SessionCalls) = {call}
  <2>1. Where(out, TracerCalls) = {call}
    BY DEF SessionLines
  <2> QED BY <1>1, <2>1, CallForIs DEF Where, TracerCalls
<1>3. ASSUME NEW c \in CallsOf(out, SessionCalls)
      PROVE  c[1] = call /\ c[2] \in code[at].scope
  BY <1>1, <1>2 DEF CallsOf
<1>4. ASSUME NEW c \in CallsOf(out, SessionCalls)
      PROVE  /\ out[c[1]].op = "track_session" => "agent" \in out[c[1]].has
             /\ out[c[1]].op = CallFor(mode, SessionCalls)
  <2>1. mode = "test" => "agent" \in out[call].has
    BY DEF SessionLines
  <2>2. mode # "test" => out[call].op = "observe_session"
    BY <1>1, CallForIs DEF Modes
  <2> QED BY <1>1, <1>3, <2>1, <2>2
<1>5. ASSUME NEW c \in CallsOf(out, SessionCalls), NEW s \in CallsOf(out, {"start"}),
             c[2] = s[2], out[c[1]].name = out[s[1]].name
      PROVE  ~(c[1] > s[1])
  <2>1. s[1] \in DOMAIN out /\ out[s[1]].op = "start" /\ s[2] \in out[s[1]].scope
    BY DEF CallsOf, Where
  <2>2. c[1] = call /\ c[2] \in code[at].scope
    BY <1>3
  <2>3. out[call].op # "start"
    BY <1>1, CallForIs DEF SessionCalls
  <2>4. PICK i \in DOMAIN code : s[1] = old[i] /\ out[s[1]] = code[i]
    BY <2>1, <2>3 DEF SessionLines
  <2>5. i \in Where(code, {"start"}) /\ code[i].name = code[at].name /\ code[i].scope \cap code[at].scope # {}
    BY <1>1, <1>5, <2>1, <2>2, <2>4 DEF Where
  <2>6. at \in Where(code, {"start"})
    BY DEF SessionLines, Where
  <2>7. code[i].scope = code[at].scope
    BY <2>5, <2>6 DEF SessionsApart
  <2>8. at <= i
    BY <2>5, <2>7 DEF StartsFirst
  <2>9. call < old[i]
    BY <2>8 DEF SessionLines
  <2> QED BY <1>1, <2>1, <2>2, <2>4, <2>9
<1>6. AtModuleScope(out, "LiveKitTracer") /\ Mentions(out, "LiveKitTracer")
  BY <1>1 DEF AtModuleScope, Mentions, Where
<1>7. ~Mentions(out, "PipecatTracer")
  <2> SUFFICES ASSUME NEW j \in DOMAIN out, out[j].op \in {"import", "tracer"}, out[j].name = "PipecatTracer"
               PROVE  FALSE
    BY DEF Mentions, Where
  <2>1. out[call].op \notin {"import", "tracer"}
    BY <1>1, CallForIs DEF SessionCalls
  <2>2. PICK i \in DOMAIN code : out[j] = code[i]
    BY <2>1 DEF SessionLines, Tracers
  <2> QED BY <2>2 DEF Where, Tracers
<1>8. Cardinality(CallsOf(out, SessionCalls)) = Cardinality(code[at].scope)
  BY <1>1, <1>2, CallsOfOne
<1>9. x \in LiveKitFailures(out, mode) <=> x = "tracer_exactly_once" /\ Cardinality(CallsOf(out, SessionCalls)) > 1
  BY <1>4, <1>5, <1>6, LiveKitOnly
<1> QED BY <1>6, <1>7, <1>8, <1>9 DEF FileChecks

\* The pipeline is wrapped, and its task made anew.
Multi(type) == type = "pipecat_multi_step"

\* The lines of the file that Pipecat tracing adds, as they end up.
TaskLines(code, out, at, f, mode, type, old, ini, call, job, reg) ==
  /\ CodeOk(code) /\ CodeOk(out) /\ DOMAIN code \subseteq Nat /\ DOMAIN out \subseteq Nat
  /\ at \in DOMAIN code /\ code[at].op = "task" /\ code[at].scope = {f}
  /\ ini \in DOMAIN out /\ out[ini].op = "tracer" /\ out[ini].name = "PipecatTracer" /\ out[ini].scope = {f}
  /\ call \in DOMAIN out /\ out[call].scope = {f} /\ Where(out, TracerCalls) = {call} /\ ini < call
  /\ out[call].op = CallFor(mode, IF Multi(type) THEN WrapCalls ELSE CreateCalls)
  /\ Multi(type) => /\ job \in DOMAIN out /\ out[job].op = "task" /\ out[job].scope = {f}
              /\ out[job].has = TracingFlags(code[at].has) /\ job = old[at]
              /\ reg \in DOMAIN out /\ out[reg].op = "register" /\ out[reg].scope = {f} /\ call < job /\ job < reg
  /\ \A j \in DOMAIN out : \/ out[j].op = "import"
                           \/ j = ini \/ j = call
                           \/ Multi(type) /\ (j = job \/ j = reg)
                           \/ \E i \in DOMAIN code \ {at} : j = old[i] /\ out[j] = code[i]
  /\ \A i \in DOMAIN code : at < i => old[at] < old[i]

\* The lines of a Pipecat edit, as the checks meet them.
LEMMA TaskLinesAre ==
  ASSUME NEW r, NEW mode \in Modes, NEW type, NEW file, NEW out, NEW task, NEW at, NEW n, NEW H, NEW d, NEW L,
         NEW old, NEW head, NEW new, PipecatEdit(r, mode, type, file, out, task, at, n, H, d, L, old, head, new),
         CodeOk(out), Cardinality(Where(out, TracerCalls)) <= 1, NEW f, r.code[file][at].scope = {f}
  PROVE  \E ini, call, job, reg : TaskLines(r.code[file], out, at, f, mode, type, old, ini, call, job, reg)
<1> DEFINE code == r.code[file]
<1>1. /\ CodeOk(code) /\ Edited(code, out, n, H, at, d, L, old, head, new) /\ d = 1 /\ d \in {0, 1}
      /\ PipecatLines(code, at, mode, type, H, L) /\ at \in DOMAIN code /\ code[at].op = "task"
      /\ old[at] = new[IF type = "pipecat_multi_step" THEN 3 ELSE 2]
  BY DEF PipecatEdit, PipecatAnchor, TasksIn, InBody, Body
<1>2. code[at].scope = {f}
  OBVIOUS
<1> HIDE DEF code
<1> DEFINE ini == new[1]
           call == new[2]
           job == new[3]
           reg == new[4]
<1>3. /\ L \in Seq(Lines) /\ Len(L) = (IF Multi(type) THEN 4 ELSE 2)
      /\ \A k \in 1..Len(L) : L[k].scope = {f}
      /\ L[1].op = "tracer" /\ L[1].name = "PipecatTracer"
      /\ L[2].op = CallFor(mode, IF Multi(type) THEN WrapCalls ELSE CreateCalls)
      /\ Multi(type) => L[3].op = "task" /\ L[3].has = TracingFlags(code[at].has) /\ L[4].op = "register"
  BY <1>1, <1>2 DEF PipecatLines, Multi
<1>4. \A k \in 1..Len(L) : new[k] \in DOMAIN out /\ out[new[k]] = L[k]
  BY <1>1, EditedIs
<1>5. 1 \in 1..Len(L) /\ 2 \in 1..Len(L) /\ (Multi(type) => 3 \in 1..Len(L) /\ 4 \in 1..Len(L))
  BY <1>3
<1>6. ini \in DOMAIN out /\ out[ini] = L[1] /\ call \in DOMAIN out /\ out[call] = L[2]
  BY <1>4, <1>5
<1>7. Multi(type) => job \in DOMAIN out /\ out[job] = L[3] /\ reg \in DOMAIN out /\ out[reg] = L[4]
  BY <1>4, <1>5
<1>8. Placed(Len(code), Len(H), Len(L), n, at, d, old, head, new)
  BY <1>1 DEF Edited
<1>9. ini < call /\ (Multi(type) => call < job /\ job < reg)
  BY <1>5, <1>8 DEF Placed
<1>10. call \in Where(out, TracerCalls)
  BY <1>3, <1>6, CallForIs DEF Where, TracerCalls
<1>11. Where(out, TracerCalls) = {call}
  <2>1. IsFiniteSet(Where(out, TracerCalls))
    BY CallsAreFinite
  <2>2. \A j \in Where(out, TracerCalls) : j = call
    BY <1>10, <2>1, AtMostOne
  <2> QED BY <1>10, <2>2
<1>12. ASSUME NEW j \in DOMAIN out
       PROVE  \/ out[j].op = "import"
              \/ j = ini \/ j = call
              \/ Multi(type) /\ (j = job \/ j = reg)
              \/ \E i \in DOMAIN code \ {at} : j = old[i] /\ out[j] = code[i]
  <2>1. ComesFrom(code, out, at, d, H, L, old, head, new, j)
    BY <1>1, EditedIs
  <2>2. CASE \E m \in 1..Len(H) : j = head[m] /\ out[j] = H[m]
    <3>1. \A m \in 1..Len(H) : H[m].op = "import"
      BY <1>1, PipecatOps
    <3> QED BY <2>2, <3>1
  <2>3. CASE \E m \in 1..Len(L) : j = new[m] /\ out[j] = L[m]
    <3>1. PICK m \in 1..Len(L) : j = new[m]
      BY <2>3
    <3>2. m = 1 \/ m = 2 \/ (Multi(type) /\ (m = 3 \/ m = 4))
      BY <1>3
    <3> QED BY <3>1, <3>2
  <2>4. CASE \E i \in DOMAIN code : j = old[i] /\ (d = 0 \/ i # at) /\ out[j] = code[i]
    BY <1>1, <2>4
  <2> HIDE DEF ini, call, job, reg
  <2> QED BY <2>1, <2>2, <2>3, <2>4 DEF ComesFrom
<1>13. ASSUME NEW i \in DOMAIN code, at < i PROVE old[at] < old[i]
  <2>1. i \in 1..Len(code) /\ at \in 1..Len(code)
    BY <1>1 DEF CodeOk
  <2> QED BY <1>8, <1>13, <2>1 DEF Placed
<1>14. Multi(type) => job = old[at]
  BY <1>1 DEF Multi
<1>15. DOMAIN code \subseteq Nat /\ DOMAIN out \subseteq Nat
  BY <1>1 DEF CodeOk
<1> HIDE DEF ini, call, job, reg
<1>16. TaskLines(code, out, at, f, mode, type, old, ini, call, job, reg)
  <2>1. out[ini].op = "tracer" /\ out[ini].name = "PipecatTracer" /\ out[ini].scope = {f}
    BY <1>3, <1>5, <1>6
  <2>2. out[call].scope = {f} /\ out[call].op = CallFor(mode, IF Multi(type) THEN WrapCalls ELSE CreateCalls)
    BY <1>3, <1>5, <1>6
  <2>3. ASSUME Multi(type)
        PROVE  /\ job \in DOMAIN out /\ out[job].op = "task" /\ out[job].scope = {f}
               /\ out[job].has = TracingFlags(code[at].has) /\ job = old[at]
               /\ reg \in DOMAIN out /\ out[reg].op = "register" /\ out[reg].scope = {f} /\ call < job /\ job < reg
    BY <1>3, <1>5, <1>7, <1>9, <1>14, <2>3
  <2> QED BY <1>1, <1>2, <1>6, <1>9, <1>11, <1>12, <1>13, <1>15, <2>1, <2>2, <2>3 DEF TaskLines
<1> QED BY <1>16 DEF code

\* Handlers are registered after the tasks.
HandlersLate(code) == \A i \in Where(code, {"register"}), j \in Where(code, {"task"}) : j < i

\* A task that turns tracing off does not turn it on too.
FlagsAgree(code) ==
  \A i \in Where(code, {"task"}) : /\ ~({"enable_tracing", "enable_tracing=other"} \subseteq code[i].has)
                                  /\ ~({"enable_turn_tracking", "enable_turn_tracking=other"} \subseteq code[i].has)
\* A flag of the task that is not the constant True stays what it is.
FlagKept(has) == has \cap {"enable_tracing=other", "enable_turn_tracking=other"} # {}

\* Each call of one line in one function is the one there is.
LEMMA CallsInOne ==
  ASSUME NEW code, CodeOk(code), NEW ops, NEW j, Where(code, ops) \subseteq {j}, NEW f, j \in DOMAIN code, code[j].scope = {f},
         NEW c \in CallsOf(code, ops)
  PROVE  c = <<j, f>> /\ c[1] = j
<1>1. c[1] \in Where(code, ops) /\ c[2] \in code[c[1]].scope /\ c = <<c[1], c[2]>>
  BY DEF CallsOf
<1>2. c[1] = j
  BY <1>1
<1>3. c[2] = f
  BY <1>1, <1>2
<1> QED BY <1>1, <1>2, <1>3

\* What the other checks need of the file, whatever the style.
LEMMA PipecatClean ==
  ASSUME NEW code, NEW out, NEW at, NEW f, NEW mode \in Modes, NEW type, NEW old, NEW ini, NEW call, NEW job, NEW reg,
         TaskLines(code, out, at, f, mode, type, old, ini, call, job, reg),
         \A i \in Where(code, {"tracer"}) : code[i].scope = {} /\ code[i].name # "PipecatTracer",
         Where(code, {"direct_observe"}) = {}
  PROVE  /\ TracerInits(out, "PipecatTracer") # {} /\ ~AtModuleScope(out, "PipecatTracer")
         /\ TracerInits(out, "LiveKitTracer") = {} \/ AtModuleScope(out, "LiveKitTracer")
         /\ Where(out, {"direct_observe"}) = {} /\ CallsOf(out, SessionCalls) = {}
<1>1. /\ out[call].op \in CreateCalls \cup WrapCalls /\ out[ini].op = "tracer" /\ out[ini].name = "PipecatTracer"
      /\ ini \in DOMAIN out /\ out[ini].scope = {f} /\ Where(out, TracerCalls) = {call}
  BY CallForIs DEF TaskLines
<1>2. ASSUME NEW j \in DOMAIN out, out[j].op \in {"tracer", "direct_observe"}
      PROVE  j = ini \/ \E i \in DOMAIN code : out[j] = code[i]
  <2>1. j # call /\ out[j].op # "import"
    BY <1>1, <1>2 DEF CreateCalls, WrapCalls
  <2>2. Multi(type) => out[job].op = "task" /\ out[reg].op = "register"
    BY DEF TaskLines
  <2>3. ~(Multi(type) /\ (j = job \/ j = reg))
    BY <1>2, <2>2
  <2> QED BY <2>1, <2>3 DEF TaskLines
<1>3. TracerInits(out, "PipecatTracer") # {}
  BY <1>1 DEF TracerInits, Where
<1>4. ~AtModuleScope(out, "PipecatTracer")
  <2> SUFFICES ASSUME NEW j \in DOMAIN out, out[j].op = "tracer", out[j].name = "PipecatTracer", out[j].scope = {}
               PROVE  FALSE
    BY DEF AtModuleScope, Where
  <2>1. PICK i \in DOMAIN code : out[j] = code[i]
    BY <1>1, <1>2
  <2> QED BY <2>1 DEF Where
<1>5. ASSUME NEW j \in TracerInits(out, "LiveKitTracer") PROVE AtModuleScope(out, "LiveKitTracer")
  <2>1. j \in DOMAIN out /\ out[j].op = "tracer" /\ out[j].name = "LiveKitTracer"
    BY DEF TracerInits, Where
  <2>2. PICK i \in DOMAIN code : out[j] = code[i]
    BY <1>1, <1>2, <2>1
  <2>3. code[i].scope = {}
    BY <2>1, <2>2 DEF Where
  <2> QED BY <2>1, <2>2, <2>3 DEF AtModuleScope, Where
<1>6. Where(out, {"direct_observe"}) = {}
  BY <1>1, <1>2 DEF Where
<1>7. CallsOf(out, SessionCalls) = {}
  BY <1>1 DEF CallsOf, Where, TracerCalls, SessionCalls, CreateCalls, WrapCalls
<1> QED BY <1>3, <1>4, <1>5, <1>6, <1>7

\* A Pipecat file passes, but for a wrapped pipeline that keeps a flag that is not True.
LEMMA PipecatPasses ==
  ASSUME NEW code, NEW out, NEW at, NEW f, NEW mode \in Modes, NEW type, NEW old, NEW ini, NEW call, NEW job, NEW reg,
         TaskLines(code, out, at, f, mode, type, old, ini, call, job, reg),
         \A i \in Where(code, {"tracer"}) : code[i].scope = {} /\ code[i].name # "PipecatTracer",
         Where(code, {"direct_observe"}) = {}, HandlersLate(code), FlagsAgree(code),
         \A i \in Where(code, {"task"}) \ {at} : code[i].scope = {},
         NEW x
  PROVE  x \in FileChecks(out, mode) <=>
           x = "multi_step_tracing_flags" /\ Multi(type) /\ FlagKept(code[at].has)
<1> DEFINE single == CallsOf(out, CreateCalls)
           wrap == CallsOf(out, WrapCalls)
           register == CallsOf(out, {"register"})
           task == Where(out, {"task"})
           last == LastWalked(out, task)
<1>1. /\ CodeOk(out) /\ call \in DOMAIN out /\ out[call].scope = {f} /\ Where(out, TracerCalls) = {call}
      /\ out[call].op = CallFor(mode, IF Multi(type) THEN WrapCalls ELSE CreateCalls)
      /\ DOMAIN code \subseteq Nat /\ DOMAIN out \subseteq Nat
  BY DEF TaskLines
<1>2. /\ TracerInits(out, "PipecatTracer") # {} /\ ~AtModuleScope(out, "PipecatTracer")
      /\ TracerInits(out, "LiveKitTracer") = {} \/ AtModuleScope(out, "LiveKitTracer")
      /\ Where(out, {"direct_observe"}) = {} /\ CallsOf(out, SessionCalls) = {}
  BY PipecatClean
<1>3. /\ CallFor(mode, CreateCalls) \in CreateCalls /\ CallFor(mode, WrapCalls) \in WrapCalls
      /\ CreateCalls \cap WrapCalls = {} /\ CreateCalls \cup WrapCalls \subseteq TracerCalls
      /\ "task" \notin TracerCalls /\ "register" \notin TracerCalls
  BY CallForIs DEF CreateCalls, WrapCalls, TracerCalls, SessionCalls
<1>4. Where(out, CreateCalls) \subseteq {call} /\ Where(out, WrapCalls) \subseteq {call}
  BY <1>1, <1>3 DEF Where
<1>5. \A c \in single \cup wrap : c = <<call, f>> /\ c[1] = call
  BY <1>1, <1>4, CallsInOne
<1>6. ~(Cardinality(single \cup wrap) > 1)
  <2>1. single \cup wrap \subseteq {<<call, f>>}
    BY <1>5
  <2>2. IsFiniteSet(single \cup wrap) /\ Cardinality(single \cup wrap) <= 1
    <3> HIDE DEF single, wrap
    <3> QED BY <2>1, OneOrNone
  <2>3. Cardinality(single \cup wrap) \in Nat
    BY <2>2, FS_CardinalityType
  <2> HIDE DEF single, wrap
  <2> QED BY <2>2, <2>3
<1>7. single = {} <=> Multi(type)
  <2>1. CASE Multi(type)
    <3>1. call \notin Where(out, CreateCalls)
      BY <1>1, <1>3, <2>1 DEF Where
    <3> QED BY <1>4, <2>1, <3>1 DEF CallsOf
  <2>2. CASE ~Multi(type)
    <3>1. call \in Where(out, CreateCalls)
      BY <1>1, <1>3, <2>2 DEF Where
    <3>2. \E c \in single : c[1] = call /\ c[2] = f
      BY <1>1, <3>1, CallIn
    <3> QED BY <2>2, <3>2
  <2> QED BY <2>1, <2>2
<1>8. single # {} \/ wrap # {}
  <2>1. CASE Multi(type)
    <3>1. call \in Where(out, WrapCalls)
      BY <1>1, <1>3, <2>1 DEF Where
    <3>2. \E c \in wrap : c[1] = call /\ c[2] = f
      BY <1>1, <3>1, CallIn
    <3> QED BY <3>2
  <2> QED BY <1>7, <2>1
<1>9. \A c \in single \cup wrap : out[c[1]].op \in {CallFor(mode, CreateCalls), CallFor(mode, WrapCalls)}
  BY <1>1, <1>5
<1>10. ASSUME Multi(type)
       PROVE  /\ last = job /\ register # {} /\ task # {} /\ (\A c \in register : ~(c[1] < last))
              /\ out[last].has = TracingFlags(code[at].has)
  <2>1. /\ job \in DOMAIN out /\ out[job].op = "task" /\ out[job].scope = {f}
        /\ out[job].has = TracingFlags(code[at].has) /\ job = old[at]
        /\ reg \in DOMAIN out /\ out[reg].op = "register" /\ out[reg].scope = {f} /\ job < reg
    BY <1>10 DEF TaskLines
  <2>2. \A j \in task : j = job \/ out[j].scope = {}
    <3> SUFFICES ASSUME NEW j \in task, j # job PROVE out[j].scope = {}
      OBVIOUS
    <3>1. j \in DOMAIN out /\ out[j].op = "task"
      BY DEF Where
    <3>2. j # call /\ j # ini /\ j # reg
      BY <1>1, <1>3, <2>1, <3>1 DEF TaskLines
    <3>3. PICK i \in DOMAIN code \ {at} : out[j] = code[i]
      BY <3>1, <3>2 DEF TaskLines
    <3> QED BY <3>1, <3>3 DEF Where
  <2>3. job \in task
    BY <2>1 DEF Where
  <2>4. last \in task /\ f \in out[last].scope
    <3>1. \A j \in task : out[j].scope \subseteq {f}
      BY <2>1, <2>2
    <3>2. out[job].scope # {}
      BY <2>1
    <3> QED BY <1>1, <2>3, <3>1, <3>2, LastTask
  <2>5. last = job
    BY <2>2, <2>4
  <2>6. register # {}
    <3>1. reg \in Where(out, {"register"})
      BY <2>1 DEF Where
    <3>2. \E c \in register : c[1] = reg /\ c[2] = f
      BY <1>1, <2>1, <3>1, CallIn
    <3> QED BY <3>2
  <2>7. ASSUME NEW c \in register PROVE ~(c[1] < last)
    <3>1. c[1] \in DOMAIN out /\ out[c[1]].op = "register"
      BY DEF CallsOf, Where
    <3>2. c[1] # call /\ c[1] # ini /\ c[1] # job
      BY <1>1, <1>3, <2>1, <3>1 DEF TaskLines
    <3>3. CASE c[1] = reg
      BY <1>1, <2>1, <2>5, <3>3
    <3>4. CASE c[1] # reg
      <4>1. PICK i \in DOMAIN code : c[1] = old[i] /\ out[c[1]] = code[i]
        BY <3>1, <3>2, <3>4 DEF TaskLines
      <4>2. i \in Where(code, {"register"}) /\ at \in Where(code, {"task"})
        BY <3>1, <4>1 DEF Where, TaskLines
      <4>3. at < i
        BY <4>2 DEF HandlersLate
      <4>4. old[at] < old[i]
        BY <4>3 DEF TaskLines
      <4> QED BY <1>1, <2>1, <2>5, <3>1, <4>1, <4>4
    <3> QED BY <3>3, <3>4
  <2> HIDE DEF last, task, register
  <2> QED BY <2>1, <2>3, <2>5, <2>6, <2>7
<1>11. Multi(type) => ({"enable_tracing", "enable_turn_tracking"} \subseteq out[last].has <=> ~FlagKept(code[at].has))
  <2> SUFFICES ASSUME Multi(type)
               PROVE  {"enable_tracing", "enable_turn_tracking"} \subseteq out[last].has <=> ~FlagKept(code[at].has)
    OBVIOUS
  <2>1. out[last].has = TracingFlags(code[at].has)
    BY <1>10
  <2>2. at \in Where(code, {"task"})
    BY DEF TaskLines, Where
  <2>3. /\ ~({"enable_tracing", "enable_tracing=other"} \subseteq code[at].has)
        /\ ~({"enable_turn_tracking", "enable_turn_tracking=other"} \subseteq code[at].has)
    BY <2>2 DEF FlagsAgree
  <2> HIDE DEF last
  <2> QED BY <2>1, <2>3 DEF TracingFlags, FlagKept
<1>12. x \in PipecatFailures(out, mode) <=>
           /\ x = "multi_step_tracing_flags" /\ single = {}
           /\ ~({"enable_tracing", "enable_turn_tracking"} \subseteq out[last].has)
  <2>1. single = {} => register # {} /\ task # {} /\ \A c \in register : ~(c[1] < last)
    BY <1>7, <1>10
  <2> QED BY <1>2, <1>6, <1>8, <1>9, <2>1, PipecatOnly
<1>13. x \notin LiveKitFailures(out, mode)
  <2>1. ~(Cardinality(CallsOf(out, SessionCalls)) > 1)
    BY <1>2, FS_EmptySet
  <2> QED BY <1>2, <2>1, LiveKitOnly
<1>14. Mentions(out, "PipecatTracer")
  BY <1>2 DEF TracerInits, Mentions, Where
<1> HIDE DEF single, last
<1> QED BY <1>7, <1>11, <1>12, <1>13, <1>14 DEF FileChecks

-----------------------------------------------------------------------------
(* The reference plan carried out                                          *)

\* What the checks take for granted of the customer's own code.
TidyFile(code) == SessionsApart(code) /\ HandlersLate(code) /\ FlagsAgree(code)

\* Such code throughout, no stray tracers, and pipelines with names.
Tidy(r) == NamesAll(r) /\ NoStray(r) /\ \A file \in DOMAIN r.code : TidyFile(r.code[file])

\* The checks of the patched file that fail as expected.
Nested(r) == Framework(r) = "livekit" /\ \E e \in StartsOfEntry(r) : Cardinality(LineOf(r, e).scope) > 1

\* A flag that is there and is not the constant True is kept.
KeepsUntraced(r) == Framework(r) = "pipecat" /\ \E t \in OfKind(r, "pipeline_task") : FlagKept(LineOf(r, t).has)

\* Nothing else fails.
FileFails(r, x) == (x = "tracer_exactly_once" /\ Nested(r)) \/ (x = "multi_step_tracing_flags" /\ KeepsUntraced(r))

\* What the planner can be asked about, and what came of it.
Planned(r, mode, q, a) ==
  /\ WellFormed(r) /\ TracedOnce(r) /\ Supported(r) /\ ~Existing(r) /\ ~FakePlannerRaises(r) /\ Tidy(r)
  /\ mode \in Modes /\ Reference(r, mode, a) /\ Carried(r, mode, q, a)
  /\ WellFormed(q) /\ TracedOnce(q)

\* The file that it changes is one that Python reads.
LEMMA CarriedReadable ==
  ASSUME NEW r, WellFormed(r), TracedOnce(r), Supported(r), NEW mode \in Modes, NEW q, NEW a, Carried(r, mode, q, a)
  PROVE  Readable(r, a.file)
<1> DEFINE file == a.file
           out == q.code[file]
<1>1. Framework(r) \in {"livekit", "pipecat"}
  BY SupportedIs DEF SupportedFacts
<1>2. CASE Framework(r) = "livekit"
  <2>1. PICK start, at, n, H, d, L, old, head, new : LiveKitEdit(r, mode, file, out, start, at, n, H, d, L, old, head, new)
    BY <1>2, LiveKitEdits
  <2>2. Readable(r, file)
    BY <2>1 DEF LiveKitEdit, LiveKitAnchor
  <2> QED BY <2>2
<1>3. CASE Framework(r) = "pipecat"
  <2>1. PICK task, at, n, H, d, L, old, head, new :
          PipecatEdit(r, mode, a.type, file, out, task, at, n, H, d, L, old, head, new)
    BY <1>3, PipecatEdits
  <2>2. Readable(r, file)
    BY <2>1 DEF PipecatEdit, PipecatAnchor
  <2> QED BY <2>2
<1> QED BY <1>1, <1>2, <1>3

\* The file that it changes.
LEMMA PlannedFile ==
  ASSUME NEW r, NEW mode, NEW q, NEW a, Planned(r, mode, q, a), Framework(r) \in {"livekit", "pipecat"}
  PROVE  /\ a.file \in DOMAIN r.code /\ a.file \in DOMAIN q.code
         /\ CodeOk(r.code[a.file]) /\ CodeOk(q.code[a.file]) /\ TidyFile(r.code[a.file])
         /\ Readable(r, a.file) /\ Where(r.code[a.file], TracerCalls) = {}
         /\ Cardinality(Where(q.code[a.file], TracerCalls)) <= 1
         /\ \A i \in Where(r.code[a.file], {"tracer"}) :
               r.code[a.file][i].scope = {} /\ r.code[a.file][i].name # "PipecatTracer"
         /\ \A i \in Where(r.code[a.file], {"import"}) : r.code[a.file][i].name \notin Tracers
         /\ Where(r.code[a.file], {"direct_observe"}) = {}
<1> DEFINE file == a.file
           code == r.code[file]
<1>1. /\ WellFormed(r) /\ TracedOnce(r) /\ Supported(r) /\ ~Existing(r) /\ NamesAll(r) /\ NoStray(r)
      /\ file \in DOMAIN r.code /\ file \in DOMAIN q.code /\ WellFormed(q) /\ TracedOnce(q) /\ TidyFile(code)
  BY DEF Planned, Tidy, Carried, OnlyChanges
<1>2. CodeOk(code) /\ CodeOk(q.code[file]) /\ Readable(r, file)
  BY <1>1, FileIs, CarriedReadable DEF Planned
<1>3. /\ Where(code, TracerCalls) = {}
      /\ \A i \in Where(code, {"tracer"}) : code[i].scope = {}
      /\ \A i \in Where(code, {"import"}) : code[i].name \notin Tracers \cup {"cekura"}
  BY <1>1, <1>2, NothingExisting
<1>4. Cardinality(Where(q.code[file], TracerCalls)) <= 1
  BY <1>1 DEF TracedOnce
<1>5. \A i \in Where(code, {"tracer"}) : code[i].name # "PipecatTracer"
  BY <1>1, <1>3 DEF NoStray, AtModuleScope
<1>6. Where(code, {"direct_observe"}) = {}
  <2> SUFFICES ASSUME NEW i \in Where(code, {"direct_observe"}) PROVE FALSE
    OBVIOUS
  <2>1. PICK e : DirectEv(e, file, i)
    BY DEF DirectEv
  <2>2. e \in OfKind(r, "direct_observe")
    BY <1>1, <1>2, <2>1, DirectEvidence
  <2> QED BY <1>1, <2>2, SupportedIs DEF SupportedFacts
<1> QED BY <1>1, <1>2, <1>3, <1>4, <1>5, <1>6

\* So it is with a LiveKit plan that was carried out.
LEMMA LiveKitPlanned ==
  ASSUME NEW r, NEW mode, NEW q, NEW a, Planned(r, mode, q, a), Framework(r) = "livekit", NEW x
  PROVE  /\ x \in FileChecks(q.code[a.file], mode) <=> FileFails(r, x)
         /\ q.code[a.file] # r.code[a.file]
         /\ \A e \in Entries(r, Framework(r)) : e.file = a.file
<1> DEFINE file == a.file
           code == r.code[file]
           out == q.code[file]
<1>1. /\ WellFormed(r) /\ TracedOnce(r) /\ Supported(r) /\ ~Existing(r) /\ ~FakePlannerRaises(r)
      /\ mode \in Modes /\ Carried(r, mode, q, a)
  BY DEF Planned
<1>2. /\ file \in DOMAIN r.code /\ CodeOk(code) /\ CodeOk(out) /\ TidyFile(code) /\ Readable(r, file)
      /\ Where(code, TracerCalls) = {} /\ Cardinality(Where(out, TracerCalls)) <= 1
      /\ \A i \in Where(code, {"tracer"}) : code[i].name # "PipecatTracer"
      /\ \A i \in Where(code, {"import"}) : code[i].name \notin Tracers
  BY PlannedFile
<1>3. PICK start, at, n, H, d, L, old, head, new :
        LiveKitEdit(r, mode, file, out, start, at, n, H, d, L, old, head, new)
  BY <1>1, LiveKitEdits
<1>4. PICK call, t : SessionLines(code, out, at, d, mode, old, call, t)
  BY <1>1, <1>2, <1>3, SessionLinesAre
<1>5. /\ file \notin ScannerTests /\ start.file = file /\ start.fn \in Functions_(code) /\ start.line \in StartsIn(code, start.fn)
      /\ \E e \in Entries(r, "livekit") : e.file = file /\ e.fn = start.fn
      /\ at \in InBody(code, start.fn, {"start"}) /\ code[at].name = code[start.line].name
      /\ \A i \in InBody(code, start.fn, {"start"}) \ {at} : code[i].name = code[at].name => WalkedBefore(code, at, i)
  BY <1>3 DEF LiveKitEdit, LiveKitAnchor
<1>6. PICK entry, s : TheStart(r, entry, s)
  BY <1>1, OneStart
<1>7. PICK e : StartEv(e, file, start.line, start.fn)
  BY DEF StartEv
<1>8. e.file = file /\ e.line = start.line /\ e.fn = start.fn
  BY <1>7 DEF StartEv, Ev
<1>9. e \in OfKind(r, "session_start")
  BY <1>2, <1>5, <1>7, StartEvidence
<1>10. TheEntry(r).fn = start.fn
  BY <1>5, <1>6 DEF TheStart
<1>11. StartsOfEntry(r) = {e}
  BY <1>6, <1>8, <1>9, <1>10 DEF TheStart, StartsOfEntry
<1>12. code[at].scope = code[start.line].scope
  <2>1. at \in Where(code, {"start"}) /\ start.line \in Where(code, {"start"})
    BY <1>5 DEF StartsIn, InBody
  <2>2. start.fn \in code[at].scope /\ start.fn \in code[start.line].scope
    BY <1>5 DEF StartsIn, InBody, Body
  <2>3. SessionsApart(code)
    BY <1>2 DEF TidyFile
  <2> QED BY <1>5, <2>1, <2>2, <2>3 DEF SessionsApart
<1>13. LineOf(r, e).scope = code[at].scope
  BY <1>8, <1>12 DEF LineOf
<1>14. StartsFirst(code, at)
  <2> SUFFICES ASSUME NEW i \in Where(code, {"start"}), code[i].name = code[at].name, code[i].scope = code[at].scope
               PROVE  at <= i
    BY DEF StartsFirst
  <2>1. i \in DOMAIN code /\ at \in DOMAIN code /\ start.fn \in code[i].scope
    BY <1>5 DEF InBody, Body, Where
  <2>2. i \in InBody(code, start.fn, {"start"})
    BY <2>1 DEF InBody, Body
  <2>3. i \in Nat /\ at \in Nat
    BY <1>2, <2>1 DEF CodeOk
  <2>4. Cardinality(code[at].scope) \in Nat
    BY <1>2, <2>1, ScopesAreFinite
  <2>5. CASE i # at
    <3>1. WalkedBefore(code, at, i)
      BY <1>5, <2>2, <2>5
    <3> QED BY <2>3, <2>4, <3>1 DEF WalkedBefore
  <2> QED BY <2>3, <2>5
<1>15. SessionsApart(code)
  BY <1>2 DEF TidyFile
<1>16. x \in FileChecks(out, mode) <=> x = "tracer_exactly_once" /\ Cardinality(code[at].scope) > 1
  <2> HIDE DEF code, out, file
  <2> QED BY <1>1, <1>2, <1>4, <1>14, <1>15, LiveKitPasses
<1>17. Nested(r) <=> Cardinality(code[at].scope) > 1
  BY <1>11, <1>13 DEF Nested
<1>18. ~KeepsUntraced(r)
  BY DEF KeepsUntraced
<1>19. out # code
  BY <1>2, <1>4 DEF SessionLines
<1>20. \A en \in Entries(r, Framework(r)) : en.file = file
  BY <1>5, <1>6 DEF TheStart
<1> QED BY <1>16, <1>17, <1>18, <1>19, <1>20 DEF FileFails

\* So it is with a Pipecat plan that was carried out.
LEMMA PipecatPlanned ==
  ASSUME NEW r, NEW mode, NEW q, NEW a, Planned(r, mode, q, a), Framework(r) = "pipecat", NEW x
  PROVE  /\ x \in FileChecks(q.code[a.file], mode) <=> FileFails(r, x)
         /\ q.code[a.file] # r.code[a.file]
         /\ \A e \in Entries(r, Framework(r)) : e.file = a.file
<1> DEFINE file == a.file
           code == r.code[file]
           out == q.code[file]
<1>1. /\ WellFormed(r) /\ TracedOnce(r) /\ Supported(r) /\ ~Existing(r) /\ ~FakePlannerRaises(r)
      /\ mode \in Modes /\ Carried(r, mode, q, a) /\ Reference(r, mode, a)
  BY DEF Planned
<1>2. /\ file \in DOMAIN r.code /\ CodeOk(code) /\ CodeOk(out) /\ TidyFile(code) /\ Readable(r, file)
      /\ Where(code, TracerCalls) = {} /\ Cardinality(Where(out, TracerCalls)) <= 1
      /\ \A i \in Where(code, {"tracer"}) : code[i].scope = {} /\ code[i].name # "PipecatTracer"
      /\ Where(code, {"direct_observe"}) = {}
  BY PlannedFile
<1>3. PICK task, at, n, H, d, L, old, head, new :
        PipecatEdit(r, mode, a.type, file, out, task, at, n, H, d, L, old, head, new)
  BY <1>1, PipecatEdits
<1>4. /\ file \notin ScannerTests /\ task.fn \in Functions_(code) /\ at \in TasksIn(code, task.fn) /\ code[at].op = "task"
  BY <1>3 DEF PipecatEdit, PipecatAnchor
<1>5. PICK entry, t : TheTask(r, entry, t) /\ a.type = StyleOf(r, t)
  BY <1>1 DEF Reference
<1>6. ASSUME NEW g, NEW i \in TasksIn(code, g), g \in Functions_(code)
      PROVE  t.file = file /\ t.line = i /\ t.fn = g
  <2>1. PICK e : TaskEv(e, file, i, g)
    BY DEF TaskEv
  <2>2. e \in OfKind(r, "pipeline_task")
    BY <1>2, <1>4, <1>6, <2>1, TaskEvidence
  <2>3. e = t
    BY <1>5, <2>2 DEF TheTask
  <2>4. e.file = file /\ e.line = i /\ e.fn = g
    <3> HIDE DEF file
    <3> QED BY <2>1 DEF TaskEv, Ev
  <2> HIDE DEF file
  <2> QED BY <2>3, <2>4
<1>7. t.file = file /\ t.line = at /\ t.fn = task.fn
  BY <1>4, <1>6
<1>8. ASSUME NEW i \in Where(code, {"task"}), NEW g \in code[i].scope PROVE i = at /\ g = task.fn
  <2>1. g \in Functions_(code)
    BY <1>2 DEF CodeOk, Where
  <2>2. i \in TasksIn(code, g)
    BY DEF TasksIn, InBody, Body, Where
  <2> QED BY <1>6, <1>7, <2>1, <2>2
<1>9. at \in Where(code, {"task"}) /\ task.fn \in code[at].scope
  BY <1>4 DEF TasksIn, InBody, Body, Where
<1>10. code[at].scope = {task.fn}
  BY <1>8, <1>9
<1>11. \A i \in Where(code, {"task"}) \ {at} : code[i].scope = {}
  BY <1>8
<1>12. PICK ini, call, job, reg : TaskLines(code, out, at, task.fn, mode, a.type, old, ini, call, job, reg)
  BY <1>1, <1>2, <1>3, <1>10, TaskLinesAre
<1>13. x \in FileChecks(out, mode) <=>
           x = "multi_step_tracing_flags" /\ Multi(a.type) /\ FlagKept(code[at].has)
  <2>1. HandlersLate(code) /\ FlagsAgree(code)
    BY <1>2 DEF TidyFile
  <2> HIDE DEF code, out, file
  <2> QED BY <1>1, <1>2, <1>11, <1>12, <2>1, PipecatPasses
<1>14. LineOf(r, t) = code[at]
  BY <1>7 DEF LineOf
<1>15. KeepsUntraced(r) <=> FlagKept(code[at].has)
  BY <1>5, <1>14 DEF KeepsUntraced, TheTask
<1>16. FlagKept(code[at].has) => Multi(a.type)
  <2>1. FlagKept(code[at].has) => HasCustomKwargs(code[at])
    BY DEF HasCustomKwargs, Kwargs, FlagKept
  <2> QED BY <1>5, <1>14, <2>1 DEF StyleOf, Multi
<1>17. ~Nested(r)
  BY DEF Nested
<1>18. out # code
  BY <1>2, <1>12 DEF TaskLines
<1>19. \A en \in Entries(r, Framework(r)) : en.file = file
  BY <1>5, <1>7 DEF TheTask
<1> QED BY <1>13, <1>15, <1>16, <1>17, <1>18, <1>19 DEF FileFails

\* The reference plan's manifest has the dependency already, and no other file
\* that it changes is taken for a manifest with it.
FoundBefore(r) ==
  /\ "cekura" \in TextOf(r, Manifest(r))
  /\ \A e \in Entries(r, Framework(r)) : e.file \in LookAlikes => "cekura" \notin TextOf(r, e.file)

\* The failures expected, one by one.
LEMMA ExpectedAre ==
  ASSUME NEW r, NEW x
  PROVE  x \in ExpectedFailures(r) <=> FileFails(r, x) \/ (x = "dependency_added" /\ FoundBefore(r))
<1> DEFINE p1 == Nested(r)
           p2 == KeepsUntraced(r)
           p3 == FoundBefore(r)
           checks == {<<"tracer_exactly_once", p1>>, <<"multi_step_tracing_flags", p2>>, <<"dependency_added", p3>>}
<1>1. ExpectedFailures(r) = Failing(checks)
  BY DEF ExpectedFailures, Nested, KeepsUntraced, FlagKept, FoundBefore
<1>2. p1 \in BOOLEAN /\ p2 \in BOOLEAN /\ p3 \in BOOLEAN
  BY DEF Nested, KeepsUntraced, FoundBefore
<1>3. FileFails(r, x) <=> (x = "tracer_exactly_once" /\ p1) \/ (x = "multi_step_tracing_flags" /\ p2)
  BY DEF FileFails
<1> HIDE DEF p1, p2, p3
<1>4. PICK a, b, c : a = <<"tracer_exactly_once", p1>> /\ b = <<"multi_step_tracing_flags", p2>> /\ c = <<"dependency_added", p3>>
  OBVIOUS
<1>5. checks = {a, b, c}
  BY <1>4
<1>t. /\ a[1] = "tracer_exactly_once" /\ b[1] = "multi_step_tracing_flags" /\ c[1] = "dependency_added"
      /\ a[2] = p1 /\ b[2] = p2 /\ c[2] = p3
  BY <1>4
<1> HIDE DEF checks
<1>6. x \in Failing(checks) <=> (a[2] /\ a[1] = x) \/ (b[2] /\ b[1] = x) \/ (c[2] /\ c[1] = x)
  BY <1>5, FailingIs
<1> QED BY <1>1, <1>2, <1>3, <1>t, <1>6 DEF p3

\* What Check finds.
LEMMA CheckFinds ==
  ASSUME Check, NEW x
  PROVE  x \in failed' <=> \/ x \in CollectChecks(repo, ChangedCode, cmd.mode)
                           \/ x = "syntax" /\ \E file \in Changed \cap Python : ~Readable(repo, file)
                           \/ x = "still_supported_topology" /\ ~Supported(repo)
                           \/ x = "integration_detected" /\ ~Existing(repo)
                           \/ x = "dependency_added" /\ \A file \in Changed \cap LookAlikes : "cekura" \notin TextOf(repo, file)
<1> DEFINE p0 == \E file \in Changed \cap Python : ~Readable(repo, file)
           p1 == ~Supported(repo)
           p2 == ~Existing(repo)
           p3 == \A file \in Changed \cap LookAlikes : "cekura" \notin TextOf(repo, file)
           checks == {<<"syntax", p0>>, <<"still_supported_topology", p1>>, <<"integration_detected", p2>>,
                      <<"dependency_added", p3>>}
           F == CollectChecks(repo, ChangedCode, cmd.mode)
<1>1. failed' = F \cup Failing(checks)
  BY DEF Check
<1>2. p0 \in BOOLEAN /\ p1 \in BOOLEAN /\ p2 \in BOOLEAN /\ p3 \in BOOLEAN
  OBVIOUS
<1>3. /\ p0 <=> \E file \in Changed \cap Python : ~Readable(repo, file)
      /\ p1 <=> ~Supported(repo)
      /\ p2 <=> ~Existing(repo)
      /\ p3 <=> \A file \in Changed \cap LookAlikes : "cekura" \notin TextOf(repo, file)
  OBVIOUS
<1> HIDE DEF p0, p1, p2, p3
<1>4. PICK z, a, b, c : /\ z = <<"syntax", p0>> /\ a = <<"still_supported_topology", p1>>
                        /\ b = <<"integration_detected", p2>> /\ c = <<"dependency_added", p3>>
  OBVIOUS
<1>5. checks = {z, a, b, c}
  BY <1>4
<1>t. /\ z[1] = "syntax" /\ a[1] = "still_supported_topology" /\ b[1] = "integration_detected"
      /\ c[1] = "dependency_added"
      /\ z[2] = p0 /\ a[2] = p1 /\ b[2] = p2 /\ c[2] = p3
  BY <1>4
<1> HIDE DEF checks, F
<1>6. x \in Failing(checks) <=> (z[2] /\ z[1] = x) \/ (a[2] /\ a[1] = x) \/ (b[2] /\ b[1] = x) \/ (c[2] /\ c[1] = x)
  BY <1>5, FailingIs
<1> QED BY <1>1, <1>2, <1>3, <1>t, <1>6 DEF F

\* The reference plan adds the dependency to its manifest, and nothing else.
TextsOf(r, q) ==
  /\ DOMAIN q.deps = DOMAIN r.deps \cup {Manifest(r)}
  /\ \A file : TextOf(q, file) = TextOf(r, file) \cup (IF file = Manifest(r) THEN {"cekura"} ELSE {})

\* What it changes.
LEMMA ReferenceChanges ==
  ASSUME NEW r, WellFormed(r), NEW q, WellFormed(q), TextsOf(r, q),
         NEW f, OnlyChanges(r, q, f), q.code[f] # r.code[f]
  PROVE  /\ {g \in DOMAIN q.code : q.code[g] # r.code[g] \/ TextOf(q, g) # TextOf(r, g)} = {f}
         /\ {g \in DOMAIN q.deps : g \in DOMAIN r.deps => q.deps[g] # r.deps[g]}
              = {g \in {Manifest(r)} : "cekura" \notin TextOf(r, g)}
         /\ f # Manifest(r) /\ f \in Python /\ Manifest(r) \notin Python /\ Manifest(r) \in LookAlikes
<1> DEFINE M == Manifest(r)
<1>1. M \in LookAlikes /\ M \notin Python
  BY ManifestIs, ManifestsAre
<1>2. f \in Python /\ DOMAIN q.code \subseteq Python /\ DOMAIN q.code = DOMAIN r.code /\ f \in DOMAIN q.code
  BY DEF WellFormed, OnlyChanges
<1>3. \A g \in DOMAIN q.code : g # M
  BY <1>1, <1>2
<1>4. \A g \in DOMAIN q.code : TextOf(q, g) = TextOf(r, g)
  BY <1>3 DEF TextsOf
<1>5. {g \in DOMAIN q.code : q.code[g] # r.code[g] \/ TextOf(q, g) # TextOf(r, g)} = {f}
  BY <1>2, <1>4 DEF OnlyChanges
<1>6. ASSUME NEW g \in DOMAIN q.deps
      PROVE  (g \in DOMAIN r.deps => q.deps[g] # r.deps[g]) <=> (g = M /\ "cekura" \notin TextOf(r, g))
  <2>1. TextOf(q, g) = q.deps[g]
    BY DEF TextOf
  <2>2. g \in DOMAIN r.deps => TextOf(r, g) = r.deps[g]
    BY DEF TextOf
  <2>3. g \notin DOMAIN r.deps => TextOf(r, g) = {} /\ g = M
    BY DEF TextOf, TextsOf
  <2>4. q.deps[g] = TextOf(r, g) \cup (IF g = M THEN {"cekura"} ELSE {})
    BY <2>1 DEF TextsOf
  <2> QED BY <2>2, <2>3, <2>4
<1>7. M \in DOMAIN q.deps
  BY DEF TextsOf
<1>8. {g \in DOMAIN q.deps : g \in DOMAIN r.deps => q.deps[g] # r.deps[g]} = {g \in {M} : "cekura" \notin TextOf(r, g)}
  BY <1>6, <1>7
<1> QED BY <1>1, <1>2, <1>3, <1>5, <1>8

\* The dependency is found missing when it was there before.
LEMMA DependencyFound ==
  ASSUME NEW r, NEW q, TextsOf(r, q), NEW f, f # Manifest(r), Manifest(r) \in LookAlikes,
         \A e \in Entries(r, Framework(r)) : e.file = f, Entries(r, Framework(r)) # {},
         NEW changed, changed = {f} \cup {g \in {Manifest(r)} : "cekura" \notin TextOf(r, g)}
  PROVE  (\A g \in changed \cap LookAlikes : "cekura" \notin TextOf(q, g)) <=> FoundBefore(r)
<1> DEFINE M == Manifest(r)
<1>1. /\ TextOf(q, f) = TextOf(r, f) /\ "cekura" \in TextOf(q, M)
  BY DEF TextsOf
<1>2. (\A e \in Entries(r, Framework(r)) : e.file \in LookAlikes => "cekura" \notin TextOf(r, e.file))
         <=> (f \in LookAlikes => "cekura" \notin TextOf(r, f))
  OBVIOUS
<1>3. CASE "cekura" \in TextOf(r, M)
  <2>1. changed = {f}
    BY <1>3
  <2> QED BY <1>1, <1>2, <1>3, <2>1 DEF FoundBefore
<1>4. CASE "cekura" \notin TextOf(r, M)
  <2>1. M \in changed \cap LookAlikes
    BY <1>4
  <2> QED BY <1>1, <1>4, <2>1 DEF FoundBefore
<1> QED BY <1>3, <1>4

\* What the reference plan makes of a repository.
LEMMA BuiltReference ==
  ASSUME NEW r, WellFormed(r), TracedOnce(r), Supported(r), ~Existing(r), ~FakePlannerRaises(r), Tidy(r),
         NEW mode \in Modes, NEW p, p = FakePlan(r, mode), Accepted(r, mode, p), BuildVerdict(r, p) = "ok",
         NEW q, q = Build(r, mode, p)
  PROVE  (\E a : Planned(r, mode, q, a)) /\ TextsOf(r, q) /\ SameGarbage(r, q)
<1>1. PICK b : Reference(r, mode, b)
  BY FakePlanAccepted
<1>2. PICK a \in p : Carried(r, mode, q, a)
  BY CarriedOutAs
<1>3. {c \in p : c.type \in TracerActions} = {b}
  BY <1>1 DEF Reference
<1>4. a.type \in TracerActions
  BY <1>2 DEF Carried
<1>5. a = b
  BY <1>3, <1>4
<1>6. WellFormed(q) /\ TracedOnce(q)
  BY BuildIs
<1>7. Planned(r, mode, q, a)
  BY <1>1, <1>2, <1>5, <1>6 DEF Planned
<1>8. TextsOf(r, q)
  <2> DEFINE M == Manifest(r)
             d == Action("add_dependency", M, Pinned(Framework(r)), {})
  <2>1. \A c \in p : c.type \in TextActions =>
           c.type = "add_dependency" /\ c.param = Pinned(Framework(r)) /\ Target(c) = M
    BY FakePlanTarget
  <2>2. d \in p /\ d.type = "add_dependency"
    BY DEF FakePlan, Action
  <2> HIDE DEF d
  <2>3. d \in Dependencies(p) /\ Target(d) = M /\ d.type \in TextActions
    BY <2>1, <2>2 DEF Dependencies, TextActions
  <2>4. Placeholders(p) = {} /\ \A c \in Dependencies(p) : Target(c) = M
    BY <2>1 DEF Placeholders, Dependencies, TextActions
  <2>5. \A file : file # M => Required(r, p, file) = {}
    BY <2>4 DEF Required
  <2>6. Required(r, p, M) \cup TextOf(r, M) = TextOf(r, M) \cup {"cekura"}
    <3>1. \A k : Requirement(r, M, k) = IF "cekura" \in TextOf(r, M) THEN {} ELSE {"cekura"}
      BY ManifestIs, ManifestsAre DEF Requirement
    <3>2. Required(r, p, M) = IF "cekura" \in TextOf(r, M) THEN {} ELSE {"cekura"}
      BY <2>3, <3>1 DEF Required
    <3> QED BY <3>2
  <2> HIDE DEF M
  <2>7. DOMAIN q.deps = DOMAIN r.deps \cup {M}
    <3>1. {Target(c) : c \in Dependencies(p) \cup Placeholders(p)} = {M}
      BY <2>3, <2>4
    <3> QED BY <3>1, AppendedIs
  <2>8. \A file : TextOf(q, file) = TextOf(r, file) \cup Required(r, p, file)
    <3>1. ~\E c \in Placeholders(p) : TRUE
      BY <2>4
    <3> QED BY <3>1, AppendedIs
  <2>9. \A file : TextOf(q, file) = TextOf(r, file) \cup (IF file = M THEN {"cekura"} ELSE {})
    BY <2>5, <2>6, <2>8
  <2> QED BY <2>7, <2>9 DEF TextsOf, M
<1>9. SameGarbage(r, q)
  <2>1. TextsGrow(r, q)
    BY BuildGrows
  <2>2. \A file : "garbage" \notin TextOf(q, file) \ TextOf(r, file)
    BY <1>8 DEF TextsOf
  <2> QED BY <2>1, <2>2, NothingGarbled
<1> QED BY <1>7, <1>8, <1>9

\* And what the checks make of that.
LEMMA ReferenceChecks ==
  ASSUME NEW r, WellFormed(r), TracedOnce(r), Supported(r), ~Existing(r), ~FakePlannerRaises(r), Tidy(r),
         NEW mode \in Modes, NEW p, p = FakePlan(r, mode), Accepted(r, mode, p), BuildVerdict(r, p) = "ok",
         NEW q, q = Build(r, mode, p)
  PROVE  /\ q # r /\ Supported(q) /\ Existing(q)
         /\ \E f : /\ OnlyChanges(r, q, f) /\ q.code[f] # r.code[f] /\ Readable(q, f)
                   /\ \A e \in Entries(r, Framework(r)) : e.file = f
                   /\ \A x : x \in CollectChecks(q, {f}, mode) <=> FileFails(r, x)
<1>1. PICK a : Planned(r, mode, q, a)
  BY BuiltReference
<1>2. Framework(r) \in {"livekit", "pipecat"}
  BY SupportedIs DEF SupportedFacts
<1>3. /\ \A x : x \in FileChecks(q.code[a.file], mode) <=> FileFails(r, x)
      /\ q.code[a.file] # r.code[a.file]
      /\ \A e \in Entries(r, Framework(r)) : e.file = a.file
  BY <1>1, <1>2, LiveKitPlanned, PipecatPlanned
<1>4. q # r
  BY <1>3
<1>5. \A g \in DOMAIN r.code : NamesPipelines(r.code[g])
  BY DEF Tidy, NamesAll
<1>6. Supported(q) /\ Existing(q)
  BY <1>4, <1>5, BuiltReference, StaysSupported
<1>7. OnlyChanges(r, q, a.file)
  BY <1>1 DEF Planned, Carried
<1>8. Readable(q, a.file)
  <2>1. \A g \in DOMAIN q.code : NamesPipelines(q.code[g])
    BY <1>4, <1>5, StaysNamed
  <2>2. \A g \in DOMAIN q.code : Parses(q.code[g])
    BY <2>1, NamedParses DEF NamesAll
  <2>3. Readable(r, a.file)
    BY <1>1, CarriedReadable DEF Planned
  <2>4. SameGarbage(r, q)
    BY BuiltReference
  <2> QED BY <1>7, <2>2, <2>3, <2>4, ReadableKept DEF OnlyChanges
<1>9. \A x : x \in CollectChecks(q, {a.file}, mode) <=> FileFails(r, x)
  BY <1>3, <1>8, ChecksAre
<1> QED BY <1>3, <1>4, <1>6, <1>7, <1>8, <1>9

-----------------------------------------------------------------------------
(* A supported repository is integrated                                    *)

\* A command that integrates a tidy, supported repository with the reference planner.
Ours ==
  /\ cmd.name = "integrate" /\ cmd.planner = "fake" /\ cmd.apply
  /\ Supported(base) /\ ~Existing(base) /\ Tidy(base)

\* The repository is what the reference plan makes of what the command found.
BuiltFrom(r, mode, q) ==
  LET p == FakePlan(r, mode)
  IN  /\ WellFormed(r) /\ TracedOnce(r) /\ ~FakePlannerRaises(r) /\ mode \in Modes
      /\ Accepted(r, mode, p) /\ BuildVerdict(r, p) = "ok" /\ q = Build(r, mode, p)

\* How such a command ends.
Outcome ==
  \/ applied /\ ended = "report" /\ failed = ExpectedFailures(base)
  \/ ~applied /\ ended = "crash" /\ FakePlannerRaises(base)
  \/ ~applied /\ ended = "refused" /\ Manifest(base) \in PlanTests
  \/ ~applied /\ ended = "refused" /\ BuildVerdict(base, FakePlan(base, cmd.mode)) = "refused"

\* Stage by stage, what has become of such a command.
StageInv ==
  /\ IInv
  /\ Ours /\ pc = "patch" => plan = FakePlan(repo, cmd.mode) /\ ~FakePlannerRaises(repo)
  /\ Ours /\ pc = "check" => applied /\ BuiltFrom(base, cmd.mode, repo)
  /\ Ours /\ pc = "platform" => applied /\ failed = ExpectedFailures(base) /\ Supported(repo) /\ Existing(repo)
  /\ Ours /\ pc = "idle" => Outcome

\* Planning yields the reference plan, or ends as expected.
LEMMA PlanStages == ASSUME StageInv, Plan PROVE StageInv'
<1>1. IInv /\ IInv'
  BY PlanHolds DEF StageInv
<1>2. /\ base' = base /\ repo' = repo /\ cmd' = cmd /\ applied' = applied /\ failed' = failed
      /\ pc = "plan" /\ base = repo /\ ~applied /\ WellFormed(repo) /\ cmd.mode \in Modes
  BY <1>1 DEF Plan, IInv, TypeOK, Commands
<1>3. pc' \in {"idle", "patch"}
  BY DEF Plan, Finish
<1>4. ASSUME Ours, pc' = "patch"
      PROVE  plan' = FakePlan(repo, cmd.mode) /\ ~FakePlannerRaises(repo)
  <2>1. cmd.planner = "fake"
    BY <1>4 DEF Ours
  <2>2. /\ ~FakePlannerRaises(repo)
        /\ plan' \in ValidPlans(repo, cmd.mode, {FakePlan(repo, cmd.mode)})
    BY <1>4, <2>1 DEF Plan, Finish
  <2> QED BY <2>2 DEF ValidPlans
<1>5. ASSUME Ours, pc' = "idle" PROVE Outcome'
  <2>1. cmd.planner = "fake" /\ Supported(repo) /\ ~Existing(repo)
    BY <1>2, <1>5 DEF Ours
  <2>2. \/ FakePlannerRaises(repo) /\ ended' = "crash"
        \/ ~FakePlannerRaises(repo) /\ ~FakePlanIsValid /\ ended' = "refused"
    BY <1>5, <2>1 DEF Plan, Finish
  <2>3. CASE FakePlannerRaises(repo) /\ ended' = "crash"
    BY <1>2, <2>3 DEF Outcome
  <2>4. CASE ~FakePlannerRaises(repo) /\ ~FakePlanIsValid /\ ended' = "refused"
    <3>1. ValidPlans(repo, cmd.mode, {FakePlan(repo, cmd.mode)}) = {}
      BY <2>4 DEF FakePlanIsValid
    <3>2. Manifest(repo) \in PlanTests
      BY <1>2, <2>1, <2>4, <3>1, FakePlanAccepted
    <3> QED BY <1>2, <2>4, <3>2 DEF Outcome
  <2> QED BY <2>2, <2>3, <2>4
<1>6. Ours' <=> Ours
  BY <1>2 DEF Ours
<1> QED BY <1>1, <1>2, <1>3, <1>4, <1>5, <1>6 DEF StageInv

\* Patching makes of the repository what the plan says.
LEMMA PatchStages == ASSUME StageInv, Patch PROVE StageInv'
<1>1. IInv /\ IInv'
  BY PatchHolds DEF StageInv
<1>2. /\ base' = base /\ cmd' = cmd /\ failed' = failed /\ pc = "patch" /\ base = repo /\ ~applied
      /\ WellFormed(repo) /\ TracedOnce(repo) /\ cmd.mode \in Modes /\ Supported(repo) /\ Accepted(repo, cmd.mode, plan)
  BY <1>1 DEF Patch, IInv, TypeOK, Commands
<1>3. Ours' <=> Ours
  BY <1>2 DEF Ours
<1>4. ASSUME Ours
      PROVE  \/ pc' = "check" /\ applied' /\ BuiltFrom(base, cmd.mode, repo')
             \/ pc' = "idle" /\ Outcome'
  <2> DEFINE p == FakePlan(repo, cmd.mode)
             q == Build(repo, cmd.mode, p)
  <2>1. plan = p /\ ~FakePlannerRaises(repo) /\ ~Existing(repo) /\ Tidy(repo) /\ cmd.apply
    BY <1>2, <1>4 DEF StageInv, Ours
  <2>2. BuildVerdict(repo, p) \in {"ok", "refused"}
    BY <1>2, <2>1, ReferenceDoesNotCrash
  <2>3. CASE BuildVerdict(repo, p) = "ok"
    <3>1. q # repo
      BY <1>2, <2>1, <2>3, ReferenceChecks
    <3>2. pc' = "check" /\ applied' /\ repo' = q
      BY <2>1, <2>3, <3>1 DEF Patch
    <3> QED BY <1>2, <2>1, <2>3, <3>2 DEF BuiltFrom
  <2>4. CASE BuildVerdict(repo, p) = "refused"
    <3>1. pc' = "idle" /\ ended' = "refused" /\ applied' = applied
      BY <2>1, <2>4 DEF Patch, Finish
    <3> QED BY <1>2, <2>4, <3>1 DEF Outcome
  <2> QED BY <2>2, <2>3, <2>4
<1> QED BY <1>1, <1>2, <1>3, <1>4 DEF StageInv

\* The checks fail that are expected to.
LEMMA CheckStages == ASSUME StageInv, Check PROVE StageInv'
<1>1. IInv /\ IInv'
  BY CheckHolds DEF StageInv
<1>2. /\ base' = base /\ repo' = repo /\ cmd' = cmd /\ applied' = applied /\ pc = "check" /\ pc' = "platform"
  BY DEF Check
<1>3. Ours' <=> Ours
  BY <1>2 DEF Ours
<1>4. ASSUME Ours PROVE applied /\ failed' = ExpectedFailures(base) /\ Supported(repo) /\ Existing(repo)
  <2> DEFINE p == FakePlan(base, cmd.mode)
  <2>1. applied /\ BuiltFrom(base, cmd.mode, repo)
    BY <1>2, <1>4 DEF StageInv
  <2>2. /\ WellFormed(base) /\ TracedOnce(base) /\ ~FakePlannerRaises(base) /\ cmd.mode \in Modes
        /\ Accepted(base, cmd.mode, p) /\ BuildVerdict(base, p) = "ok" /\ repo = Build(base, cmd.mode, p)
    BY <2>1 DEF BuiltFrom
  <2>3. Supported(base) /\ ~Existing(base) /\ Tidy(base)
    BY <1>4 DEF Ours
  <2>4. /\ Supported(repo) /\ Existing(repo)
        /\ \E f : /\ OnlyChanges(base, repo, f) /\ repo.code[f] # base.code[f] /\ Readable(repo, f)
                  /\ \A e \in Entries(base, Framework(base)) : e.file = f
                  /\ \A x : x \in CollectChecks(repo, {f}, cmd.mode) <=> FileFails(base, x)
    BY <2>2, <2>3, ReferenceChecks
  <2>5. PICK f : /\ OnlyChanges(base, repo, f) /\ repo.code[f] # base.code[f] /\ Readable(repo, f)
                 /\ \A e \in Entries(base, Framework(base)) : e.file = f
                 /\ \A x : x \in CollectChecks(repo, {f}, cmd.mode) <=> FileFails(base, x)
    BY <2>4
  <2>6. TextsOf(base, repo) /\ WellFormed(repo)
    BY <2>2, <2>3, BuiltReference, BuildIs
  <2>7. /\ ChangedCode = {f} /\ ChangedTexts = {g \in {Manifest(base)} : "cekura" \notin TextOf(base, g)}
        /\ f # Manifest(base) /\ f \in Python /\ Manifest(base) \notin Python /\ Manifest(base) \in LookAlikes
    BY <2>2, <2>5, <2>6, ReferenceChanges DEF ChangedCode, ChangedTexts
  <2>8. ~\E file \in Changed \cap Python : ~Readable(repo, file)
    BY <2>5, <2>7 DEF Changed
  <2>9. Entries(base, Framework(base)) # {}
    BY <2>3, SupportedIs DEF SupportedFacts
  <2>10. (\A file \in Changed \cap LookAlikes : "cekura" \notin TextOf(repo, file)) <=> FoundBefore(base)
    BY <2>5, <2>6, <2>7, <2>9, DependencyFound DEF Changed
  <2>11. ASSUME NEW x PROVE x \in failed' <=> x \in ExpectedFailures(base)
    <3>1. x \in CollectChecks(repo, ChangedCode, cmd.mode) <=> FileFails(base, x)
      BY <2>5, <2>7
    <3>2. x \in failed' <=> FileFails(base, x) \/ (x = "dependency_added" /\ FoundBefore(base))
      BY <2>4, <2>8, <2>10, <3>1, CheckFinds
    <3> QED BY <3>2, ExpectedAre
  <2> QED BY <2>1, <2>4, <2>11
<1> QED BY <1>1, <1>2, <1>3, <1>4 DEF StageInv

\* The platform is prepared, from a repository integrated already.
LEMMA PlatformStages == ASSUME StageInv, PreparePlatform PROVE StageInv'
<1>1. IInv /\ IInv'
  BY PlatformHolds DEF StageInv
<1>2. /\ base' = base /\ repo' = repo /\ cmd' = cmd /\ applied' = applied /\ failed' = failed
      /\ pc = "platform" /\ pc' = "idle"
  BY DEF PreparePlatform, Finish
<1>3. Ours' <=> Ours
  BY <1>2 DEF Ours
<1>4. ASSUME Ours PROVE Outcome'
  <2>1. applied /\ failed = ExpectedFailures(base) /\ Supported(repo) /\ Existing(repo)
    BY <1>2, <1>4 DEF StageInv
  <2>2. ~FakePlannerRaises(repo) /\ FakePlanIsValid
    BY <2>1, NoopIsValid DEF FakePlanIsValid
  <2>3. ended' = "report"
    BY <2>1, <2>2 DEF PreparePlatform, Finish
  <2> QED BY <1>2, <2>1, <2>3 DEF Outcome
<1> QED BY <1>1, <1>2, <1>3, <1>4 DEF StageInv

\* StageInv is inductive.
LEMMA StepStages == ASSUME StageInv, [Next]_vars PROVE StageInv'
<1>1. IInv'
  BY StepHolds DEF StageInv
<1>2. CASE StartIntegrate
  <2>1. pc' = "plan" \/ (pc' = "idle" /\ ~Supported(base'))
    BY <1>2 DEF StartIntegrate, Finish
  <2> QED BY <1>1, <2>1 DEF StageInv, Ours
<1>3. CASE Plan
  BY <1>3, PlanStages
<1>4. CASE Patch
  BY <1>4, PatchStages
<1>5. CASE Check
  BY <1>5, CheckStages
<1>6. CASE PreparePlatform
  BY <1>6, PlatformStages
<1>7. ASSUME NEW mode \in Modes, VerifyRepo(mode) PROVE StageInv'
  <2>1. cmd'.name = "verify"
    BY <1>7 DEF VerifyRepo, NoCommand
  <2> QED BY <1>1, <2>1 DEF StageInv, Ours
<1>8. ASSUME NEW after, CustomerEdits(after) PROVE StageInv'
  BY <1>1, <1>8 DEF StageInv, Ours, CustomerEdits, NoCommand
<1>9. CASE \E file \in DOMAIN repo.code : \E i \in DOMAIN repo.code[file] : DeletesLine(file, i)
  BY <1>8, <1>9 DEF DeletesLine
<1>10. CASE \E m \in ToSet(Manifests) : AddsDependency(m)
  BY <1>8, <1>10 DEF AddsDependency
<1>11. CASE UNCHANGED vars
  BY <1>1, <1>11 DEF vars, StageInv, Ours, Outcome
<1> QED BY <1>2, <1>3, <1>4, <1>5, <1>6, <1>7, <1>9, <1>10, <1>11 DEF Next

\* A supported repository is integrated by the reference plan, and its report
\* names exactly the checks expected to fail, if the customer's code is tidy.
THEOREM SupportedIsIntegratedHolds == Spec => [](Tidy(base) => SupportedIsIntegrated)
<1>1. Init => StageInv
  <2> SUFFICES ASSUME Init PROVE StageInv
    OBVIOUS
  <2>1. IInv
    BY InitHolds
  <2>2. cmd.name = "none"
    BY DEF Init, NoCommand
  <2> QED BY <2>1, <2>2 DEF StageInv, Ours
<1>2. StageInv => (Tidy(base) => SupportedIsIntegrated)
  BY DEF StageInv, Ours, Outcome, SupportedIsIntegrated, Integrated
<1> QED BY <1>1, <1>2, StepStages, PTL DEF Spec

-----------------------------------------------------------------------------
(* What a written repository is traced by, whatever lines are deleted      *)

\* The lines that integrate writes, but for imports.
CekuraLines == TracerCalls \cup {"tracer", "register"}

\* A file without any of them.
Untouched(code) == Where(code, CekuraLines) = {}

\* A function starts sessions of one name, and a file makes one task.
OneEach(code) ==
  /\ \A f \in Functions_(code) : \A i, j \in StartsIn(code, f) : code[i].name = code[j].name
  /\ \A i, j \in Where(code, {"task"}) : i = j

\* Tracing of function f of a LiveKit file, or what is left of it.
SessionTrace(code, f) ==
  /\ \A t \in Where(code, {"tracer"}) :
        /\ code[t].name = "LiveKitTracer" /\ code[t].scope = {}
        /\ \A i \in Where(code, {"import"}) : code[i].scope = {} => i < t
  /\ \A c \in Where(code, TracerCalls) :
        /\ code[c].op \in SessionCalls /\ f \in code[c].scope
        /\ \A s \in StartsIn(code, f) : code[s].name = code[c].name

\* Tracing of function f of a Pipecat file, or what is left of it.
TaskTrace(code, f) ==
  /\ \A t \in Where(code, {"tracer"}) :
        /\ code[t].name = "PipecatTracer" /\ code[t].scope = {f}
        /\ \A c \in Where(code, TracerCalls) : t < c
  /\ \A c \in Where(code, TracerCalls) :
        /\ code[c].op \in CreateCalls \cup WrapCalls /\ code[c].scope = {f}
        /\ \A k \in Where(code, {"task"}) : c < k /\ code[k].scope = {f}
  /\ \A g \in Where(code, {"register"}) : code[g].scope = {f}

\* Only function f of the file is traced, if any, and only it can be an entrypoint.
Anchored(r, file, f, fw) ==
  /\ file \in DOMAIN r.code /\ Seen(r) \subseteq {fw}
  /\ \A e \in Entries(r, fw) : e.file = file /\ e.fn = f
  /\ \A g \in DOMAIN r.code : g # file => Untouched(r.code[g])
  /\ fw = "livekit" => SessionTrace(r.code[file], f)
  /\ fw = "pipecat" => TaskTrace(r.code[file], f)

\* No file has lines of integrate's, or all are of one place.
Trail(r) ==
  /\ \A file \in DOMAIN r.code : OneEach(r.code[file])
  /\ \/ \A file \in DOMAIN r.code : Untouched(r.code[file])
     \/ \E file, f, fw : Anchored(r, file, f, fw)

-----------------------------------------------------------------------------
(* Deleting lines                                                          *)

\* out is code without some lines; m says where the others were.
ShrunkBy(code, out, m) ==
  /\ DOMAIN out \subseteq Nat /\ DOMAIN code \subseteq Nat /\ m \in [DOMAIN out -> DOMAIN code]
  /\ \A i \in DOMAIN out : out[i] = code[m[i]]
  /\ \A i, j \in DOMAIN out : i < j => m[i] < m[j]

\* The lines that are left are in the order they were in.
LEMMA ShrunkOrder ==
  ASSUME NEW code, NEW out, NEW m, ShrunkBy(code, out, m), NEW i \in DOMAIN out, NEW j \in DOMAIN out
  PROVE  /\ m[i] \in DOMAIN code /\ out[i] = code[m[i]]
         /\ m[i] < m[j] => i < j
         /\ m[i] = m[j] => i = j
<1>1. /\ m[i] \in DOMAIN code /\ m[j] \in DOMAIN code /\ out[i] = code[m[i]]
      /\ i \in Nat /\ j \in Nat /\ m[i] \in Nat /\ m[j] \in Nat
      /\ i < j => m[i] < m[j]
      /\ j < i => m[j] < m[i]
  BY DEF ShrunkBy
<1>2. i < j \/ j < i \/ i = j
  BY <1>1
<1> QED BY <1>1, <1>2

\* What is left of some lines was such a line.
LEMMA ShrunkWhere ==
  ASSUME NEW code, NEW out, NEW m, ShrunkBy(code, out, m), NEW ops, NEW i \in Where(out, ops)
  PROVE  i \in DOMAIN out /\ m[i] \in Where(code, ops) /\ out[i] = code[m[i]]
BY ShrunkOrder DEF Where

\* So it is with the starts and the tasks of a function.
LEMMA ShrunkStarts ==
  ASSUME NEW code, NEW out, NEW m, ShrunkBy(code, out, m), NEW f
  PROVE  /\ \A i \in StartsIn(out, f) : i \in DOMAIN out /\ m[i] \in StartsIn(code, f) /\ out[i] = code[m[i]]
         /\ \A i \in TasksIn(out, f) : m[i] \in TasksIn(code, f)
<1>1. ASSUME NEW i \in StartsIn(out, f) PROVE i \in DOMAIN out /\ m[i] \in StartsIn(code, f) /\ out[i] = code[m[i]]
  <2>1. /\ i \in Where(out, {"start"}) /\ f \in out[i].scope
        /\ \/ \E j \in InBody(out, f, {"session"}) : out[i].name = out[j].name
           \/ out[i].has \cap {"agent", "room"} # {}
    BY <1>1 DEF StartsIn, InBody, Body
  <2>2. i \in DOMAIN out /\ m[i] \in Where(code, {"start"}) /\ out[i] = code[m[i]]
    BY <2>1, ShrunkWhere
  <2>3. ASSUME NEW j \in InBody(out, f, {"session"}), out[i].name = out[j].name
        PROVE  m[j] \in InBody(code, f, {"session"}) /\ code[m[i]].name = code[m[j]].name
    <3>1. j \in Where(out, {"session"}) /\ f \in out[j].scope
      BY <2>3 DEF InBody, Body
    <3>2. m[j] \in Where(code, {"session"}) /\ out[j] = code[m[j]]
      BY <3>1, ShrunkWhere
    <3> QED BY <2>2, <2>3, <3>1, <3>2 DEF InBody, Body, Where
  <2>4. m[i] \in InBody(code, f, {"start"})
    BY <2>1, <2>2 DEF InBody, Body, Where
  <2> QED BY <2>1, <2>2, <2>3, <2>4 DEF StartsIn
<1>2. ASSUME NEW i \in TasksIn(out, f) PROVE m[i] \in TasksIn(code, f)
  <2>1. i \in Where(out, {"task", "pipeline_worker"} \cup CreateCalls) /\ f \in out[i].scope
    BY <1>2 DEF TasksIn, InBody, Body
  <2>2. m[i] \in Where(code, {"task", "pipeline_worker"} \cup CreateCalls) /\ out[i] = code[m[i]]
    BY <2>1, ShrunkWhere
  <2> QED BY <2>1, <2>2 DEF TasksIn, InBody, Body, Where
<1> QED BY <1>1, <1>2

\* What was said of a file is true of what is left of it.
LEMMA ShrunkFile ==
  ASSUME NEW code, NEW out, NEW m, ShrunkBy(code, out, m)
  PROVE  /\ OneEach(code) => OneEach(out)
         /\ Untouched(code) => Untouched(out)
         /\ \A f : SessionTrace(code, f) => SessionTrace(out, f)
         /\ \A f : TaskTrace(code, f) => TaskTrace(out, f)
<1>1. ASSUME OneEach(code) PROVE OneEach(out)
  <2>1. ASSUME NEW f \in Functions_(out), NEW i \in StartsIn(out, f), NEW j \in StartsIn(out, f)
        PROVE  out[i].name = out[j].name
    <3>1. /\ m[i] \in StartsIn(code, f) /\ out[i] = code[m[i]]
          /\ m[j] \in StartsIn(code, f) /\ out[j] = code[m[j]]
      BY ShrunkStarts
    <3>2. f \in Functions_(code)
      <4>1. PICK k \in Where(out, {"def"}) : f = out[k].name
        BY DEF Functions_
      <4>2. m[k] \in Where(code, {"def"}) /\ out[k] = code[m[k]]
        BY ShrunkWhere
      <4> QED BY <4>1, <4>2 DEF Functions_
    <3> QED BY <1>1, <3>1, <3>2 DEF OneEach
  <2>2. ASSUME NEW i \in Where(out, {"task"}), NEW j \in Where(out, {"task"}) PROVE i = j
    <3>1. i \in DOMAIN out /\ j \in DOMAIN out /\ m[i] \in Where(code, {"task"}) /\ m[j] \in Where(code, {"task"})
      BY ShrunkWhere
    <3>2. m[i] = m[j]
      BY <1>1, <3>1 DEF OneEach
    <3> QED BY <3>1, <3>2, ShrunkOrder
  <2> QED BY <2>1, <2>2 DEF OneEach
<1>2. ASSUME Untouched(code) PROVE Untouched(out)
  BY <1>2, ShrunkWhere DEF Untouched
<1>3. ASSUME NEW f, SessionTrace(code, f) PROVE SessionTrace(out, f)
  <2>1. ASSUME NEW t \in Where(out, {"tracer"})
        PROVE  /\ out[t].name = "LiveKitTracer" /\ out[t].scope = {}
               /\ \A i \in Where(out, {"import"}) : out[i].scope = {} => i < t
    <3>1. t \in DOMAIN out /\ m[t] \in Where(code, {"tracer"}) /\ out[t] = code[m[t]]
      BY ShrunkWhere
    <3>2. ASSUME NEW i \in Where(out, {"import"}), out[i].scope = {} PROVE i < t
      <4>1. i \in DOMAIN out /\ m[i] \in Where(code, {"import"}) /\ out[i] = code[m[i]]
        BY ShrunkWhere
      <4>2. m[i] < m[t]
        BY <1>3, <3>1, <3>2, <4>1 DEF SessionTrace
      <4> QED BY <3>1, <4>1, <4>2, ShrunkOrder
    <3> QED BY <1>3, <3>1, <3>2 DEF SessionTrace
  <2>2. ASSUME NEW c \in Where(out, TracerCalls)
        PROVE  /\ out[c].op \in SessionCalls /\ f \in out[c].scope
               /\ \A s \in StartsIn(out, f) : out[s].name = out[c].name
    <3>1. m[c] \in Where(code, TracerCalls) /\ out[c] = code[m[c]]
      BY ShrunkWhere
    <3>2. ASSUME NEW s \in StartsIn(out, f) PROVE out[s].name = out[c].name
      <4>1. m[s] \in StartsIn(code, f) /\ out[s] = code[m[s]]
        BY ShrunkStarts
      <4> QED BY <1>3, <3>1, <4>1 DEF SessionTrace
    <3> QED BY <1>3, <3>1, <3>2 DEF SessionTrace
  <2> QED BY <2>1, <2>2 DEF SessionTrace
<1>4. ASSUME NEW f, TaskTrace(code, f) PROVE TaskTrace(out, f)
  <2>1. ASSUME NEW t \in Where(out, {"tracer"})
        PROVE  /\ out[t].name = "PipecatTracer" /\ out[t].scope = {f}
               /\ \A c \in Where(out, TracerCalls) : t < c
    <3>1. t \in DOMAIN out /\ m[t] \in Where(code, {"tracer"}) /\ out[t] = code[m[t]]
      BY ShrunkWhere
    <3>2. ASSUME NEW c \in Where(out, TracerCalls) PROVE t < c
      <4>1. c \in DOMAIN out /\ m[c] \in Where(code, TracerCalls)
        BY ShrunkWhere
      <4>2. m[t] < m[c]
        BY <1>4, <3>1, <4>1 DEF TaskTrace
      <4> QED BY <3>1, <4>1, <4>2, ShrunkOrder
    <3> QED BY <1>4, <3>1, <3>2 DEF TaskTrace
  <2>2. ASSUME NEW c \in Where(out, TracerCalls)
        PROVE  /\ out[c].op \in CreateCalls \cup WrapCalls /\ out[c].scope = {f}
               /\ \A k \in Where(out, {"task"}) : c < k /\ out[k].scope = {f}
    <3>1. c \in DOMAIN out /\ m[c] \in Where(code, TracerCalls) /\ out[c] = code[m[c]]
      BY ShrunkWhere
    <3>2. ASSUME NEW k \in Where(out, {"task"}) PROVE c < k /\ out[k].scope = {f}
      <4>1. k \in DOMAIN out /\ m[k] \in Where(code, {"task"}) /\ out[k] = code[m[k]]
        BY ShrunkWhere
      <4>2. m[c] < m[k] /\ code[m[k]].scope = {f}
        BY <1>4, <3>1, <4>1 DEF TaskTrace
      <4> QED BY <3>1, <4>1, <4>2, ShrunkOrder
    <3> QED BY <1>4, <3>1, <3>2 DEF TaskTrace
  <2>3. ASSUME NEW g \in Where(out, {"register"}) PROVE out[g].scope = {f}
    <3>1. m[g] \in Where(code, {"register"}) /\ out[g] = code[m[g]]
      BY ShrunkWhere
    <3> QED BY <1>4, <3>1 DEF TaskTrace
  <2> QED BY <2>1, <2>2, <2>3 DEF TaskTrace
<1> QED BY <1>1, <1>2, <1>3, <1>4

\* q is r without some lines of its files.
Shrunk(r, q) ==
  /\ DOMAIN q.code = DOMAIN r.code
  /\ \A file \in DOMAIN r.code : Readable(r, file) /\ \E m : ShrunkBy(r.code[file], q.code[file], m)

\* An entrypoint that is left was one before.
LEMMA ShrunkEntries ==
  ASSUME NEW r, NEW q, Shrunk(r, q), NEW fw, NEW d \in Entries(q, fw)
  PROVE  \E e \in Entries(r, fw) : e.file = d.file /\ e.fn = d.fn
<1> DEFINE file == d.file
           code == r.code[file]
           out == q.code[file]
           i == d.line
<1>1. /\ file \in DOMAIN q.code /\ file \notin ScannerTests /\ i \in Where(out, {"def"}) /\ d.fn = out[i].name
      /\ \/ fw = "livekit" /\ IsLiveKitEntry(out, i)
         \/ fw = "pipecat" /\ TasksIn(out, out[i].name) # {}
  BY EntryIs DEF EntryAt
<1>2. file \in DOMAIN r.code /\ Readable(r, file)
  BY <1>1 DEF Shrunk
<1>3. PICK m : ShrunkBy(code, out, m)
  BY <1>2 DEF Shrunk
<1> HIDE DEF code, out, i
<1>4. m[i] \in Where(code, {"def"}) /\ out[i] = code[m[i]]
  BY <1>1, <1>3, ShrunkWhere
<1>5. IsLiveKitEntry(out, i) => IsLiveKitEntry(code, m[i])
  BY <1>3, <1>4, ShrunkStarts DEF IsLiveKitEntry
<1>6. TasksIn(out, out[i].name) # {} => TasksIn(code, code[m[i]].name) # {}
  BY <1>3, <1>4, ShrunkStarts
<1>7. EntryAt(r, fw, file, m[i])
  BY <1>1, <1>2, <1>4, <1>5, <1>6 DEF EntryAt, code
<1>8. PICK e \in Entries(r, fw) : e.file = file /\ e.fn = r.code[file][m[i]].name
  BY <1>7, EntryIn
<1> QED BY <1>1, <1>4, <1>8 DEF code

\* No framework is imported that was not before.
LEMMA ShrunkSeen ==
  ASSUME NEW r, NEW q, Shrunk(r, q)
  PROVE  Seen(q) \subseteq Seen(r)
<1> SUFFICES ASSUME NEW fw \in Seen(q) PROVE fw \in Seen(r)
  OBVIOUS
<1>1. PICK file \in DOMAIN q.code \ MatrixTests :
        Readable(q, file) /\ \E i \in Where(q.code[file], {"import"}) : q.code[file][i].name = fw
  BY SeenIs
<1>2. PICK i \in Where(q.code[file], {"import"}) : q.code[file][i].name = fw
  BY <1>1
<1>3. file \in DOMAIN r.code \ MatrixTests /\ Readable(r, file)
  BY DEF Shrunk
<1>4. PICK m : ShrunkBy(r.code[file], q.code[file], m)
  BY <1>3 DEF Shrunk
<1>5. m[i] \in Where(r.code[file], {"import"}) /\ q.code[file][i] = r.code[file][m[i]]
  BY <1>4, ShrunkWhere
<1> QED BY <1>2, <1>3, <1>5, SeenIs

\* Deleting lines leaves what was said of the repository true.
LEMMA ShrunkTrail ==
  ASSUME NEW r, NEW q, Shrunk(r, q), Trail(r)
  PROVE  Trail(q)
<1>1. \A file \in DOMAIN q.code : /\ OneEach(q.code[file])
                                  /\ Untouched(r.code[file]) => Untouched(q.code[file])
  BY ShrunkFile DEF Shrunk, Trail
<1>2. ASSUME NEW file, NEW f, NEW fw, Anchored(r, file, f, fw) PROVE Anchored(q, file, f, fw)
  <2>1. file \in DOMAIN q.code /\ DOMAIN q.code = DOMAIN r.code
    BY <1>2 DEF Shrunk, Anchored
  <2>2. Seen(q) \subseteq {fw}
    BY <1>2, ShrunkSeen DEF Anchored
  <2>3. \A e \in Entries(q, fw) : e.file = file /\ e.fn = f
    BY <1>2, ShrunkEntries DEF Anchored
  <2>4. \A g \in DOMAIN q.code : g # file => Untouched(q.code[g])
    BY <1>1, <1>2, <2>1 DEF Anchored
  <2>5. PICK m : ShrunkBy(r.code[file], q.code[file], m)
    BY <2>1 DEF Shrunk
  <2>6. /\ fw = "livekit" => SessionTrace(q.code[file], f)
        /\ fw = "pipecat" => TaskTrace(q.code[file], f)
    BY <1>2, <2>5, ShrunkFile DEF Anchored
  <2> QED BY <2>1, <2>2, <2>3, <2>4, <2>6 DEF Anchored
<1>3. \/ \A file \in DOMAIN q.code : Untouched(q.code[file])
      \/ \E file, f, fw : Anchored(q, file, f, fw)
  BY <1>1, <1>2 DEF Trail, Shrunk
<1> QED BY <1>1, <1>3 DEF Trail

\* A framework that was chosen is the only one imported.
LEMMA SeenOne ==
  ASSUME NEW r, NEW fw, Framework(r) = fw, fw \in {"livekit", "pipecat"}
  PROVE  Seen(r) = {fw}
<1>1. Seen(r) \subseteq {"livekit", "pipecat"}
  BY SeenIs
<1>2. Seen(r) # {} /\ Cardinality(Seen(r)) # 2
  BY DEF Framework
<1>3. fw \in Seen(r)
  BY <1>2 DEF Framework
<1>4. ASSUME NEW other \in Seen(r), other # fw PROVE FALSE
  <2>1. Seen(r) = {"livekit", "pipecat"}
    BY <1>1, <1>3, <1>4
  <2>2. PICK a, b : a = "livekit" /\ b = "pipecat"
    OBVIOUS
  <2>3. a # b
    BY <2>2
  <2>4. IsFiniteSet({b}) /\ Cardinality({b}) = 1
    BY FS_Singleton
  <2>5. Cardinality({b} \cup {a}) = 2
    BY <2>3, <2>4, FS_AddElement
  <2>6. Seen(r) = {b} \cup {a}
    BY <2>1, <2>2
  <2> QED BY <1>2, <2>5, <2>6
<1> QED BY <1>3, <1>4

\* An untouched file is traced as any function of it may be.
LEMMA UntouchedTrace ==
  ASSUME NEW code, Untouched(code), NEW f
  PROVE  SessionTrace(code, f) /\ TaskTrace(code, f)
<1>1. Where(code, {"tracer"}) = {} /\ Where(code, TracerCalls) = {} /\ Where(code, {"register"}) = {}
  BY DEF Untouched, CekuraLines, Where
<1> QED BY <1>1 DEF SessionTrace, TaskTrace

\* In a supported repository that place is the entrypoint.
LEMMA TrailAnchored ==
  ASSUME NEW r, WellFormed(r), Supported(r), Trail(r), NEW fw, fw = Framework(r)
  PROVE  \E e : /\ fw \in {"livekit", "pipecat"} /\ Entries(r, fw) = {e} /\ e.framework = fw
                /\ Anchored(r, e.file, e.fn, fw)
<1>1. fw \in {"livekit", "pipecat"}
  BY SupportedIs DEF SupportedFacts
<1>2. PICK e : Entries(r, fw) = {e}
  BY OneEntry
<1>3. e \in Entries(r, fw) /\ e.framework = fw
  BY <1>2 DEF Entries
<1>4. e.file \in DOMAIN r.code
  BY <1>3, EntryIs DEF EntryAt
<1>5. Seen(r) = {fw}
  BY <1>1, SeenOne
<1>6. CASE \A file \in DOMAIN r.code : Untouched(r.code[file])
  <2>1. SessionTrace(r.code[e.file], e.fn) /\ TaskTrace(r.code[e.file], e.fn)
    BY <1>4, <1>6, UntouchedTrace
  <2>2. \A d \in Entries(r, fw) : d.file = e.file /\ d.fn = e.fn
    BY <1>2
  <2>3. Anchored(r, e.file, e.fn, fw)
    BY <1>4, <1>5, <1>6, <2>1, <2>2 DEF Anchored
  <2> QED BY <1>1, <1>2, <1>3, <2>3
<1>7. CASE \E file, f, w : Anchored(r, file, f, w)
  <2>1. PICK file, f, w : Anchored(r, file, f, w)
    BY <1>7
  <2>2. w = fw
    BY <1>5, <2>1 DEF Anchored
  <2>3. e.file = file /\ e.fn = f
    BY <1>3, <2>1, <2>2 DEF Anchored
  <2>4. Anchored(r, e.file, e.fn, fw)
    BY <2>1, <2>2, <2>3
  <2> QED BY <1>1, <1>2, <1>3, <2>4
<1> QED BY <1>6, <1>7 DEF Trail

-----------------------------------------------------------------------------
(* What verify passes is traced                                            *)

\* What is in sight of verify: the file with a call has a tracer, and the names it uses.
InSight(code) ==
  /\ Where(code, {"tracer"}) # {}
  /\ \A module \in {"os"} \cup Tracers :
        (module \in Tracers => \E t \in Where(code, {"tracer"}) : code[t].name = module) =>
           \E i \in Where(code, {"import"}) : code[i].name = module /\ code[i].scope = {}

\* A LiveKit file that passes is traced in its entrypoint.
LEMMA SessionIsTraced ==
  ASSUME NEW code, CodeOk(code), NEW f, f \in Functions_(code), NEW mode \in Modes, SessionTrace(code, f), InSight(code),
         Where(code, TracerCalls) # {}, StartsIn(code, f) # {}, LiveKitFailures(code, mode) = {}
  PROVE  LiveKitTraced(code, f, mode)
<1>1. PICK call \in Where(code, TracerCalls) : TRUE
  OBVIOUS
<1>2. /\ call \in Where(code, SessionCalls) /\ f \in code[call].scope
      /\ \A s \in StartsIn(code, f) : code[s].name = code[call].name
  BY <1>1 DEF SessionTrace, Where
<1>3. PICK c \in CallsOf(code, SessionCalls) : c[1] = call /\ c[2] = f
  BY <1>2, CallIn
<1>4. code[call].op = CallFor(mode, SessionCalls)
  BY <1>3, OtherSession
<1>5. mode = "test" => "agent" \in code[call].has
  <2>1. mode = "test" => code[call].op = "track_session"
    BY <1>4, CallForIs
  <2> QED BY <1>3, <2>1, MissingAgent
<1>6. call \in InBody(code, f, {CallFor(mode, SessionCalls)})
  BY <1>2, <1>4 DEF InBody, Body, Where
<1> DEFINE starts == {i \in InBody(code, f, {"start"}) : code[i].name = code[call].name}
<1>7. starts # {}
  BY <1>2 DEF StartsIn
<1>8. ASSUME NEW i \in starts PROVE call < i
  <2>1. i \in Where(code, {"start"}) /\ f \in code[i].scope /\ code[i].name = code[call].name
    BY DEF InBody, Body
  <2>2. PICK s \in CallsOf(code, {"start"}) : s[1] = i /\ s[2] = f
    BY <2>1, CallIn
  <2>3. ~(call > i)
    BY <1>3, <2>1, <2>2, LateCall
  <2>4. call # i
    BY <1>2, <2>1 DEF Where, SessionCalls
  <2>5. call \in Nat /\ i \in Nat
    BY <1>2, <2>1 DEF Where, CodeOk
  <2> QED BY <2>3, <2>4, <2>5
<1> HIDE DEF starts
<1>9. PICK t \in Where(code, {"tracer"}) : TRUE
  BY DEF InSight
<1>10. /\ code[t].name = "LiveKitTracer" /\ code[t].scope = {}
       /\ \A i \in Where(code, {"import"}) : code[i].scope = {} => i < t
  BY <1>9 DEF SessionTrace
<1>11. Bound(code, "os", t) /\ Bound(code, "LiveKitTracer", t)
  <2>1. ASSUME NEW module \in {"os", "LiveKitTracer"} PROVE Bound(code, module, t)
    <3>1. PICK i \in Where(code, {"import"}) : code[i].name = module /\ code[i].scope = {}
      BY <1>10 DEF InSight, Tracers
    <3>2. i < t
      BY <1>10, <3>1
    <3> QED BY <1>10, <3>1, <3>2 DEF Bound
  <2> QED BY <2>1
<1>12. \E call_ \in InBody(code, f, {CallFor(mode, SessionCalls)}) :
         LET S == {i \in InBody(code, f, {"start"}) : code[i].name = code[call_].name}
         IN  /\ S # {} /\ \A i \in S : call_ < i
             /\ mode = "test" => "agent" \in code[call_].has
             /\ \E t_ \in Where(code, {"tracer"}) :
                  /\ code[t_].name = "LiveKitTracer" /\ code[t_].scope = {}
                  /\ Bound(code, "os", t_) /\ Bound(code, "LiveKitTracer", t_)
  BY <1>5, <1>6, <1>7, <1>8, <1>9, <1>10, <1>11 DEF starts
<1> QED BY <1>12 DEF LiveKitTraced

\* A Pipecat file that passes is traced in its entrypoint.
LEMMA TaskIsTraced ==
  ASSUME NEW code, CodeOk(code), NEW f, f \in Functions_(code), NEW mode \in Modes, TaskTrace(code, f), InSight(code),
         Where(code, TracerCalls) # {}, Cardinality(Where(code, TracerCalls)) <= 1, PipecatFailures(code, mode) = {}
  PROVE  PipecatTraced(code, f, mode)
<1>1. PICK w \in Where(code, TracerCalls) : TRUE
  OBVIOUS
<1>2. /\ code[w].op \in CreateCalls \cup WrapCalls /\ code[w].scope = {f} /\ f \in code[w].scope /\ w \in DOMAIN code
      /\ \A k \in Where(code, {"task"}) : w < k /\ code[k].scope = {f}
  BY <1>1 DEF TaskTrace, Where
<1>3. PICK t \in Where(code, {"tracer"}) : TRUE
  BY DEF InSight
<1>4. code[t].name = "PipecatTracer" /\ code[t].scope = {f} /\ t < w
  BY <1>1, <1>3 DEF TaskTrace
<1>5. t \in InBody(code, f, {"tracer"})
  BY <1>3, <1>4 DEF InBody, Body, Where
<1>6. Bound(code, "os", t) /\ Bound(code, "PipecatTracer", t)
  <2>1. ASSUME NEW module \in {"os", "PipecatTracer"} PROVE Bound(code, module, t)
    <3>1. PICK i \in Where(code, {"import"}) : code[i].name = module /\ code[i].scope = {}
      BY <1>3, <1>4 DEF InSight, Tracers
    <3> QED BY <1>4, <3>1 DEF Bound
  <2> QED BY <2>1
<1>7. TracerInits(code, "PipecatTracer") # {}
  BY <1>3, <1>4 DEF TracerInits
<1>8. code[w].op \in {CallFor(mode, CreateCalls), CallFor(mode, WrapCalls)}
  <2>1. w \in Where(code, CreateCalls) \/ w \in Where(code, WrapCalls)
    BY <1>2 DEF Where
  <2>2. PICK c \in CallsOf(code, CreateCalls) \cup CallsOf(code, WrapCalls) : c[1] = w
    BY <1>2, <2>1, CallIn
  <2> QED BY <1>7, <2>2, OtherTask
<1>9. CASE code[w].op = CallFor(mode, CreateCalls)
  <2>1. w \in InBody(code, f, {CallFor(mode, CreateCalls)})
    BY <1>2, <1>9 DEF InBody, Body, Where
  <2> QED BY <1>4, <1>5, <1>6, <2>1 DEF PipecatTraced
<1>10. CASE code[w].op = CallFor(mode, WrapCalls)
  <2> DEFINE S == Where(code, {"task"})
             last == LastWalked(code, S)
  <2>1. w \in Where(code, WrapCalls) /\ w \in InBody(code, f, {CallFor(mode, WrapCalls)})
    BY <1>2, <1>10, CallForIs DEF InBody, Body, Where
  <2>2. CallsOf(code, WrapCalls) # {}
    BY <1>2, <2>1, CallIn
  <2>3. CallsOf(code, CreateCalls) = {}
    <3> SUFFICES ASSUME NEW c \in CallsOf(code, CreateCalls) PROVE FALSE
      OBVIOUS
    <3>1. c[1] \in Where(code, CreateCalls) /\ c[1] \in Where(code, TracerCalls)
      BY DEF CallsOf, Where, TracerCalls
    <3>2. c[1] = w
      BY <3>1, <1>1, CallsAreFinite, AtMostOne
    <3> QED BY <2>1, <3>1, <3>2 DEF Where, CreateCalls, WrapCalls
  <2>4. S # {} /\ {"enable_tracing", "enable_turn_tracking"} \subseteq code[last].has
    BY <1>7, <2>2, <2>3, MissingFlags
  <2>5. last \in S
    BY <2>4, LastWalkedIs DEF Where
  <2>6. w < last /\ code[last].scope = {f} /\ last \in DOMAIN code
    BY <1>2, <2>5 DEF Where
  <2>7. CallsOf(code, {"register"}) # {} /\ ~\E g \in CallsOf(code, {"register"}) : g[1] < last
    BY <1>7, <2>2, <2>3, <2>4, EarlyHandlers
  <2>8. PICK c \in CallsOf(code, {"register"}) : ~(c[1] < last)
    BY <2>7
  <2> DEFINE g == c[1]
  <2>9. g \in Where(code, {"register"}) /\ code[g].scope = {f}
    BY DEF CallsOf, TaskTrace
  <2>10. last < g
    <3>1. code[last].op = "task" /\ code[g].op = "register"
      BY <2>5, <2>9 DEF Where
    <3>2. g \in Nat /\ last \in Nat
      BY <2>6, <2>9 DEF Where, CodeOk
    <3> HIDE DEF g, last
    <3> QED BY <2>8, <3>1, <3>2 DEF g
  <2>11. last \in InBody(code, f, {"task"}) /\ g \in InBody(code, f, {"register"})
    BY <2>5, <2>6, <2>9 DEF InBody, Body, Where
  <2> HIDE DEF last, g, S
  <2> QED BY <1>4, <1>5, <1>6, <2>1, <2>4, <2>6, <2>10, <2>11 DEF PipecatTraced
<1> QED BY <1>8, <1>9, <1>10

\* No file of a repository whose integration is in sight is unreadable.
LEMMA InSightLegible ==
  ASSUME NEW r, WellFormed(r), NamesAll(r), ~OutOfSight(r)
  PROVE  Legible(r)
<1>1. Misplaced(r) \cap Python = {}
  BY Zenon DEF OutOfSight
<1>2. ASSUME NEW f \in DOMAIN r.code PROVE Readable(r, f)
  <2>1. f \in Python /\ Parses(r.code[f])
    BY NamedParses DEF WellFormed
  <2>2. "garbage" \notin TextOf(r, f)
    BY <1>1, <2>1 DEF Misplaced, TextOf
  <2> QED BY <2>1, <2>2 DEF Readable
<1> QED BY <1>2 DEF Legible

\* A repository that verify passes is traced, but for what is out of its sight.
LEMMA PassedIsTraced ==
  ASSUME NEW r, WellFormed(r), Legible(r), TracedOnce(r), Trail(r), NEW mode \in Modes, VerifyFailures(r, mode) = {}, ~OutOfSight(r)
  PROVE  Traced(r, mode)
<1>1. Supported(r) /\ CollectChecks(r, TracerFiles(r), mode) = {}
  <2>1. TracerFiles(r) # {}
    BY DEF VerifyFailures
  <2>2. Failing({<<"topology_supported", ~Supported(r)>>}) = {} /\ CollectChecks(r, TracerFiles(r), mode) = {}
    BY <2>1 DEF VerifyFailures
  <2>3. PICK p : p = ~Supported(r)
    OBVIOUS
  <2>4. Supported(r)
    <3> SUFFICES ASSUME ~Supported(r) PROVE FALSE
      OBVIOUS
    <3>1. <<"topology_supported", TRUE>> \in {<<"topology_supported", ~Supported(r)>>}
      OBVIOUS
    <3>2. "topology_supported" \in Failing({<<"topology_supported", ~Supported(r)>>})
      BY <3>1, FailingIs
    <3> QED BY <2>2, <3>2
  <2> QED BY <2>2, <2>4
<1>2. PICK fw : fw = Framework(r)
  OBVIOUS
<1>3. PICK e : /\ fw \in {"livekit", "pipecat"} /\ Entries(r, fw) = {e} /\ e.framework = fw
               /\ Anchored(r, e.file, e.fn, fw)
  BY <1>1, <1>2, TrailAnchored
<1> DEFINE file == e.file
           f == e.fn
           code == r.code[file]
<1>4. file \in DOMAIN r.code /\ CodeOk(code)
  BY <1>3, FileIs DEF Anchored
<1>5. \A g \in DOMAIN r.code : g # file => Where(r.code[g], TracerCalls) = {} /\ Where(r.code[g], {"tracer"}) = {}
  BY <1>3 DEF Anchored, Untouched, CekuraLines, Where
<1>6. Where(code, TracerCalls) # {} /\ Where(code, {"tracer"}) # {}
  <2>1. \E g \in DOMAIN r.code : Where(r.code[g], TracerCalls) # {}
    BY DEF OutOfSight
  <2>2. \E g \in DOMAIN r.code : Where(r.code[g], {"tracer"}) # {}
    BY DEF OutOfSight
  <2> QED BY <1>5, <2>1, <2>2
<1>7. InSight(code)
  <2>1. ASSUME NEW module \in {"os"} \cup Tracers,
               module \in Tracers => \E t \in Where(code, {"tracer"}) : code[t].name = module
        PROVE  \E i \in Where(code, {"import"}) : code[i].name = module /\ code[i].scope = {}
    <3>1. ~(/\ Where(r.code[file], TracerCalls) # {}
            /\ module \in Tracers => \E i \in Where(r.code[file], {"tracer"}) : r.code[file][i].name = module
            /\ ~\E i \in Where(r.code[file], {"import"}) : r.code[file][i].name = module /\ r.code[file][i].scope = {})
      <4> DEFINE P(g, n) == /\ Where(r.code[g], TracerCalls) # {}
                            /\ n \in Tracers => \E i \in Where(r.code[g], {"tracer"}) : r.code[g][i].name = n
                            /\ ~\E i \in Where(r.code[g], {"import"}) : r.code[g][i].name = n /\ r.code[g][i].scope = {}
      <4>1. ~\E g \in DOMAIN r.code, n \in {"os"} \cup Tracers : P(g, n)
        BY Zenon DEF OutOfSight
      <4> HIDE DEF P
      <4>2. ~P(file, module)
        BY <1>4, <4>1
      <4> QED BY <4>2 DEF P
    <3> QED BY <1>6, <2>1, <3>1
  <2> HIDE DEF code
  <2> QED BY <1>6, <2>1 DEF InSight
<1>8. Cardinality(Where(code, TracerCalls)) = 1
  BY <1>4, <1>6, OneCall
<1>9. f \in Functions_(code)
  <2>1. e \in Entries(r, fw)
    BY <1>3
  <2> QED BY <2>1, EntryIs DEF EntryAt, Functions_
<1>10. ASSUME NEW t \in Where(code, {"tracer"}), code[t].name \in Tracers
       PROVE  FileChecks(code, mode) = {} /\ Mentions(code, code[t].name)
  <2>1. Mentions(code, code[t].name)
    BY DEF Mentions, Where
  <2>2. file \in TracerFiles(r)
    BY <1>4, <1>10, <2>1 DEF TracerFiles
  <2>3. Readable(r, file)
    BY <1>4 DEF Legible
  <2> QED BY <1>1, <2>1, <2>2, <2>3, NoFailures
<1>11. e \in {d \in Entries(r, Framework(r)) : "cekura" \notin TextOf(r, d.file)}
  <2>1. e \in Entries(r, Framework(r))
    BY <1>2, <1>3
  <2>2. Misplaced(r) \cap Python = {}
    BY Zenon DEF OutOfSight
  <2>3. file \in Python /\ file \notin ToSet(Manifests)
    BY <1>4, ManifestsAre DEF WellFormed
  <2>4. "cekura" \notin TextOf(r, file)
    BY <2>2, <2>3 DEF Misplaced, TextOf
  <2> QED BY <2>1, <2>4
<1>12. CASE fw = "livekit"
  <2>1. SessionTrace(code, f)
    BY <1>3, <1>12 DEF Anchored
  <2>2. LiveKitFailures(code, mode) = {}
    <3>1. PICK t \in Where(code, {"tracer"}) : code[t].name = "LiveKitTracer"
      BY <1>6, <2>1 DEF SessionTrace
    <3> QED BY <1>10, <3>1 DEF FileChecks, Tracers
  <2>3. StartsIn(code, f) # {}
    BY <1>1, <1>2, <1>3, <1>12, SupportedIs DEF SupportedFacts
  <2> HIDE DEF code, f
  <2>4. LiveKitTraced(code, f, mode)
    BY <1>4, <1>6, <1>7, <1>9, <2>1, <2>2, <2>3, SessionIsTraced
  <2> QED BY <1>3, <1>8, <1>12, <1>11, <2>4 DEF Traced, code, f
<1>13. CASE fw = "pipecat"
  <2>1. TaskTrace(code, f)
    BY <1>3, <1>13 DEF Anchored
  <2>2. PipecatFailures(code, mode) = {}
    <3>1. PICK t \in Where(code, {"tracer"}) : code[t].name = "PipecatTracer"
      BY <1>6, <2>1 DEF TaskTrace
    <3> QED BY <1>10, <3>1 DEF FileChecks, Tracers
  <2>3. Cardinality(Where(code, TracerCalls)) <= 1
    BY <1>8
  <2> HIDE DEF code, f
  <2>4. PipecatTraced(code, f, mode)
    BY <1>4, <1>6, <1>7, <1>9, <2>1, <2>2, <2>3, TaskIsTraced
  <2>5. fw # "livekit"
    BY <1>13
  <2> QED BY <1>3, <1>8, <1>11, <2>4, <2>5 DEF Traced, code, f
<1> QED BY <1>3, <1>12, <1>13

-----------------------------------------------------------------------------
(* What integrate writes is of one place                                   *)

\* A session start that is kept is one of the same function before.
LEMMA KeptStart ==
  ASSUME NEW code, NEW out, NEW old, NEW ops, Keeps(code, out, old, ops), {"start", "session"} \subseteq ops, NEW f,
         NEW j \in StartsIn(out, f)
  PROVE  \E i \in StartsIn(code, f) : out[j] = code[i]
<1>1. /\ j \in InBody(out, f, {"start"})
      /\ \/ \E k \in InBody(out, f, {"session"}) : out[j].name = out[k].name
         \/ out[j].has \cap {"agent", "room"} # {}
  BY DEF StartsIn
<1>2. PICK i \in InBody(code, f, {"start"}) : out[j] = code[i]
  BY <1>1, KeptBody
<1>3. ASSUME NEW k \in InBody(out, f, {"session"}), out[j].name = out[k].name
      PROVE  \E l \in InBody(code, f, {"session"}) : code[i].name = code[l].name
  <2>1. PICK l \in InBody(code, f, {"session"}) : out[k] = code[l]
    BY KeptBody
  <2> QED BY <1>2, <1>3, <2>1
<1>4. i \in StartsIn(code, f)
  BY <1>1, <1>2, <1>3 DEF StartsIn
<1> QED BY <1>2, <1>4

\* Functions still start sessions of one name.
LEMMA StillOneName ==
  ASSUME NEW code, NEW out, NEW old, NEW ops, Keeps(code, out, old, ops), {"def", "start", "session"} \subseteq ops,
         OneEach(code), NEW f \in Functions_(out), NEW i \in StartsIn(out, f), NEW j \in StartsIn(out, f)
  PROVE  out[i].name = out[j].name
<1>1. PICK k \in Where(out, {"def"}) : f = out[k].name
  BY DEF Functions_
<1>2. k \in Where(out, ops)
  BY DEF Where
<1>3. PICK l \in Where(code, ops) : out[k] = code[l]
  BY <1>2 DEF Keeps
<1>4. f \in Functions_(code)
  BY <1>1, <1>3 DEF Functions_, Where
<1>5. PICK x \in StartsIn(code, f) : out[i] = code[x]
  BY KeptStart
<1>6. PICK y \in StartsIn(code, f) : out[j] = code[y]
  BY KeptStart
<1> QED BY <1>4, <1>5, <1>6 DEF OneEach

\* The tracer of a LiveKit file is below the imports of the module.
LEMMA ImportsAbove ==
  ASSUME NEW r, NEW mode, NEW file, NEW out, NEW start, NEW at, NEW n, NEW H, NEW d, NEW L,
         NEW old, NEW head, NEW new, LiveKitEdit(r, mode, file, out, start, at, n, H, d, L, old, head, new),
         NEW f, SessionTrace(r.code[file], f),
         NEW t \in Where(out, {"tracer"})
  PROVE  /\ out[t].name = "LiveKitTracer" /\ out[t].scope = {}
         /\ \A i \in Where(out, {"import"}) : out[i].scope = {} => i < t
<1> DEFINE code == r.code[file]
<1>1. /\ CodeOk(code) /\ Edited(code, out, n, H, at, d, L, old, head, new) /\ d = 0 /\ d \in {0, 1}
      /\ LiveKitLines(code, at, SessionAction(mode), H, L) /\ n = ImportInsertionLine(code) /\ at \in DOMAIN code
  BY DEF LiveKitEdit, LiveKitAnchor, InBody, Where
<1>2. SessionTrace(code, f)
  OBVIOUS
<1> HIDE DEF code
<1>3. /\ n \in 1..(Len(code) + 1)
      /\ \A i \in Where(code, {"import"}) : code[i].scope = {} => i < n
      /\ n = 1 \/ \E i \in Where(code, {"import"}) : code[i].scope = {} /\ n = i + 1
  BY <1>1, InsertionLineIs DEF CodeOk
<1>4. /\ H \in Seq(Lines) /\ Len(H) \in Nat /\ Len(H) # 0 /\ \A k \in 1..(Len(H) - 1) : H[k].op = "import"
      /\ H[Len(H)].op = "tracer" /\ H[Len(H)].name = "LiveKitTracer" /\ H[Len(H)].scope = {}
      /\ \A k \in 1..Len(L) : L[k].op \in SessionCalls
  BY <1>1 DEF LiveKitLines, ImportFor, SessionCalls
<1>5. /\ DOMAIN code = 1..Len(code) /\ Len(code) \in Nat /\ Placed(Len(code), Len(H), Len(L), n, at, d, old, head, new)
  BY <1>1 DEF CodeOk, Edited
<1>6. ASSUME NEW j \in DOMAIN out, NEW op \in {"import", "tracer"}, out[j].op = op
      PROVE  \/ \E i \in Where(code, {op}) : j = old[i] /\ out[j] = code[i]
             \/ op = "tracer" /\ j = head[Len(H)] /\ out[j] = H[Len(H)]
             \/ op = "import" /\ \E k \in 1..(Len(H) - 1) : j = head[k]
  <2>1. ComesFrom(code, out, at, d, H, L, old, head, new, j)
    BY <1>1, EditedIs
  <2>2. CASE \E i \in DOMAIN code : j = old[i] /\ out[j] = code[i]
    BY <1>6, <2>2 DEF Where
  <2>3. CASE \E k \in 1..Len(H) : j = head[k] /\ out[j] = H[k]
    <3>1. PICK k \in 1..Len(H) : j = head[k] /\ out[j] = H[k]
      BY <2>3
    <3>2. k = Len(H) \/ k \in 1..(Len(H) - 1)
      BY <1>4
    <3>3. CASE k = Len(H)
      BY <1>4, <1>6, <3>1, <3>3
    <3>4. CASE k \in 1..(Len(H) - 1)
      BY <1>4, <1>6, <3>1, <3>4
    <3> QED BY <3>2, <3>3, <3>4
  <2>4. ~\E k \in 1..Len(L) : out[j] = L[k]
    BY <1>4, <1>6 DEF SessionCalls
  <2> QED BY <2>1, <2>2, <2>3, <2>4 DEF ComesFrom
<1>7. t \in DOMAIN out /\ out[t].op = "tracer"
  BY DEF Where
<1>8. \/ \E x \in Where(code, {"tracer"}) : t = old[x] /\ out[t] = code[x]
      \/ t = head[Len(H)] /\ out[t] = H[Len(H)]
  BY <1>6, <1>7
<1>9. out[t].name = "LiveKitTracer" /\ out[t].scope = {}
  BY <1>2, <1>4, <1>8 DEF SessionTrace
<1>10. ASSUME NEW i \in Where(out, {"import"}), out[i].scope = {} PROVE i < t
  <2>1. i \in DOMAIN out /\ out[i].op = "import"
    BY DEF Where
  <2>2. \/ \E x \in Where(code, {"import"}) : i = old[x] /\ out[i] = code[x]
        \/ \E k \in 1..(Len(H) - 1) : i = head[k]
    BY <1>6, <2>1
  <2>3. ASSUME NEW x \in Where(code, {"tracer"}), t = old[x] PROVE i < t
    <3>1. x \in 1..Len(code) /\ n <= x
      BY <1>2, <1>3, <1>5 DEF SessionTrace, Where
    <3>2. ASSUME NEW y \in Where(code, {"import"}), i = old[y], out[i] = code[y] PROVE i < t
      <4>1. y \in 1..Len(code) /\ y < x
        BY <1>2, <1>5, <1>10, <3>2 DEF SessionTrace, Where
      <4> QED BY <1>5, <2>3, <3>1, <3>2, <4>1 DEF Placed
    <3>3. ASSUME NEW k \in 1..(Len(H) - 1), i = head[k] PROVE i < t
      <4>1. k \in 1..Len(H)
        BY <1>4
      <4> QED BY <1>5, <2>3, <3>1, <3>3, <4>1 DEF Placed
    <3> QED BY <2>2, <3>2, <3>3
  <2>4. CASE t = head[Len(H)]
    <3>1. Len(H) \in 1..Len(H)
      BY <1>4
    <3>2. ASSUME NEW y \in Where(code, {"import"}), i = old[y], out[i] = code[y] PROVE i < t
      <4>1. y \in 1..Len(code) /\ y < n
        BY <1>3, <1>5, <1>10, <3>2 DEF Where
      <4> QED BY <1>5, <2>4, <3>1, <3>2, <4>1 DEF Placed
    <3>3. ASSUME NEW k \in 1..(Len(H) - 1), i = head[k] PROVE i < t
      <4>1. k \in 1..Len(H) /\ k < Len(H)
        BY <1>4
      <4> QED BY <1>5, <2>4, <3>1, <3>3, <4>1 DEF Placed
    <3> QED BY <2>2, <3>2, <3>3
  <2> QED BY <1>8, <2>3, <2>4
<1> QED BY <1>9, <1>10

\* A LiveKit file that integrate wrote is traced in one function.
LEMMA SessionTraced ==
  ASSUME NEW r, NEW mode \in Modes, NEW file, NEW out, NEW start, NEW at, NEW n, NEW H, NEW d, NEW L,
         NEW old, NEW head, NEW new, LiveKitEdit(r, mode, file, out, start, at, n, H, d, L, old, head, new),
         NEW f, f = start.fn, SessionTrace(r.code[file], f), OneEach(r.code[file]),
         CodeOk(out), Cardinality(Where(out, TracerCalls)) <= 1
  PROVE  SessionTrace(out, f) /\ OneEach(out)
<1> DEFINE code == r.code[file]
<1>1. PICK call, t : SessionLines(code, out, at, d, mode, old, call, t)
  BY SessionLinesAre
<1>2. /\ at \in InBody(code, f, {"start"}) /\ code[at].name = code[start.line].name
      /\ f \in Functions_(code) /\ start.line \in StartsIn(code, f)
  BY DEF LiveKitEdit, LiveKitAnchor
<1>3. Keeps(code, out, old, LiveKitKept)
  BY LiveKitKeeps
<1>4. {"def", "start", "session", "task"} \subseteq LiveKitKept
  BY DEF LiveKitKept, Ops, SessionCalls
<1>5. \A x \in Where(out, {"tracer"}) :
        /\ out[x].name = "LiveKitTracer" /\ out[x].scope = {}
        /\ \A i \in Where(out, {"import"}) : out[i].scope = {} => i < x
  BY ImportsAbove
<1>6. OneEach(code)
  OBVIOUS
<1> HIDE DEF code
<1>7. ASSUME NEW c \in Where(out, TracerCalls)
      PROVE  /\ out[c].op \in SessionCalls /\ f \in out[c].scope
             /\ \A s \in StartsIn(out, f) : out[s].name = out[c].name
  <2>1. c = call /\ out[call].op = CallFor(mode, SessionCalls) /\ out[call].name = code[at].name
          /\ out[call].scope = code[at].scope
    BY <1>1 DEF SessionLines
  <2>2. out[c].op \in SessionCalls
    BY <2>1, CallForIs
  <2>3. f \in out[c].scope
    BY <1>2, <2>1 DEF InBody, Body
  <2>4. ASSUME NEW s \in StartsIn(out, f) PROVE out[s].name = out[c].name
    <3>1. PICK i \in StartsIn(code, f) : out[s] = code[i]
      BY <1>3, <1>4, KeptStart
    <3>2. code[i].name = code[start.line].name
      BY <1>2, <1>6 DEF OneEach
    <3> QED BY <1>2, <2>1, <3>1, <3>2
  <2> QED BY <2>2, <2>3, <2>4
<1>8. SessionTrace(out, f)
  BY <1>5, <1>7 DEF SessionTrace
<1>9. \A g \in Functions_(out) : \A i, j \in StartsIn(out, g) : out[i].name = out[j].name
  BY <1>3, <1>4, <1>6, StillOneName
<1>10. ASSUME NEW i \in Where(out, {"task"}), NEW j \in Where(out, {"task"}) PROVE i = j
  <2>1. i \in Where(out, LiveKitKept) /\ j \in Where(out, LiveKitKept) /\ out[i].op = "task" /\ out[j].op = "task"
    BY <1>4 DEF Where
  <2>2. PICK x \in Where(code, LiveKitKept) : i = old[x] /\ out[i] = code[x]
    BY <1>3, <2>1 DEF Keeps
  <2>3. PICK y \in Where(code, LiveKitKept) : j = old[y] /\ out[j] = code[y]
    BY <1>3, <2>1 DEF Keeps
  <2>4. x \in Where(code, {"task"}) /\ y \in Where(code, {"task"})
    BY <2>1, <2>2, <2>3 DEF Where
  <2>5. x = y
    BY <1>6, <2>4 DEF OneEach
  <2> QED BY <2>2, <2>3, <2>5
<1>11. OneEach(out)
  BY <1>9, <1>10 DEF OneEach
<1> QED BY <1>8, <1>11

\* The task that a Pipecat agent is traced at is in its entrypoint only.
LEMMA TaskScope ==
  ASSUME NEW r, WellFormed(r), NEW file, NEW task, NEW at, PipecatAnchor(r, file, task, at),
         NEW f, \A e \in Entries(r, "pipecat") : e.fn = f
  PROVE  task.fn = f /\ r.code[file][at].scope = {f}
<1> DEFINE code == r.code[file]
<1>1. /\ file \in DOMAIN r.code /\ file \notin ScannerTests /\ Readable(r, file)
      /\ at \in TasksIn(code, task.fn) /\ task.fn = f
  BY DEF PipecatAnchor
<1>2. at \in Where(code, {"task", "pipeline_worker"} \cup CreateCalls) /\ f \in code[at].scope /\ at \in DOMAIN code
  BY <1>1 DEF TasksIn, InBody, Body, Where
<1>3. code[at].scope \subseteq Functions_(code)
  BY <1>1, <1>2 DEF WellFormed
<1>4. ASSUME NEW g \in code[at].scope PROVE g = f
  <2>1. PICK i \in Where(code, {"def"}) : g = code[i].name
    BY <1>3 DEF Functions_
  <2>2. at \in TasksIn(code, g)
    BY <1>2 DEF TasksIn, InBody, Body
  <2>3. PICK fw : fw = "pipecat"
    OBVIOUS
  <2>4. EntryAt(r, fw, file, i)
    BY <1>1, <2>1, <2>2, <2>3 DEF EntryAt
  <2>5. PICK e \in Entries(r, fw) : e.fn = code[i].name
    BY <2>4, EntryIn
  <2> QED BY <2>1, <2>3, <2>5
<1>5. code[at].scope = {f}
  BY <1>2, <1>4
<1> QED BY <1>1, <1>5

\* A Pipecat file that integrate wrote is traced in one function.
LEMMA TaskTraced ==
  ASSUME NEW r, NEW mode \in Modes, NEW type, NEW file, NEW out, NEW task, NEW at, NEW n, NEW H, NEW d, NEW L,
         NEW old, NEW head, NEW new, PipecatEdit(r, mode, type, file, out, task, at, n, H, d, L, old, head, new),
         NEW f, r.code[file][at].scope = {f}, TaskTrace(r.code[file], f), OneEach(r.code[file]),
         \A i \in Where(r.code[file], {"tracer"}) : r.code[file][i].scope = {},
         CodeOk(out), Cardinality(Where(out, TracerCalls)) <= 1
  PROVE  TaskTrace(out, f) /\ OneEach(out)
<1> DEFINE code == r.code[file]
<1>1. PICK ini, call, job, reg : TaskLines(code, out, at, f, mode, type, old, ini, call, job, reg)
  BY TaskLinesAre
<1>2. Keeps(code, out, old, PipecatKept)
  BY PipecatKeeps
<1>3. {"def", "start", "session"} \subseteq PipecatKept
  BY DEF PipecatKept, Ops, CreateCalls, WrapCalls
<1>4. TaskTrace(code, f) /\ OneEach(code) /\ \A i \in Where(code, {"tracer"}) : code[i].scope = {}
  OBVIOUS
<1> HIDE DEF code
<1>5. /\ ini < call /\ Where(out, TracerCalls) = {call} /\ call \in DOMAIN out /\ out[call].scope = {f}
      /\ out[call].op = CallFor(mode, IF Multi(type) THEN WrapCalls ELSE CreateCalls)
      /\ out[ini].op = "tracer" /\ out[ini].name = "PipecatTracer" /\ out[ini].scope = {f}
      /\ Multi(type) => /\ out[job].op = "task" /\ out[job].scope = {f} /\ call < job
                        /\ out[reg].op = "register" /\ out[reg].scope = {f}
      /\ at \in DOMAIN code /\ code[at].op = "task"
  BY <1>1 DEF TaskLines
<1>6. out[call].op \in CreateCalls \cup WrapCalls
  BY <1>5, CallForIs
<1>7. \A j \in DOMAIN out : \/ out[j].op = "import"
                            \/ j = ini \/ j = call
                            \/ Multi(type) /\ (j = job \/ j = reg)
                            \/ \E i \in DOMAIN code \ {at} : j = old[i] /\ out[j] = code[i]
  BY <1>1 DEF TaskLines
<1>8. ASSUME NEW t \in Where(out, {"tracer"}) PROVE t = ini
  <2>1. t \in DOMAIN out /\ out[t].op = "tracer"
    BY DEF Where
  <2>2. ASSUME NEW i \in DOMAIN code, out[t] = code[i] PROVE FALSE
    <3>1. i \in Where(code, {"tracer"})
      BY <2>1, <2>2 DEF Where
    <3> QED BY <1>4, <3>1 DEF TaskTrace
  <2>3. t # call
    BY <1>6, <2>1 DEF CreateCalls, WrapCalls
  <2> QED BY <1>5, <1>7, <2>1, <2>2, <2>3
<1>9. ASSUME NEW k \in Where(out, {"task"}) PROVE Multi(type) /\ k = job
  <2>1. k \in DOMAIN out /\ out[k].op = "task"
    BY DEF Where
  <2>2. ASSUME NEW i \in DOMAIN code \ {at}, out[k] = code[i] PROVE FALSE
    <3>1. i \in Where(code, {"task"}) /\ at \in Where(code, {"task"})
      BY <1>5, <2>1, <2>2 DEF Where
    <3> QED BY <1>4, <3>1 DEF OneEach
  <2>3. k # call
    BY <1>6, <2>1 DEF CreateCalls, WrapCalls
  <2> QED BY <1>5, <1>7, <2>1, <2>2, <2>3
<1>10. ASSUME NEW g \in Where(out, {"register"}) PROVE out[g].scope = {f}
  <2>1. g \in DOMAIN out /\ out[g].op = "register"
    BY DEF Where
  <2>2. ASSUME NEW i \in DOMAIN code, out[g] = code[i] PROVE out[g].scope = {f}
    <3>1. i \in Where(code, {"register"})
      BY <2>1, <2>2 DEF Where
    <3> QED BY <1>4, <2>2, <3>1 DEF TaskTrace
  <2>3. g # call
    BY <1>6, <2>1 DEF CreateCalls, WrapCalls
  <2> QED BY <1>5, <1>7, <2>1, <2>2, <2>3
<1>11. TaskTrace(out, f)
  BY <1>5, <1>6, <1>8, <1>9, <1>10 DEF TaskTrace
<1>12. \A g \in Functions_(out) : \A i, j \in StartsIn(out, g) : out[i].name = out[j].name
  BY <1>2, <1>3, <1>4, StillOneName
<1>13. OneEach(out)
  BY <1>9, <1>12 DEF OneEach
<1> QED BY <1>11, <1>13

\* An integration leaves lines of one place only.
LEMMA WrittenTrail ==
  ASSUME NEW r, NEW mode \in Modes, NEW q, WellFormed(r), TracedOnce(r), Supported(r), NamesAll(r), Trail(r),
         WellFormed(q), TracedOnce(q), NEW a, Carried(r, mode, q, a), Legible(r), Legible(q)
  PROVE  Trail(q)
<1> DEFINE file == a.file
           code == r.code[file]
           out == q.code[file]
<1>1. OnlyChanges(r, q, file) /\ ~Existing(r)
  BY DEF Carried
<1>2. file \in DOMAIN r.code /\ file \in DOMAIN q.code /\ DOMAIN q.code = DOMAIN r.code
  BY <1>1 DEF OnlyChanges
<1>3. CodeOk(out) /\ Cardinality(Where(out, TracerCalls)) <= 1 /\ Readable(r, file)
  BY <1>2, FileIs DEF TracedOnce, Legible
<1>4. PICK fw : fw = Framework(r)
  OBVIOUS
<1>5. PICK e : /\ fw \in {"livekit", "pipecat"} /\ Entries(r, fw) = {e} /\ e.framework = fw
               /\ Anchored(r, e.file, e.fn, fw)
  BY <1>4, TrailAnchored
<1>6. OneEach(code)
  BY <1>2 DEF Trail
<1>7. \A i \in Where(code, {"tracer"}) : code[i].scope = {}
  BY <1>1, <1>2, <1>3, NothingExisting
<1>8. SameGarbage(r, q)
  BY <1>2 DEF SameGarbage, Legible, Readable
\* What the two frameworks have in common.
<1>9. ASSUME NEW old, SameEntries(fw, r, q, file, old), KeepsFrameworks(code, out), Parses(out), e.file = file, OneEach(out),
             fw = "livekit" => SessionTrace(out, e.fn), fw = "pipecat" => TaskTrace(out, e.fn)
      PROVE  Trail(q)
  <2>1. PICK x : Entries(q, fw) = {x} /\ x.file = e.file /\ x.fn = e.fn
    BY <1>5, <1>9, StillOneEntry
  <2>2. Readable(q, file) /\ Framework(q) = fw
    BY <1>1, <1>2, <1>3, <1>4, <1>8, <1>9, SameFramework DEF Legible
  <2>3. Seen(q) = {fw}
    BY <1>4, <1>5, <2>2, SeenOne
  <2>4. \A g \in DOMAIN q.code : g # file => Untouched(q.code[g])
    BY <1>1, <1>2, <1>5, <1>9 DEF OnlyChanges, Anchored
  <2>5. Anchored(q, file, e.fn, fw)
    BY <1>2, <1>9, <2>1, <2>3, <2>4 DEF Anchored
  <2>6. \A g \in DOMAIN q.code : OneEach(q.code[g])
    BY <1>1, <1>2, <1>9 DEF Trail, OnlyChanges
  <2> QED BY <2>5, <2>6 DEF Trail
<1>10. CASE fw = "livekit"
  <2>1. PICK start, at, n, H, d, L, old, head, new :
           LiveKitEdit(r, mode, file, out, start, at, n, H, d, L, old, head, new)
    BY <1>4, <1>10, LiveKitEdits
  <2>2. PICK x \in Entries(r, fw) : x.file = file /\ x.fn = start.fn
    BY <1>10, <2>1 DEF LiveKitEdit, LiveKitAnchor
  <2>3. e.file = file /\ e.fn = start.fn
    BY <1>5, <2>2
  <2>4. SessionTrace(code, e.fn)
    BY <1>5, <1>10, <2>3 DEF Anchored
  <2>5. SameEntries(fw, r, q, file, old) /\ KeepsFrameworks(code, out) /\ Parses(out)
    BY <1>1, <1>8, <1>10, <2>1, LiveKitSame, LiveKitKeeps
  <2> HIDE DEF code, out, file
  <2>6. SessionTrace(out, e.fn) /\ OneEach(out)
    BY <1>3, <1>6, <2>1, <2>3, <2>4, SessionTraced DEF code, out, file
  <2> QED BY <1>9, <1>10, <2>3, <2>5, <2>6
<1>11. CASE fw = "pipecat"
  <2>1. PICK task, at, n, H, d, L, old, head, new :
           PipecatEdit(r, mode, a.type, file, out, task, at, n, H, d, L, old, head, new)
    BY <1>4, <1>11, PipecatEdits
  <2>2. PipecatAnchor(r, file, task, at)
    BY <2>1 DEF PipecatEdit
  <2>3. PICK x \in Entries(r, fw) : x.file = file /\ x.fn = task.fn
    BY <1>11, <2>2 DEF PipecatAnchor
  <2>4. e.file = file /\ e.fn = task.fn /\ \A y \in Entries(r, fw) : y.fn = e.fn
    BY <1>5, <2>3
  <2>5. TaskTrace(code, e.fn)
    BY <1>5, <1>11, <2>4 DEF Anchored
  <2>6. code[at].scope = {e.fn}
    BY <1>11, <2>2, <2>4, TaskScope
  <2>7. KeepsFrameworks(code, out) /\ Parses(out)
    BY <1>2, <2>1, PipecatKeeps DEF NamesAll
  <2>8. SameEntries(fw, r, q, file, old)
    BY <1>1, <1>8, <1>11, <2>1, <2>7, PipecatSame
  <2> HIDE DEF code, out, file
  <2>9. TaskTrace(out, e.fn) /\ OneEach(out)
    BY <1>3, <1>6, <1>7, <2>1, <2>5, <2>6, TaskTraced DEF code, out, file
  <2> QED BY <1>9, <1>11, <2>4, <2>7, <2>8, <2>9
<1> QED BY <1>5, <1>10, <1>11

-----------------------------------------------------------------------------
(* The inductive invariant of VerifySound                                  *)

\* A repository that integrate has not been in yet: no line of the SDK, and one
\* session or task to trace in a function or file.
Fresh(r) == NamesAll(r) /\ \A file \in DOMAIN r.code : OneEach(r.code[file]) /\ Untouched(r.code[file])

\* What verify has said, and where the lines of integrate are.
SoundInv == VerifyInv /\ (Legible(repo) => Trail(repo))

\* A repository loses a line as the customer deletes it.
LEMMA DeletedShrinks ==
  ASSUME NEW r, WellFormed(r), Legible(r), NEW file \in DOMAIN r.code, NEW i \in DOMAIN r.code[file],
         NEW q, q = [r EXCEPT !.code[file] = RemoveAt(@, i)]
  PROVE  Shrunk(r, q)
<1> DEFINE code == r.code[file]
           out == RemoveAt(code, i)
           m == [j \in DOMAIN out |-> IF j < i THEN j ELSE j + 1]
<1>1. Deleted(r, q, file, out)
  BY DeletedIs
<1>2. code \in Seq(Lines) /\ i \in DOMAIN code /\ \A g \in DOMAIN r.code : DOMAIN r.code[g] \subseteq Nat /\ Readable(r, g)
  BY FileIs DEF CodeOk, Legible
<1> HIDE DEF code
<1>3. /\ DOMAIN out = 1..(Len(code) - 1) /\ DOMAIN code = 1..Len(code) /\ Len(code) \in Nat
      /\ \A j \in 1..(i - 1) : out[j] = code[j]
      /\ \A j \in (i + 1)..Len(code) : out[j - 1] = code[j]
  BY <1>2, RemovedIs
<1> HIDE DEF out
<1>4. ASSUME NEW j \in DOMAIN out PROVE m[j] \in DOMAIN code /\ out[j] = code[m[j]]
  <2>1. CASE j < i
    BY <1>2, <1>3, <2>1
  <2>2. CASE ~(j < i)
    <3>1. j + 1 \in (i + 1)..Len(code) /\ j + 1 - 1 = j /\ m[j] = j + 1
      BY <1>2, <1>3, <2>2
    <3> QED BY <1>2, <1>3, <3>1
  <2> QED BY <2>1, <2>2
<1>5. \A j, k \in DOMAIN out : j < k => m[j] < m[k]
  BY <1>2, <1>3
<1>6. m \in [DOMAIN out -> DOMAIN code]
  BY <1>4
<1>7. DOMAIN out \subseteq Nat /\ DOMAIN code \subseteq Nat
  BY <1>3
<1> HIDE DEF m
<1>8. ShrunkBy(code, out, m)
  BY <1>4, <1>5, <1>6, <1>7 DEF ShrunkBy
<1>9. ASSUME NEW g \in DOMAIN r.code PROVE \E p : ShrunkBy(r.code[g], q.code[g], p)
  <2>1. CASE g = file
    BY <1>1, <1>8, <2>1 DEF Deleted, code
  <2>2. CASE g # file
    <3>1. q.code[g] = r.code[g]
      BY <1>1, <2>2 DEF Deleted
    <3> DEFINE p == [j \in DOMAIN r.code[g] |-> j]
    <3>2. ShrunkBy(r.code[g], q.code[g], p)
      BY <1>2, <3>1 DEF ShrunkBy
    <3> QED BY <3>2
  <2> QED BY <2>1, <2>2
<1> QED BY <1>1, <1>2, <1>9 DEF Shrunk, Deleted

\* A repository with the same code is as traced as before.
LEMMA SameCode ==
  ASSUME NEW r, WellFormed(r), Legible(r), Trail(r), NEW q, q.code = r.code
  PROVE  Trail(q)
<1>1. ASSUME NEW g \in DOMAIN r.code PROVE Readable(r, g) /\ \E p : ShrunkBy(r.code[g], q.code[g], p)
  <2>1. DOMAIN r.code[g] \subseteq Nat /\ Readable(r, g)
    BY FileIs DEF CodeOk, Legible
  <2> DEFINE p == [j \in DOMAIN r.code[g] |-> j]
  <2>2. ShrunkBy(r.code[g], q.code[g], p)
    BY <2>1 DEF ShrunkBy
  <2> QED BY <2>1, <2>2
<1>2. Shrunk(r, q)
  BY <1>1 DEF Shrunk
<1> QED BY <1>2, ShrunkTrail

\* A file that Python reads it has always read.
LEMMA LegibleAlways ==
  ASSUME NEW r, NamesAll(r), NEW q, DOMAIN q.code = DOMAIN r.code, TextsGrow(r, q), Legible(q)
  PROVE  Legible(r)
BY NamedParses DEF Legible, Readable, TextsGrow

\* SoundInv is inductive.
LEMMA StepIsSound == ASSUME SoundInv, [Next]_vars PROVE SoundInv'
<1>1. VerifyInv'
  BY StepVerifies DEF SoundInv
<1>2. WellFormed(repo) /\ TracedOnce(repo) /\ NamesAll(repo) /\ (Legible(repo) => Trail(repo))
  BY DEF SoundInv, VerifyInv, ReportInv, IInv
<1>3. CASE repo' = repo
  BY <1>1, <1>2, <1>3 DEF SoundInv
<1>4. ASSUME Patch, repo' # repo, Legible(repo') PROVE Trail(repo')
  <2> DEFINE after == Build(repo, cmd.mode, plan)
  <2>1. repo' = after /\ BuildVerdict(repo, plan) = "ok" /\ pc = "patch"
    BY <1>4 DEF Patch, Finish
  <2>2. Supported(repo) /\ Accepted(repo, cmd.mode, plan) /\ cmd.mode \in Modes
    BY <2>1 DEF SoundInv, VerifyInv, ReportInv, IInv, Accepted
  <2>3. TextsGrow(repo, repo')
    BY <2>1, BuildGrows
  <2> HIDE DEF after
  <2>4. PICK a : Carried(repo, cmd.mode, repo', a)
    BY <1>2, <1>4, <2>1, <2>2, CarriedOut DEF after
  <2>5. WellFormed(repo') /\ TracedOnce(repo')
    BY <1>1 DEF VerifyInv, ReportInv, IInv
  <2>6. Legible(repo)
    BY <1>2, <1>4, <2>3, <2>4, LegibleAlways DEF Carried, OnlyChanges
  <2> QED BY <1>2, <1>4, <2>2, <2>4, <2>5, <2>6, WrittenTrail
<1>5. ASSUME NEW file \in DOMAIN repo.code, NEW i \in DOMAIN repo.code[file], DeletesLine(file, i), Legible(repo')
      PROVE  Trail(repo')
  <2>1. repo' = [repo EXCEPT !.code[file] = RemoveAt(@, i)]
    BY <1>5 DEF DeletesLine, CustomerEdits
  <2>2. Deleted(repo, repo', file, RemoveAt(repo.code[file], i))
    BY <1>2, <2>1, DeletedIs
  <2>3. DOMAIN repo'.code = DOMAIN repo.code /\ TextsGrow(repo, repo')
    BY <2>2 DEF Deleted, TextsGrow, TextOf
  <2>4. Legible(repo)
    BY <1>2, <1>5, <2>3, LegibleAlways
  <2>5. Shrunk(repo, repo')
    BY <1>2, <2>1, <2>4, DeletedShrinks
  <2> QED BY <1>2, <2>4, <2>5, ShrunkTrail
<1>6. ASSUME NEW m \in ToSet(Manifests), AddsDependency(m), Legible(repo') PROVE Trail(repo')
  <2>1. PICK q : Added(repo, m, q) /\ CustomerEdits(q)
    BY <1>2, <1>6, AddsIs
  <2>2. repo' = q
    BY <2>1 DEF CustomerEdits
  <2>3. repo'.code = repo.code /\ TextsGrow(repo, repo')
    BY <2>1, <2>2 DEF Added, TextsGrow
  <2>4. Legible(repo)
    BY <1>2, <1>6, <2>3, LegibleAlways
  <2> QED BY <1>2, <2>3, <2>4, SameCode
<1>7. ASSUME repo' # repo, Legible(repo') PROVE Trail(repo')
  <2>1. StartIntegrate \/ Plan \/ Check \/ PreparePlatform \/ (\E mode \in Modes : VerifyRepo(mode)) \/ UNCHANGED vars
          => repo' = repo
    BY DEF StartIntegrate, Plan, Check, PreparePlatform, VerifyRepo, vars
  <2> QED BY <1>4, <1>5, <1>6, <1>7, <2>1 DEF Next
<1> QED BY <1>1, <1>3, <1>7 DEF SoundInv

\* verify passes no repository whose agent is not traced in the mode asked for,
\* but for what is out of its sight, after integrations in any modes and with any
\* accepted plans and after any lines were deleted (verify_repo,
\* verification/lifecycle.py), for all repositories without a line of the SDK at
\* first, with one session or task to trace in a function or file, and whose tasks
\* take their pipeline by name.
THEOREM VerifySoundHolds ==
  ASSUME \A r \in Repos : Fresh(r)
  PROVE  Spec => []VerifySound
<1>1. Init => SoundInv
  <2> SUFFICES ASSUME Init PROVE SoundInv
    OBVIOUS
  <2>1. IInv /\ Fresh(repo) /\ pc = "idle" /\ cmd.name = "none" /\ done = NoMode
    BY InitHolds DEF Init, NoCommand
  <2>2. NamesAll(repo) /\ Trail(repo)
    BY <2>1 DEF Fresh, Trail
  <2>3. NoStray(repo)
    <3>1. \A file \in DOMAIN repo.code : Where(repo.code[file], {"tracer"}) = {}
      BY <2>1 DEF Fresh, Untouched, CekuraLines, Where
    <3> QED BY <3>1 DEF NoStray, AtModuleScope, Where
  <2> QED BY <2>1, <2>2, <2>3 DEF ReportInv, VerifyInv, Integrated, SoundInv
<1>2. SoundInv /\ [Next]_vars => SoundInv'
  BY StepIsSound
<1>3. SoundInv => VerifySound
  <2> SUFFICES ASSUME SoundInv, cmd.name = "verify", ExitCode = 0, ~OutOfSight(repo) PROVE Traced(repo, cmd.mode)
    BY DEF VerifySound
  <2>1. failed = {} /\ failed = VerifyFailures(repo, cmd.mode) /\ cmd.mode \in Modes
    BY DEF SoundInv, VerifyInv, ReportInv, IInv, TypeOK, Commands, ExitCode
  <2>2. WellFormed(repo) /\ TracedOnce(repo) /\ NamesAll(repo)
    BY DEF SoundInv, VerifyInv, ReportInv, IInv
  <2>3. Legible(repo) /\ Trail(repo)
    BY <2>2, InSightLegible DEF SoundInv
  <2> QED BY <2>1, <2>2, <2>3, PassedIsTraced
<1> QED BY <1>1, <1>2, <1>3, PTL DEF Spec
=============================================================================
