------------------------------ MODULE Pipeline ------------------------------
(***************************************************************************)
(* The pure part of cekura-agent: what the scanner sees in a repository,   *)
(* the capability matrix, the reference planner, the plan validator, the   *)
(* adapters and the lifecycle verifiers, as operators on an abstract       *)
(* repository.  Integration.tla runs commands over them.                   *)
(*                                                                         *)
(* A repository is [code, deps].  code maps each Python file to its lines: *)
(*   [scope, op, name, has]                                                *)
(* where scope is the set of functions around the line (empty at module    *)
(* level, two functions for a nested one), op what the line does, name the *)
(* variable, function or module it is about, and has the keywords and      *)
(* other features it has.  Line numbers are positions, so that edits by    *)
(* line number mean what they mean in the code.  deps maps each dependency *)
(* manifest, and any other file a plan has appended lines to, to what it   *)
(* holds apart from code: a requirement of the "framework" or of "cekura", *)
(* "inline" for a pyproject array on one line, "garbage" for a line that   *)
(* the file's own reader rejects.                                          *)
(*                                                                         *)
(* Left out: .env.example, two spellings of one path, paths outside the    *)
(* repository (safety.py refuses them before anything is written),         *)
(* evidence that decides nothing (tools, variables, documents), literal    *)
(* API keys and other secrets, docstrings before imports, tasks with       *)
(* `**kwargs`.                                                             *)
(***************************************************************************)
EXTENDS Naturals, SequencesExt

CONSTANTS
    Manifests,      \* the paths of dependency manifests, in lexical order
    ScannerTests,   \* files whose path looks like a test to evidence.py
    MatrixTests,    \* files whose path looks like a test to capability.py
    PlanTests,      \* files whose path looks like a test to validate.py
    Paths,          \* the files that the parameters of a plan may name
    Python,         \* files that Python reads
    Tomls,          \* files whose path ends in .toml
    LookAlikes,     \* files that integrate_repo takes for manifests (orchestrator.py:206)
    Names           \* names of functions, variables and modules

Tracers == {"LiveKitTracer", "PipecatTracer"}

ASSUME ManifestsAssumption ==
    Manifests \in Seq(ToSet(Manifests)) /\ "requirements.txt" \in ToSet(Manifests)
\* What validate.py (28-31) takes for a test, evidence.py (63-65) does too.
ASSUME PathsAssumption == PlanTests \subseteq ScannerTests
ASSUME FilesAssumption ==
    /\ IsFiniteSet(Paths) /\ ToSet(Manifests) \subseteq Paths \cap LookAlikes
    /\ Tomls \subseteq LookAlikes /\ ToSet(Manifests) \cap Python = {}
ASSUME NamesAssumption == {"os", "cekura", "livekit", "pipecat"} \cup Tracers \subseteq Names

Modes == {"test", "observe"}
NoFile == "none"
ASSUME NoFileAssumption == NoFile \notin Paths
NoParam == ""

Line(scope, op, name, has) == [scope |-> scope, op |-> op, name |-> name, has |-> has]

\* The calls that make a session be traced, and what each is for.
SessionCalls == {"track_session", "observe_session"}
CreateCalls == {"track_and_create_task", "observe_and_create_task"}
WrapCalls == {"track_pipeline", "observe_pipeline"}
TracerCalls == SessionCalls \cup CreateCalls \cup WrapCalls
\* Mutant: the test-mode call is expected in every mode.
CallForTest(mode, calls) ==
    CHOOSE c \in calls : c \in {"track_session", "track_and_create_task", "track_pipeline"}

CallFor(mode, calls) ==
    CHOOSE c \in calls : (mode = "test") <=>
        (c \in {"track_session", "track_and_create_task", "track_pipeline"})

Ops == {"def", "import", "session", "start", "task", "pipeline_worker", "pipeline",
        "aggregators", "context", "direct_observe", "tracer", "register"} \cup TracerCalls
\* "enable_tracing" is the keyword with the constant True, "enable_tracing=other"
\* the keyword with False or with an expression; the same for the other flag.
Features == {"JobContext", "worker", "agent", "room", "pair", "inline", "params",
             "enable_tracing", "enable_tracing=other",
             "enable_turn_tracking", "enable_turn_tracking=other"}
Lines == [scope : SUBSET Names, op : Ops, name : Names, has : SUBSET Features]

-----------------------------------------------------------------------------
(***************************************************************************)
(* Reading code: ast.walk over a function meets a nested function's lines  *)
(* too, after its own.                                                     *)
(***************************************************************************)
Where(code, ops) == {i \in DOMAIN code : code[i].op \in ops}
Body(code, f) == {i \in DOMAIN code : f \in code[i].scope}
InBody(code, f, ops) == Where(code, ops) \cap Body(code, f)
Functions_(code) == {code[i].name : i \in Where(code, {"def"})}

WalkedBefore(code, i, j) ==
    \/ Cardinality(code[i].scope) < Cardinality(code[j].scope)
    \/ Cardinality(code[i].scope) = Cardinality(code[j].scope) /\ i < j
FirstWalked(code, S) == CHOOSE i \in S : \A j \in S \ {i} : WalkedBefore(code, i, j)
LastWalked(code, S) == CHOOSE i \in S : \A j \in S \ {i} : WalkedBefore(code, j, i)

\* The one thing in patched code that Python rejects: an expression as the
\* target of `<pipeline_arg> = tracer.track_pipeline(...)`.
Parses(code) == \A i \in Where(code, WrapCalls) : "inline" \notin code[i].has

TextOf(r, file) == IF file \in DOMAIN r.deps THEN r.deps[file] ELSE {}

\* ast.parse accepts the file; a new one has no code but what it was given.
Readable(r, file) ==
    "garbage" \notin TextOf(r, file) /\ (file \in DOMAIN r.code => Parses(r.code[file]))

-----------------------------------------------------------------------------
(***************************************************************************)
(* scanner/evidence.py                                                     *)
(***************************************************************************)
StartsIn(code, f) ==
    {i \in InBody(code, f, {"start"}) :
        \/ code[i].name \in {code[j].name : j \in InBody(code, f, {"session"})}
        \/ code[i].has \cap {"agent", "room"} # {}}

\* Mutant: a task made by the tracer is not recognised.
TasksInPlainOnly(code, f) == InBody(code, f, {"task", "pipeline_worker"})

TasksIn(code, f) == InBody(code, f, {"task", "pipeline_worker"} \cup CreateCalls)

Kwargs == {"params", "enable_tracing", "enable_tracing=other",
           "enable_turn_tracking", "enable_turn_tracking=other"}
HasCustomKwargs(line) == line.op = "pipeline_worker" \/ line.has \cap Kwargs # {}

\* The task evidence an entrypoint is described by: the last PipelineTask or
\* created task of the function, a PipelineWorker only without one.
TaskOfEntry(code, f) ==
    LET tasks == TasksIn(code, f) \ Where(code, {"pipeline_worker"})
    IN  LastWalked(code, IF tasks # {} THEN tasks ELSE TasksIn(code, f))

PairInPipeline(code, f) ==
    LET pipelines == InBody(code, f, {"pipeline"})
    IN  IF "inline" \in code[TaskOfEntry(code, f)].has \/ pipelines = {}
        THEN InBody(code, f, {"aggregators"}) # {}
        ELSE "pair" \in code[LastWalked(code, pipelines)].has
               /\ InBody(code, f, {"aggregators"}) # {}

IsLiveKitEntry(code, i) ==
    /\ "JobContext" \in code[i].has
    /\ "worker" \in code[i].has \/ StartsIn(code, code[i].name) # {}

Ev(kind, file, line, fn, fw) ==
    [kind |-> kind, file |-> file, line |-> line, fn |-> fn, framework |-> fw]

\* Mutant: tracer calls are not recognised.
FunctionEvidenceNoCalls(code, file, f) ==
         {Ev("session_start", file, i, f, "") : i \in StartsIn(code, f)}
    \cup {Ev("pipeline_task", file, i, f, "") : i \in TasksIn(code, f)}

FunctionEvidence(code, file, f) ==
         {Ev("session_start", file, i, f, "") : i \in StartsIn(code, f)}
    \cup {Ev("pipeline_task", file, i, f, "") : i \in TasksIn(code, f)}
    \cup {Ev("existing_cekura", file, i, f, "") :
              i \in InBody(code, f, TracerCalls \cup {"tracer"})}

FileEvidence(code, file) ==
    (UNION {FunctionEvidence(code, file, code[i].name) : i \in Where(code, {"def"})})
      \cup {Ev("entrypoint", file, i, code[i].name, "livekit") :
                i \in {j \in Where(code, {"def"}) : IsLiveKitEntry(code, j)}}
      \cup {Ev("entrypoint", file, i, code[i].name, "pipecat") :
                i \in {j \in Where(code, {"def"}) : TasksIn(code, code[j].name) # {}}}
      \cup {Ev("framework_import", file, i, "", code[i].name) :
                i \in {j \in Where(code, {"import"}) : code[j].name \in {"livekit", "pipecat"}}}
      \cup {Ev("existing_cekura", file, i, "", "") :
                i \in {j \in Where(code, {"import"}) : code[j].name \in Tracers \cup {"cekura"}}}
      \cup {Ev("direct_observe", file, i, "", "") : i \in Where(code, {"direct_observe"})}

\* Requirements files are read line by line, pyproject.toml all or not at all.
ManifestEvidence(r) ==
    {Ev("dependency", m, 1, "", "") :
        m \in {n \in ToSet(Manifests) :
                  /\ TextOf(r, n) \cap {"framework", "cekura"} # {}
                  /\ n \in Tomls => "garbage" \notin TextOf(r, n)}}

Evidence(r) ==
    (UNION {FileEvidence(r.code[file], file) : file \in {f \in DOMAIN r.code : Readable(r, f)}})
      \cup ManifestEvidence(r)

Rejected(e) ==
    /\ e.kind \in {"entrypoint", "session_start", "pipeline_task"}
    /\ e.file \in ScannerTests

OfKind(r, kind) == {e \in Evidence(r) : e.kind = kind /\ ~Rejected(e)}
Existing(r) == OfKind(r, "existing_cekura") # {}
LineOf(r, e) == r.code[e.file][e.line]

-----------------------------------------------------------------------------
(***************************************************************************)
(* scanner/capability.py: the first demotion decides.                      *)
(***************************************************************************)
Seen(r) == {e.framework : e \in {i \in OfKind(r, "framework_import") : i.file \notin MatrixTests}}
Framework(r) ==
    LET seen == Seen(r)
    IN  IF seen = {} THEN "none" ELSE IF Cardinality(seen) = 2 THEN "both"
        ELSE CHOOSE fw \in seen : TRUE

Entries(r, fw) == {e \in OfKind(r, "entrypoint") : e.framework = fw}

Demotions(r) ==
    LET fw == Framework(r)
        entries == Entries(r, fw)
        single == fw \in {"livekit", "pipecat"}
        tasks == OfKind(r, "pipeline_task")
    IN <<
      <<fw = "none", "NO_FRAMEWORK">>,
      <<fw = "both", "MULTI_FRAMEWORK">>,
      <<single /\ entries = {}, "NO_ENTRYPOINT">>,
      <<single /\ Cardinality(entries) > 1, "AMBIGUOUS_ENTRYPOINT">>,
      <<fw = "livekit" /\ \E e \in entries : StartsIn(r.code[e.file], e.fn) = {},
        "NO_SESSION_START">>,
      <<fw = "pipecat" /\ \E e \in entries : ~PairInPipeline(r.code[e.file], e.fn),
        "MISSING_AGGREGATOR_PAIR">>,
      <<fw = "pipecat" /\ tasks = {}, "NO_PIPELINE_TASK">>,
      <<fw = "pipecat" /\ \A t \in tasks : LineOf(r, t).op = "pipeline_worker",
        "PIPECAT_WORKER_API">>,
      <<OfKind(r, "direct_observe") # {}, "DIRECT_OBSERVE_PRESENT">>,
      <<TRUE, "OK">> >>

FirstThat(demotions) == demotions[Min({i \in DOMAIN demotions : demotions[i][1]})][2]

\* Mutant: the gate looks no further than the entrypoint.
DecisionAtEntrypoint(r) == FirstThat(SubSeq(Demotions(r), 1, 4) \o <<<<TRUE, "OK">>>>)

Decision(r) == FirstThat(Demotions(r))
Supported(r) == Decision(r) = "OK"

-----------------------------------------------------------------------------
(***************************************************************************)
(* planner/fake.py, planner/rules.py.  A plan is a set of actions: the     *)
(* validator does not depend on their order, and the adapters sort them.   *)
(* Only of two packages for one Python file the first wins; the plan with  *)
(* that one alone stands for it.                                           *)
(***************************************************************************)
SessionActions == {"insert_track_session", "insert_observe_session"}
PipecatActions == {"pipecat_single_step", "pipecat_multi_step"}
TracerActions == SessionActions \cup PipecatActions
TextActions == {"add_dependency", "add_env_placeholder"}

SessionAction(mode) == IF mode = "test" THEN "insert_track_session" ELSE "insert_observe_session"

\* into is the path among the parameters (manifest or file); param is the
\* package, or the mode of a Pipecat action.
Action(type, file, param, cites) ==
    [type |-> type, file |-> file, into |-> NoFile, param |-> param, cites |-> cites]
TextAction(type, into, param) ==
    [type |-> type, file |-> NoFile, into |-> into, param |-> param, cites |-> {}]

\* What a package of the SDK may look like: with a version, or without one.
Pinned(fw) == IF fw = "livekit" THEN "livekit>=1.6.4" ELSE "pipecat>=1.6.4"
Packages(fw) == {fw, Pinned(fw)}

Manifest(r) ==
    LET cited == {e.file : e \in OfKind(r, "dependency")}
    IN  IF cited = {} THEN "requirements.txt"
        ELSE Manifests[Min({i \in DOMAIN Manifests : Manifests[i] \in cited})]

TheEntry(r) == CHOOSE e \in Entries(r, Framework(r)) : TRUE
StartsOfEntry(r) == {e \in OfKind(r, "session_start") : e.fn = TheEntry(r).fn}

\* `[start] = ...` and `[task] = ...` raise ValueError, which is no AgentError.
FakePlannerRaises(r) ==
    /\ ~Existing(r)
    /\ IF Framework(r) = "livekit" THEN Cardinality(StartsOfEntry(r)) # 1
                                   ELSE Cardinality(OfKind(r, "pipeline_task")) # 1

LiveKitPlan(r, mode) ==
    LET entry == TheEntry(r)
        start == CHOOSE e \in StartsOfEntry(r) : TRUE
    IN  {Action("insert_tracer_init", entry.file, "livekit", {entry}),
         Action(SessionAction(mode), start.file, NoParam, {entry, start})}

PipecatPlan(r, mode) ==
    LET task == CHOOSE e \in OfKind(r, "pipeline_task") : TRUE
        type == IF HasCustomKwargs(LineOf(r, task)) THEN "pipecat_multi_step"
                                                    ELSE "pipecat_single_step"
    IN  {Action(type, task.file, mode, {task} \cup Entries(r, "pipecat"))}

\* The placeholders in .env.example, its last action, are left out.
FakePlan(r, mode) ==
    IF Existing(r)
    THEN {Action("already_integrated_noop", NoFile, NoParam, OfKind(r, "existing_cekura"))}
    ELSE {Action("add_dependency", Manifest(r), Pinned(Framework(r)), {})}
         \cup IF Framework(r) = "livekit" THEN LiveKitPlan(r, mode) ELSE PipecatPlan(r, mode)

-----------------------------------------------------------------------------
(***************************************************************************)
(* planner/validate.py, of a plan that build_plan made: its framework,     *)
(* mode and fingerprint are the inspection's own.                          *)
(***************************************************************************)
AllowedActions(fw, mode, already) ==
    IF already THEN {"already_integrated_noop"}
    ELSE TextActions \cup (IF fw = "livekit" THEN {"insert_tracer_init", SessionAction(mode)}
                                              ELSE PipecatActions)

RequiredEvidence(type) ==
    IF type \in SessionActions THEN {"entrypoint", "session_start"}
    ELSE IF type \in PipecatActions THEN {"pipeline_task"}
    ELSE IF type = "insert_tracer_init" THEN {"entrypoint"} ELSE {}

\* Of the action's own file: no parameter is looked at.
PathOk(r, action) ==
    /\ action.file \notin PlanTests
    /\ action.file \in DOMAIN r.code \cup DOMAIN r.deps \/ action.type \in TextActions

EvidenceOk(live, action) ==
    LET needed == RequiredEvidence(action.type)
    IN  /\ action.cites \subseteq live
        /\ needed \subseteq {e.kind : e \in action.cites}
        /\ needed # {} /\ action.file # NoFile => action.file \in {e.file : e \in action.cites}

ParamsOk(r, fw, mode, action) ==
    /\ action.type = "add_dependency" => action.param \in Packages(fw)
    /\ action.type \in PipecatActions => action.param = mode
    /\ action.type = "pipecat_single_step" =>
          \A e \in action.cites : e.kind = "pipeline_task" => ~HasCustomKwargs(LineOf(r, e))

ValidActions(r, mode, actions) ==
    LET live == {e \in Evidence(r) : ~Rejected(e)}
        fw == Framework(r)
        already == Existing(r)
    IN  {a \in actions :
            /\ a.type \in AllowedActions(fw, mode, already)
            /\ a.file = NoFile \/ PathOk(r, a)
            /\ EvidenceOk(live, a)
            /\ ParamsOk(r, fw, mode, a)}

\* The plans among these that validate_plan accepts.
ValidPlans(r, mode, plans) ==
    LET accepted == ValidActions(r, mode, UNION plans)
        already == Existing(r)
    IN  {plan \in plans \ {{}} :
            /\ plan \subseteq accepted
            /\ already \/ Cardinality({a \in plan : a.type \in TracerActions}) = 1}

-----------------------------------------------------------------------------
(***************************************************************************)
(* adapters/.  An edit replaces lines start..end; an insertion before line *)
(* n has end = n - 1.                                                      *)
(***************************************************************************)
Edit(start, end, lines) == [start |-> start, end |-> end, lines |-> lines]
Insert(n, lines) == Edit(n, n - 1, lines)

Splice(code, edit) ==
    SubSeq(code, 1, edit.start - 1) \o edit.lines \o SubSeq(code, edit.end + 1, Len(code))
Lower(edit, other) ==
    edit.start > other.start \/ (edit.start = other.start /\ edit.end > other.end)

\* An adapter makes two edits: the lower one is carried out first, so that the
\* line numbers of the other still hold.  An insertion of nothing is no edit.
ApplyLineEdits(code, imports, change) ==
    IF Lower(change, imports) THEN Splice(Splice(code, change), imports)
                              ELSE Splice(Splice(code, imports), change)

\* In any scope, as in the code.
HasImport(code, module) == \E i \in Where(code, {"import"}) : code[i].name = module

\* Mutant: before the last import instead of after it.
ImportInsertionLineBefore(code) ==
    Max({1} \cup {i \in Where(code, {"import"}) : code[i].scope = {}})

ImportInsertionLine(code) ==
    1 + Max({0} \cup {i \in Where(code, {"import"}) : code[i].scope = {}})

MissingImports(code, tracer) ==
       (IF HasImport(code, "os") THEN <<>> ELSE <<Line({}, "import", "os", {})>>)
    \o (IF HasImport(code, tracer) THEN <<>> ELSE <<Line({}, "import", tracer, {})>>)

\* The evidence the adapters anchor an action in; {} makes next() raise
\* StopIteration, which is no AgentError.
AnchorEntries(r, fw, file) == {e \in Entries(r, fw) : e.file = file}
AnchorStarts(r, file) ==
    LET functions == {d.fn : d \in AnchorEntries(r, "livekit", file)}
    IN  {e \in OfKind(r, "session_start") : e.file = file /\ e.fn \in functions}
AnchorTasks(r, file) == {e \in OfKind(r, "pipeline_task") : e.file = file}
FirstOf(r, S) == CHOOSE e \in S : \A d \in S \ {e} : WalkedBefore(r.code[e.file], e.line, d.line)

AdapterRaises(r, action) ==
    IF action.type \in SessionActions THEN AnchorStarts(r, action.file) = {}
    ELSE AnchorTasks(r, action.file) = {} \/ AnchorEntries(r, "pipecat", action.file) = {}

LiveKitRefuses(r, action) ==
    /\ action.type = "insert_track_session"
    /\ "agent" \notin LineOf(r, FirstOf(r, AnchorStarts(r, action.file))).has

IntegrateLiveKit(r, action) ==
    LET code == r.code[action.file]
        start == FirstOf(r, AnchorStarts(r, action.file))
        session == LineOf(r, start).name
        at == FirstWalked(code, {i \in InBody(code, start.fn, {"start"}) : code[i].name = session})
        header == MissingImports(code, "LiveKitTracer")
                    \o <<Line({}, "tracer", "LiveKitTracer", {})>>
        call == IF action.type = "insert_track_session"
                THEN Line(code[at].scope, "track_session", session, {"agent"})
                ELSE Line(code[at].scope, "observe_session", session, {})
    IN  ApplyLineEdits(code, Insert(ImportInsertionLine(code), header), Insert(at, <<call>>))

PipecatRefuses(r, action) ==
    LET task == FirstOf(r, AnchorTasks(r, action.file))
        code == r.code[action.file]
    IN  \/ LineOf(r, task).op # "task"
        \/ \A e \in AnchorEntries(r, "pipecat", action.file) : InBody(code, e.fn, {"context"}) = {}

\* Mutant: one flag is forgotten.
TracingFlagsOne(has) ==
    has \cup (IF "enable_tracing=other" \in has THEN {} ELSE {"enable_tracing"})

\* A flag that is there is kept as it is.
TracingFlags(has) ==
    has \cup (IF "enable_tracing=other" \in has THEN {} ELSE {"enable_tracing"})
        \cup (IF "enable_turn_tracking=other" \in has THEN {} ELSE {"enable_turn_tracking"})

IntegratePipecat(r, mode, action) ==
    LET code == r.code[action.file]
        at == FirstOf(r, AnchorTasks(r, action.file)).line
        task == code[at]
        inline == task.has \cap {"inline"}
        init == Line(task.scope, "tracer", "PipecatTracer", {})
        single == <<init, Line(task.scope, CallFor(mode, CreateCalls), task.name, inline)>>
        multi == <<init,
                   Line(task.scope, CallFor(mode, WrapCalls), task.name, inline),
                   Line(task.scope, "task", task.name, TracingFlags(task.has)),
                   Line(task.scope, "register", task.name, {})>>
    IN  ApplyLineEdits(code,
            Insert(ImportInsertionLine(code), MissingImports(code, "PipecatTracer")),
            Edit(at, at, IF action.type = "pipecat_multi_step" THEN multi ELSE single))

(* adapters/__init__.py: the two actions that append text, wherever it goes. *)

\* Mutant: no default manifest.
TargetNoDefault(a) == IF a.into # NoFile THEN a.into ELSE a.file

Target(a) == IF a.into # NoFile THEN a.into
             ELSE IF a.file # NoFile THEN a.file ELSE "requirements.txt"

Dependencies(plan) == {a \in plan : a.type = "add_dependency"}
Placeholders(plan) == {a \in plan : a.type = "add_env_placeholder"}

\* A pyproject that is absent, or whose array cannot be extended or parsed.
DependencyRefused(r, file) ==
    /\ file \in Tomls /\ "cekura" \notin TextOf(r, file)
    /\ file \notin DOMAIN r.deps \/ TextOf(r, file) \cap {"inline", "garbage"} # {}

\* A file that holds the SDK already is left as it is.  Python parses
\* `cekura[livekit]` (and cannot evaluate it), not `cekura[livekit]>=1.6.4`.
Requirement(r, file, package) ==
    IF "cekura" \in TextOf(r, file) THEN {}
    ELSE {"cekura"} \cup (IF file \in Python /\ package \notin {"livekit", "pipecat"}
                          THEN {"garbage"} ELSE {})
Required(r, plan, file) ==
    UNION {Requirement(r, file, a.param) : a \in {d \in Dependencies(plan) : Target(d) = file}}

\* No reader takes `CEKURA_API_KEY=`, the placeholder.
AppendText(r, plan) ==
    [file \in DOMAIN r.deps \cup {Target(a) : a \in Dependencies(plan) \cup Placeholders(plan)} |->
        TextOf(r, file) \cup Required(r, plan, file)
            \cup (IF file \in {Target(a) : a \in Placeholders(plan)} THEN {"garbage"} ELSE {})]

\* build_file_edits: "crash", "refused" (AdapterError), or the repository as
\* it will be.  Dependencies come first, so that the file of the tracer action,
\* of which there is at most one, is parsed with them; placeholders come last.
BuildVerdict(r, plan) ==
    LET tracer == {a \in plan : a.type \in TracerActions}
    IN  IF \E a \in Dependencies(plan) : DependencyRefused(r, Target(a)) THEN "refused"
        ELSE IF \E a \in tracer : AdapterRaises(r, a) THEN "crash"
        ELSE IF \E a \in tracer :
                    \/ "garbage" \in Required(r, plan, a.file)
                    \/ IF a.type \in SessionActions THEN LiveKitRefuses(r, a)
                                                     ELSE PipecatRefuses(r, a)
             THEN "refused" ELSE "ok"

Build(r, mode, plan) ==
    LET tracer == {a \in plan : a.type \in TracerActions}
    IN  [code |-> [file \in DOMAIN r.code |->
            IF \E a \in tracer : a.file = file
            THEN LET a == CHOOSE b \in tracer : b.file = file
                 IN  IF a.type \in SessionActions THEN IntegrateLiveKit(r, a)
                                                  ELSE IntegratePipecat(r, mode, a)
            ELSE r.code[file]],
         deps |-> AppendText(r, plan)]

-----------------------------------------------------------------------------
(***************************************************************************)
(* verification/: the names of the checks that fail.                       *)
(***************************************************************************)
\* _calls_of: a call and a function around it; a call in a nested function
\* appears once for each.
CallsOf(code, ops) == {c \in Where(code, ops) \X Functions_(code) : c[2] \in code[c[1]].scope}
AtModuleScope(code, tracer) ==
    \E i \in Where(code, {"tracer"}) : code[i].name = tracer /\ code[i].scope = {}
TracerInits(code, tracer) == {i \in Where(code, {"tracer"}) : code[i].name = tracer}
Mentions(code, tracer) ==
    \E i \in Where(code, {"import", "tracer"}) : code[i].name = tracer

Failing(checks) == {c[1] : c \in {d \in checks : d[2]}}

LiveKitFailures(code, mode) ==
    LET calls == CallsOf(code, SessionCalls)
    IN  Failing({
      <<"tracer_before_start",
        \E c \in calls, s \in CallsOf(code, {"start"}) :
            /\ c[2] = s[2] /\ code[c[1]].name = code[s[1]].name
            /\ c[1] > s[1]>>,
      <<"track_session_has_agent",
        \E c \in calls : code[c[1]].op = "track_session" /\ "agent" \notin code[c[1]].has>>,
      <<"module_scope_init",
        TracerInits(code, "LiveKitTracer") # {} /\ ~AtModuleScope(code, "LiveKitTracer")>>,
      <<"mode_consistent", \E c \in calls : code[c[1]].op # CallFor(mode, SessionCalls)>>,
      <<"tracer_exactly_once", Cardinality(calls) > 1>>})

PipecatFailures(code, mode) ==
    LET single == CallsOf(code, CreateCalls)
        wrap == CallsOf(code, WrapCalls)
        register == CallsOf(code, {"register"})
        task == Where(code, {"task"})
        last == LastWalked(code, task)
    IN  IF TracerInits(code, "PipecatTracer") = {} THEN {} ELSE Failing({
      <<"per_call_tracer", AtModuleScope(code, "PipecatTracer")>>,
      <<"integration_style", single = {} /\ wrap = {}>>,
      <<"multi_step_tracing_flags",
        single = {} /\ wrap # {} /\
            ~(task # {} /\ {"enable_tracing", "enable_turn_tracking"} \subseteq code[last].has)>>,
      <<"register_task_handlers",
        single = {} /\ wrap # {} /\
            (register = {} \/ (task # {} /\ \E c \in register : c[1] < last))>>,
      <<"mode_consistent", \E c \in single \cup wrap :
            code[c[1]].op \notin {CallFor(mode, CreateCalls), CallFor(mode, WrapCalls)}>>,
      <<"tracer_exactly_once", Cardinality(single \cup wrap) > 1>>,
      <<"no_direct_observe_duplication", Where(code, {"direct_observe"}) # {}>>})

CollectChecks(r, files, mode) ==
    UNION {
        IF ~Readable(r, file) THEN {"syntax"}
        ELSE (IF Mentions(r.code[file], "LiveKitTracer") THEN LiveKitFailures(r.code[file], mode) ELSE {})
          \cup (IF Mentions(r.code[file], "PipecatTracer") THEN PipecatFailures(r.code[file], mode) ELSE {})
        : file \in files}
=============================================================================
