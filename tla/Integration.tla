----------------------------- MODULE Integration -----------------------------
(***************************************************************************)
(* The commands integrate and verify (orchestrator.py) over one repository *)
(* with no platform: inspect and gate, plan and validate, patch, verify,   *)
(* prepare_platform_state, and how each ends.  Between commands the        *)
(* customer may delete lines or add the dependency.  Files do not change   *)
(* while a command runs and writes do not fail; Patching.tla has those.    *)
(***************************************************************************)
EXTENDS Pipeline

CONSTANTS
    Repos,      \* the repositories commands start from
    Planners,   \* a subset of {"fake", "openrouter"}
    MaxCites,   \* evidence ids a model's action cites, at most
    MaxTexts,   \* actions besides the tracer's in a model's plan, and edits
                \* by the customer before it, together at most; a repository
                \* that is edited has fewer files with what they append
    MaxEdits    \* edits by the customer, at most

\* What a repository is: finitely many files, each a sequence of lines, of
\* which each is inside functions of its file.
WellFormed(r) ==
    /\ r = [code |-> r.code, deps |-> r.deps]
    /\ IsFiniteSet(DOMAIN r.code)
    /\ r.code \in [DOMAIN r.code -> Seq(Lines)]
    /\ DOMAIN r.code \subseteq Python
    /\ r.deps \in [DOMAIN r.deps -> SUBSET {"framework", "cekura", "inline", "garbage"}]
    /\ DOMAIN r.deps \subseteq Paths
    /\ \A file \in DOMAIN r.code : \A i \in DOMAIN r.code[file] :
          r.code[file][i].scope \subseteq Functions_(r.code[file])

\* A file calls a tracer once at most, and in a function.
TracedOnce(r) ==
    \A file \in DOMAIN r.code :
        LET calls == Where(r.code[file], TracerCalls)
        IN  Cardinality(calls) <= 1 /\ \A i \in calls : r.code[file][i].scope # {}

ASSUME ReposAssumption == \A r \in Repos : WellFormed(r) /\ TracedOnce(r)
ASSUME PlannersAssumption == Planners \subseteq {"fake", "openrouter"}
ASSUME BoundsAssumption == MaxCites \in Nat /\ MaxTexts \in Nat /\ MaxEdits \in Nat

VARIABLES
    repo,       \* the repository
    base,       \* the repository as the command in progress, or the last, found it
    cmd,        \* that command
    pc,         \* its next stage, "idle" after its end
    plan,       \* its validated plan, until it is carried out
    applied,    \* it has patched files
    failed,     \* the checks of its report that failed
    ended,      \* how it ended
    done,       \* mode of the integration that succeeded last, if nothing changed since
    edits       \* edits by the customer so far

vars == <<repo, base, cmd, pc, plan, applied, failed, ended, done, edits>>

NoMode == "none"
Commands == [name : {"none", "integrate", "verify"}, mode : Modes,
             planner : {"fake", "openrouter"}, apply : BOOLEAN]

\* errors.py and cli.py: a report that passed, NeedsHuman, anything else.
ExitCode == IF ended = "needs_human" THEN 2
            ELSE IF ended = "report" /\ failed = {} THEN 0 ELSE 1

NoCommand == [name |-> "none", mode |-> "test", planner |-> "fake", apply |-> FALSE]

Init ==
    /\ repo \in Repos
    /\ base = repo
    /\ cmd = NoCommand
    /\ pc = "idle"
    /\ plan = {}
    /\ applied = FALSE
    /\ failed = {}
    /\ ended = "report"
    /\ done = NoMode
    /\ edits = 0

Finish(how) == pc' = "idle" /\ ended' = how

\* Inspection and gate.
StartIntegrate ==
    /\ pc = "idle"
    /\ base' = repo
    /\ plan' = {}
    /\ applied' = FALSE
    /\ failed' = {}
    /\ IF Supported(repo) THEN pc' = "plan" /\ ended' = "report" ELSE Finish("needs_human")
    /\ cmd' \in [name : {"integrate"}, mode : Modes, planner : Planners, apply : BOOLEAN]
    /\ UNCHANGED <<repo, done, edits>>

\* What the model may answer: a tracer action of any kind, on any file, citing
\* anything, with other actions: packages and placeholders, in any file that a
\* parameter may name (the action's own file does no more), and the tracer's
\* own initialisation, which is part of the tracer action anyway.  A package is
\* one requirement and a placeholder one key: code in such a string is left out.
UpTo(n, S) == {{}} \cup {{t[k] : k \in 1..n} : t \in [1..n -> S]}
Cites(r) == UpTo(MaxCites, Evidence(r))
ModelTracers(r) ==
    LET files == DOMAIN r.code \cup {NoFile}
    IN  IF Existing(r) THEN {}  \* all are refused
        ELSE {Action(t, f, NoParam, c) : t \in SessionActions, f \in files, c \in Cites(r)}
             \cup {Action(t, f, m, c) : t \in PipecatActions, f \in files, m \in Modes, c \in Cites(r)}
ModelOthers(r) ==
    {TextAction("add_dependency", p, k) : p \in Paths \cup {NoFile}, k \in Packages(Framework(r))}
    \cup {TextAction("add_env_placeholder", p, NoParam) : p \in Paths}
    \cup {Action("insert_tracer_init", NoFile, NoParam, Entries(r, Framework(r)))}

\* Plans with at most n of these others.  An action that is refused is in no
\* plan that is accepted.
ModelPlans(r, mode, n) ==
    {{a} \cup d : a \in ValidActions(r, mode, ModelTracers(r)),
                 d \in UpTo(n, ValidActions(r, mode, ModelOthers(r)))}
        \cup {FakePlan(r, m) : m \in IF FakePlannerRaises(r) THEN {} ELSE Modes}

FakePlanIsValid == ValidPlans(repo, cmd.mode, {FakePlan(repo, cmd.mode)}) # {}

\* build_plan.  A model's answer that is no plan, or no answer, is refused too.
Plan ==
    /\ pc = "plan"
    /\ \/ /\ cmd.planner = "fake" /\ FakePlannerRaises(repo)
          /\ Finish("crash")
          /\ UNCHANGED plan
       \/ /\ cmd.planner = "openrouter" \/ (~FakePlannerRaises(repo) /\ ~FakePlanIsValid)
          /\ Finish("refused")
          /\ UNCHANGED plan
       \/ /\ cmd.planner = "fake" => ~FakePlannerRaises(repo)
          /\ plan' \in ValidPlans(repo, cmd.mode,
                         IF cmd.planner = "fake" THEN {FakePlan(repo, cmd.mode)}
                         ELSE ModelPlans(repo, cmd.mode, MaxTexts - edits))
          /\ pc' = "patch"
          /\ UNCHANGED ended
    /\ UNCHANGED <<repo, base, cmd, applied, failed, done, edits>>

\* render, and apply_patchset when there is something to apply.
Patch ==
    /\ pc = "patch"
    /\ LET verdict == BuildVerdict(repo, plan)
           after == Build(repo, cmd.mode, plan)
       IN  IF verdict # "ok"
           THEN Finish(verdict) /\ UNCHANGED <<repo, applied, done>>
           ELSE /\ UNCHANGED ended
                /\ IF cmd.apply /\ after # repo
                   THEN repo' = after /\ applied' = TRUE /\ done' = NoMode /\ pc' = "check"
                   ELSE UNCHANGED <<repo, applied, done>> /\ pc' = "platform"
    /\ plan' = {}
    /\ UNCHANGED <<base, cmd, failed, edits>>

ChangedCode ==
    {file \in DOMAIN repo.code :
        repo.code[file] # base.code[file] \/ TextOf(repo, file) # TextOf(base, file)}
ChangedTexts ==
    {file \in DOMAIN repo.deps : file \in DOMAIN base.deps => repo.deps[file] # base.deps[file]}
Changed == ChangedCode \cup ChangedTexts

\* The lifecycle checks of the changed files and the re-inspection.  Whatever
\* looks like a manifest may hold the dependency.
Check ==
    /\ pc = "check"
    /\ failed' = CollectChecks(repo, ChangedCode, cmd.mode) \cup Failing({
         <<"syntax", \E file \in Changed \cap Python : ~Readable(repo, file)>>,
         <<"still_supported_topology", ~Supported(repo)>>,
         <<"integration_detected", ~Existing(repo)>>,
         <<"dependency_added", \A file \in Changed \cap LookAlikes : "cekura" \notin TextOf(repo, file)>>})
    /\ pc' = "platform"
    /\ UNCHANGED <<repo, base, cmd, plan, applied, ended, done, edits>>

\* prepare_platform_state makes a plan of its own, from the repository as it
\* is now and with the reference planner; the report comes after it.
PreparePlatform ==
    /\ pc = "platform"
    /\ Finish(IF ~Supported(repo) THEN "needs_human"
              ELSE IF FakePlannerRaises(repo) THEN "crash"
              ELSE IF ~FakePlanIsValid THEN "refused"
              ELSE "report")
    /\ done' = IF applied /\ ended' = "report" /\ failed = {} THEN cmd.mode ELSE done
    /\ UNCHANGED <<repo, base, cmd, plan, applied, failed, edits>>

\* verify_repo, which writes nothing.
VerifyRepo(mode) ==
    /\ pc = "idle"
    /\ cmd' = [NoCommand EXCEPT !.name = "verify", !.mode = mode]
    /\ base' = repo
    /\ plan' = {}
    /\ applied' = FALSE
    /\ LET files == {f \in DOMAIN repo.code : \E t \in Tracers : Mentions(repo.code[f], t)}
       IN  failed' = IF files = {} THEN {"integration_present"}
                     ELSE CollectChecks(repo, files, mode)
                            \cup Failing({<<"topology_supported", ~Supported(repo)>>})
    /\ Finish("report")
    /\ UNCHANGED <<repo, done, edits>>

\* The customer, between commands; a def is not deleted without its body.
\* What the last command did is forgotten: the properties are about its end.
CustomerEdits(after) ==
    /\ pc = "idle"
    /\ edits < MaxEdits
    /\ Cardinality({f \in DOMAIN repo.deps : repo.deps[f] \cap {"cekura", "garbage"} # {}}) < MaxTexts
    /\ edits' = edits + 1
    /\ repo' = after
    /\ base' = after
    /\ cmd' = NoCommand
    /\ plan' = {}
    /\ applied' = FALSE
    /\ failed' = {}
    /\ ended' = "report"
    /\ done' = NoMode
    /\ UNCHANGED pc

DeletesLine(file, i) ==
    /\ repo.code[file][i].op # "def"
    /\ CustomerEdits([repo EXCEPT !.code[file] = RemoveAt(@, i)])
AddsDependency(m) ==
    CustomerEdits([repo EXCEPT !.deps = [file \in DOMAIN @ \cup {m} |->
                       TextOf(repo, file) \cup (IF file = m THEN {"cekura"} ELSE {})]])

Next ==
    \/ StartIntegrate
    \/ Plan
    \/ Patch
    \/ Check
    \/ PreparePlatform
    \/ \E mode \in Modes : VerifyRepo(mode)
    \/ \E file \in DOMAIN repo.code : \E i \in DOMAIN repo.code[file] : DeletesLine(file, i)
    \/ \E m \in ToSet(Manifests) : AddsDependency(m)

Spec == Init /\ [][Next]_vars

-----------------------------------------------------------------------------
(***************************************************************************)
(* What the SDK's documentation asks of an integrated repository, stated   *)
(* apart from the adapters and the checks.                                 *)
(***************************************************************************)
Bound(code, module, t) ==
    \E i \in Where(code, {"import"}) :
        code[i].name = module /\ code[i].scope \subseteq code[t].scope
            /\ (code[i].scope = code[t].scope => i < t)

LiveKitTraced(code, f, mode) ==
    \E call \in InBody(code, f, {CallFor(mode, SessionCalls)}) :
        LET starts == {i \in InBody(code, f, {"start"}) : code[i].name = code[call].name}
        IN  /\ starts # {} /\ \A i \in starts : call < i
            /\ mode = "test" => "agent" \in code[call].has
            /\ \E t \in Where(code, {"tracer"}) :
                  /\ code[t].name = "LiveKitTracer" /\ code[t].scope = {}
                  /\ Bound(code, "os", t) /\ Bound(code, "LiveKitTracer", t)

PipecatTraced(code, f, mode) ==
    \E t \in InBody(code, f, {"tracer"}) :
        /\ Bound(code, "os", t) /\ Bound(code, "PipecatTracer", t)
        /\ \/ \E c \in InBody(code, f, {CallFor(mode, CreateCalls)}) : t < c
           \/ \E w \in InBody(code, f, {CallFor(mode, WrapCalls)}),
                 k \in InBody(code, f, {"task"}), g \in InBody(code, f, {"register"}) :
                 /\ t < w /\ w < k /\ k < g
                 /\ {"enable_tracing", "enable_turn_tracking"} \subseteq code[k].has

\* The entrypoint's file is loaded only if it holds no requirement.
Traced(r, mode) ==
    \E e \in {d \in Entries(r, Framework(r)) : "cekura" \notin TextOf(r, d.file)} :
        LET code == r.code[e.file]
        IN  /\ Cardinality(Where(code, TracerCalls)) = 1
            /\ IF e.framework = "livekit" THEN LiveKitTraced(code, e.fn, mode)
                                          ELSE PipecatTraced(code, e.fn, mode)

HasDependency(r) ==
    \E m \in ToSet(Manifests) : "cekura" \in TextOf(r, m) /\ "garbage" \notin TextOf(r, m)

\* Files that hold a requirement and are no manifest, or a line that no reader accepts.
Misplaced(r) ==
    {file \in DOMAIN r.deps :
        \/ "cekura" \in r.deps[file] /\ file \notin ToSet(Manifests)
        \/ "garbage" \in r.deps[file]}

\* The Python files in which the command in progress, or the last, put a line
\* that Python rejects.
Garbled == {file \in Python : "garbage" \in TextOf(repo, file) \ TextOf(base, file)}
Integrated == cmd.name = "integrate" /\ pc = "idle"

-----------------------------------------------------------------------------
(* Properties *)

\* Types of the variables; files that are patched have a name.
TypeOK ==
    /\ DOMAIN repo.deps \subseteq Paths
    /\ DOMAIN repo.code = DOMAIN base.code
    /\ cmd \in Commands
    /\ pc \in {"idle", "plan", "patch", "check", "platform"}
    /\ applied \in BOOLEAN
    /\ ended \in {"report", "needs_human", "refused", "crash"}
    /\ done \in Modes \cup {NoMode}
    /\ edits \in 0..MaxEdits

\* An `import os` of another scope is taken for one the tracer can use
\* (adapters/base.py:83-96), and no check resolves names.
OsOutOfReach(code) ==
    HasImport(code, "os") /\ \A i \in Where(code, {"import"}) : code[i].name = "os" => code[i].scope # {}

\* An integrate --apply that patched files and exits 0 leaves a repository
\* that traces a session of its entrypoint in the mode asked for, with the SDK
\* in a manifest, whatever plan a model proposed (integrate_repo,
\* validate_plan, collect_checks), unless a file imports os in functions only,
\* or the plan put a requirement into the entrypoint's file, or requirements or
\* placeholders where they do not belong: the parameters that name a path
\* are not validated (validate.py:69, adapters/__init__.py:97, 102).
HonestExit ==
    Integrated /\ applied /\ ExitCode = 0 =>
        /\ HasDependency(repo) \/ Changed \cap Misplaced(repo) # {}
        /\ \/ Traced(repo, cmd.mode)
           \/ \E file \in DOMAIN base.code : OsOutOfReach(base.code[file])
           \/ \E e \in Entries(repo, Framework(repo)) : "cekura" \in TextOf(repo, e.file)

\* The checks that fail although the reference plan was carried out as it should
\* be, and why: a nested function's call counts once for each function around
\* it, a tracing flag that is not the constant True is kept, and the dependency
\* is looked for in the files this run changed only.
ExpectedFailures(r) ==
    Failing({
      <<"tracer_exactly_once",
        Framework(r) = "livekit" /\ \E e \in StartsOfEntry(r) : Cardinality(LineOf(r, e).scope) > 1>>,
      <<"multi_step_tracing_flags",
        Framework(r) = "pipecat" /\ \E t \in OfKind(r, "pipeline_task") :
            LineOf(r, t).has \cap {"enable_tracing=other", "enable_turn_tracking=other"} # {}>>,
      <<"dependency_added",
        /\ "cekura" \in TextOf(r, Manifest(r))
        /\ \A e \in Entries(r, Framework(r)) :
              e.file \in LookAlikes => "cekura" \notin TextOf(r, e.file)>>})

\* A supported repository is integrated by the reference plan: it is accepted,
\* carried out, and what is written passes every check but the expected ones,
\* unless the planner raises (several starts or tasks), its own manifest looks
\* like a test to the validator, or an adapter refuses, all before writing
\* (FakePlanner, validate_plan, the adapters and the verifiers agree).
SupportedIsIntegrated ==
    /\ Integrated /\ cmd.planner = "fake" /\ cmd.apply
    /\ Supported(base) /\ ~Existing(base)
    => \/ applied /\ ended = "report" /\ failed = ExpectedFailures(base)
       \/ ~applied /\ ended = "crash" /\ FakePlannerRaises(base)
       \/ ~applied /\ ended = "refused" /\ Manifest(base) \in PlanTests
       \/ ~applied /\ ended = "refused" /\ BuildVerdict(base, FakePlan(base, cmd.mode)) = "refused"

\* However often integrate runs, in whatever modes, and whatever lines the
\* customer deletes in between, no file ends up with two tracer calls
\* (EXISTING_CEKURA detection).
TracedAtMostOnce ==
    \A file \in DOMAIN repo.code : Cardinality(Where(repo.code[file], TracerCalls)) <= 1

\* A command that ends without a report, refused or crashed, has written
\* nothing; and exit code 2 says that the repository the command was given
\* is not supported (README.md "Expected output and exit codes"), unless a
\* model's plan put a line into a Python file that Python rejects.
NothingWrittenWithoutReport ==
    Integrated /\ Garbled = {} =>
        /\ ended # "report" => ~applied
        /\ ExitCode = 2 => ~Supported(base)

\* After an integration that succeeded, verify passes for the same mode and
\* fails for the other one (verify_repo and integrate_repo agree).
VerifyAgrees ==
    cmd.name = "verify" /\ done # NoMode => (ExitCode = 0 <=> cmd.mode = done)

\* What verify does not look for: a name without its import, an integration
\* of which the call, or the tracer, is gone from every file, and lines that a
\* plan put into a Python file.
OutOfSight(r) ==
    \/ \E ops \in {TracerCalls, {"tracer"}} : \A file \in DOMAIN r.code : Where(r.code[file], ops) = {}
    \/ \E file \in DOMAIN r.code, module \in {"os"} \cup Tracers :
          /\ Where(r.code[file], TracerCalls) # {}
          /\ module \in Tracers => \E i \in Where(r.code[file], {"tracer"}) : r.code[file][i].name = module
          /\ ~\E i \in Where(r.code[file], {"import"}) : r.code[file][i].name = module /\ r.code[file][i].scope = {}
    \/ Misplaced(r) \cap Python # {}

\* verify passes no repository whose agent is not traced in the mode asked for,
\* whichever line of an integration the customer deleted, except for what is
\* out of its sight (verification/lifecycle.py, verify_repo).
VerifySound ==
    cmd.name = "verify" /\ ExitCode = 0 => Traced(repo, cmd.mode) \/ OutOfSight(repo)
=============================================================================
