# Verification of cekura-agent

cekura-agent takes a customer's LiveKit or Pipecat repository, plans where the
Cekura SDK has to go, patches the files, verifies the result, and brings an
agent of the Cekura platform into a desired state.  This directory holds TLA+
models of the parts of it that change something outside the process (files of
the customer, objects on the platform, money) and of the pipeline that decides
what to write, the TLC configurations that check them on small instances, and
TLAPS proofs for every instance.

Paths below are relative to `src/cekura_agent/` unless they name a document.

## 1. The system

```
 cli.py ──> orchestrator.integrate_repo
              │ inspect_repo        scanner/     reads files, stamps hashes, gates
              │ build_plan          planner/     FakePlanner, or OpenRouterPlanner ──> budget.py, the model
              │                                  validate_plan filters either
              │ render              patching.py  ──> adapters/ (text to text)
              │ apply_patchset      patching.py  ──> files, backups, manifest
              │ collect_checks      verification/
              │ reconcile           platform/    ──> the Cekura platform over HTTP
              └ report              report.py
            rollback_run            patching.py
```

| Component | State | Operations | What is hard | What makes it correct |
| --- | --- | --- | --- | --- |
| patch executor (`patching.py`) | target files; `.cekura-agent/backups/<run>/`, `runs/<run>.json`, `runs/latest` | `render`, `apply_patchset` with its restore handler, `load_manifest`, `rollback_run` | a loop of writes that may fail or be killed at any point; the customer's editor; several runs on one file; absent versus empty files | all or nothing; manifests tell the truth; rollback is exact; no text of the customer's is lost |
| integrate workflow (`orchestrator.py`) | the run in progress, its report; `desired.json` | `integrate_repo`, `verify_repo`, `prepare_platform_state`, `apply_platform_state` | each stage uses what an earlier one read; a late stage may raise after an early one has written | stages in order, refusals before writes |
| reconciler (`platform/reconcile.py`, `platform/client.py`) | objects of the platform: agents, mock tools, dynamic variables, documents | one run: resolve or create the agent, three mutations, GET-after | answers lost after a commit, requests that commit late, full-list replace of a list read earlier, people in the dashboard, half-done earlier runs | "verified" is true; deletions are approved; applying is idempotent; one agent per run |
| contract server (`platform/fake_server.py`) | the same objects, in memory | the platform's API for offline runs and tests | fault injection: 504 after a commit, a corrupted write | as the platform behaves |
| model budget (`budget.py`) | `~/.cekura-agent/ledger.json`, one copy in each process | load, precheck, record | two commands at once, a kill while rewriting, billed answers that are not recorded, retries | the caps hold on what the provider charges |
| model planner (`planner/client.py`, `planner/prompts.py`) | none of its own | one call: three attempts, parse, record | timeouts that may be billed, answers that are no plan | uses the budget above |
| plan rules, validation (`planner/rules.py`, `validate.py`, `fake.py`) | none (pure) | `validate_plan`, `FakePlanner.plan` | a plan from a model is untrusted | accepts only what the evidence supports; accepts its own reference plans |
| scanner, capability matrix (`scanner/`) | none (pure) | `inspect_repo`, `build_matrix` | demotions in order | a topology the adapters cannot patch never reaches the planner |
| adapters (`adapters/`) | none (pure) | `build_file_edits`, `apply_line_edits`, LiveKit and Pipecat edits | edits by line number, several at one line | what they write passes the verifiers |
| lifecycle verifiers (`verification/lifecycle.py`) | none (pure) | `collect_checks` | order of calls in a function | reject what the SDK would mishandle |
| features (`features/`) | `desired.json`, with the owner's approvals in it | `build_mock_tool_specs`, `build_dynamic_variables`, `build_kb_manifest` and their payloads | one name in several places; evidence in any order; documents that share a base name, or change after their approval | every discovered tool and variable is registered once; nothing is uploaded that nobody approved |
| command line and shell (`cli.py`) | repository, mode, model and platform mode, agent, project; the keys of the process | one-shot commands; `/use`, `/mode`, `/agent`, `/online`, `/offline`; a line merged with the session | two parsers look at one line: the shell's, which adds the session's options and asks for keys, and click's | a line means the same in the shell as outside; no live service without its key |
| safety, report, config, errors, models | none | path and secret checks, formatting, defaults | | |

Components talk by calls within one process; the only concurrency is with the
outside: the customer's editor, the platform and its users, the model provider,
and other cekura-agent processes.

## 2. The modules

| Module | Models | Role |
| --- | --- | --- |
| `Patching` | `patching.py`, the part of `integrate_repo` that calls it | component |
| `AtomicRuns` | the promise of `patching.py`: a run patches all of its files at once or none, and undoes them at once | abstract specification |
| `PatchingRefinement` | the refinement mapping from `Patching` to `AtomicRuns` | refinement |
| `PatchingInvariant` | the inductive invariants `UserTextInv`, `RollbackInv`, `AtomicInv`, `LatestInv` | invariant |
| `Reconcile` | `platform/reconcile.py`, `platform/client.py`, the platform as `fake_server.py` imitates it | component |
| `Budget` | `budget.py` and the money side of `planner/client.py`, in several processes | component |
| `Pipeline` | `scanner/`, `planner/rules.py`, `fake.py`, `validate.py`, `adapters/`, `verification/`, as operators on an abstract repository | pure functions |
| `Integration` | `integrate_repo`, `prepare_platform_state` and `verify_repo`, command after command, over `Pipeline` | component |
| `Features` | `features/`, as operators on a sequence of evidence | pure functions |
| `Registration` | `prepare-platform`, the owner's approvals, `apply-platform` and the staging step of `integrate`, command after command, over `Features` | component |
| `Session` | what an interactive session promises: a command runs with its line over what is remembered | abstract specification |
| `Shell` | `cli.py`: the shell's settings and commands, the merge of a line with them, the options of every one-shot command; with the mapping to `Session` | component, refinement |
| `MCPatching`, `MCReconcile`, `MCBudget`, `MCIntegration`, `MCRegistration`, `MCShell` | small instances | for TLC |
| `PatchingProofs` | theorems about `Patching`, the refinement of `AtomicRuns` included | for TLAPS |
| `ReconcileProofs` | theorems about `Reconcile`: one run, and run after run | for TLAPS |
| `IntegrationProofs` | theorems about `Integration`, with lemmas about every operator of `Pipeline` they rest on | for TLAPS |
| `OutcomeProofs` | the two theorems about `Integration` that follow a command to its verdict: the reference plan's, and `verify`'s; extends `IntegrationProofs` | for TLAPS |
| `InOrder` | a loop over positions as a fold, with the induction that says what it computes; instantiated by the next two | for TLAPS |
| `BudgetProofs`, `RegistrationProofs`, `ShellProofs` | theorems about these components | for TLAPS |

A definition whose comment says *Mutant* is the definition its name begins
like, with a plausible bug; no specification uses it.  Each property below is
violated when its mutant takes that definition's place.

### Patching

`disk` is the customer's tree, a text or `Absent` for each file; `backups`,
`manifest` and `latest` are the contents of `.cekura-agent/`; `pc` and the
locals are the one command in progress.  One action is one file operation:

| Code | Actions |
| --- | --- |
| `integrate_repo` 140-194 | `Inspect` (run id and inspection), `StopBeforeApply` (any refusal, dry run), `Build` and `Render` (the two reads of a target), `BeginApply` |
| `apply_patchset` 70-83 | `Validate(f)`, one edit at a time |
| `apply_patchset` 85-103 | `Backup(f)`, `Write(f)`; `CopyOrOpenFails`, `WriteFails(f)` for what raises in them |
| `apply_patchset` 104-110 | `Restore(f)` newest first, `RestoreFails(f)`, `Reraise` |
| `apply_patchset` 112-117 | `WriteManifest`, `WriteLatest`, `ManifestFails`, `LatestFails` |
| `rollback_run` | `StartRollback` (with `load_manifest`), `RbVerify(f)`, `RbRestore(f)`, `RbRename`, `RbLatest`, `RbRestoreFails(f)`, `RbFinishFails` |
| a kill at any point | `Crash`, which leaves a file truncated when it hits a write |
| the customer's editor | `UserSaves(f, c)`, at the program points in `EditPoints` |

A text is a model value and hashes are injective, so comparing hashes is
comparing texts.  `Text(Absent)` is the empty text, as in the code.  `Patch`
is what the adapters make of a text; it is any function whose results nobody
types by hand.  Line endings are not modelled (`read_text` folds them; backups
copy bytes).

### Reconcile

`platform` maps agent ids to what the platform holds; `inflight` are requests
whose caller gave up but which may still commit.  A run is a sequence of
requests, one action each, named after what the code does at that point
(`GetTools` is the GET, the diff and the deletion gate of lines 213-233,
`PatchTools` the PATCH, `CheckTools` the re-GET of `_apply_mutation`, and so
on).  `Mutate` is `CekuraClient._mutate` with the answers that may come:
`timeout` (committed, answer lost), `late` (not yet, perhaps later),
`rejected`, `connection` (refused for want of a connection method), `corrupt`
(accepted, another value stored).  `Abort` is a GET that fails for good or a
kill.  `EditPlatform` is a person in the dashboard.

### Budget

Each process is one command that plans: `Load`, `Precheck`, `Post` (one attempt
and the parsing of its answer), `Record`, `OpenLedger` and `WriteLedger` (the
two halves of `write_text`), `Crash`.  `spent` and `charged` observe what the
provider bills, which the code sees only through `usage`.  `orderly` observes
whether commands have followed one another, unkilled, and every completion
charged for was a priced plan that was accepted; what the ledger cannot promise
in general it promises as long as that holds.  Assumed of the provider: a call
never costs more than `estimate_cost` said.

### Pipeline and Integration

A repository is `[code, deps]`.  `code` gives each Python file as a sequence of
lines, each with the functions around it, what it does (`import`, `def`,
`session`, `start`, `pipeline`, `task`, a tracer call, ...), the name it is
about and the features that matter (`agent`, `params`, `pair`, `inline`, each
tracing flag as `True` or as something else).  Line numbers are positions, so
that the adapters' edits by line number and the verifiers' comparisons of line
numbers are the code's own.  `deps` says what each dependency manifest holds,
and what a plan has appended to any other file: a requirement of the SDK, or
`garbage`, a line that the file's reader rejects.  A Python file with such a
line, or with the one edit that does not parse, is not `Readable`: the scanner
sees nothing in it and `check_syntax` fails.

| Code | Operators |
| --- | --- |
| `scanner/evidence.py` | `Evidence`, from `StartsIn`, `TasksIn`, `PairInPipeline`, `IsLiveKitEntry`; `Rejected` for test paths |
| `scanner/capability.py` | `Demotions` in the order of the code, `Decision` |
| `planner/fake.py`, `prompts.py` | `FakePlan`, `Manifest`, `FakePlannerRaises` |
| `planner/validate.py`, `rules.py` | `ValidPlans`, from `AllowedActions`, `PathOk`, `EvidenceOk`, `ParamsOk` |
| `adapters/` | `ApplyLineEdits`, `IntegrateLiveKit`, `IntegratePipecat`; `Target`, `Requirement` and `AppendText` for packages and placeholders, in the file that `params["manifest"]` or `params["file"]` names; `BuildVerdict` for what they refuse or raise |
| `verification/` | `LiveKitFailures`, `PipecatFailures`, `CollectChecks` |

`Integration` runs commands over it: `StartIntegrate` (inspection and gate),
`Plan`, `Patch`, `Check`, `PreparePlatform` (which inspects, gates and plans
again), `VerifyRepo`; between commands the customer deletes a line or adds the
dependency.  With the `openrouter` planner the plan is any that `validate_plan`
accepts among those a model may propose (`ModelPlans`): a tracer action of any
kind on any file with any evidence, and with it any packages and placeholders
for any of `Paths`, of which `validate_plan` looks at none.  Writes do not fail here
and files do not change during a command; `Patching` has those.  A platform step
that talks to a platform is `Registration`'s and `Reconcile`'s.

Where the code is known to misjudge a repository, a property says so by name
and not by leaving the repository out: `OsOutOfReach` (an `import os` inside a
function), `ExpectedFailures` (a nested entrypoint, a tracing flag that is there
and not the constant `True`, a dependency that was there already), `Misplaced`
and `Garbled` (lines that a plan put where they do not belong) and `OutOfSight` (what `verify` never looks
for).

### Features and Registration

Evidence is a sequence of items, `[kind, name, params, rejected]`, in the order
of their ids.  `MockTools`, `DynamicVariables` and `KBManifest` are the loops of
`build_mock_tool_specs`, `build_dynamic_variables` and `build_kb_manifest` as
folds; `SyntheticValue` and `MockData` say which inputs of a mock tool differ.
`ToolsFaithful`, `VariablesFaithful` and `MocksAreFunctions` are the reference
definitions they are compared with.

| Code | Definitions of `Registration` |
| --- | --- |
| `prepare_platform_state` 226-256, `prepare-platform` | `Desired`, `PreparePlatform` |
| the owner edits `desired.json` | `Approve` |
| `apply_platform_state`, `integrate_repo`'s platform step | `ApplyPlatform`, `ApplyBlocked`, `IntegrateStaging`, `IntegrateBlocked` |
| `reconcile`, what it sends and prints | `Reconciled` with `Refuses`, `Target`, `Written`, `ToUpload`, `Unreadable`; `DryReconciled` with `Diff`, `DryRun` |

A command is one step: what faults and other people do to its requests is
`Reconcile`'s subject, in which in turn the desired state is any.  Between
commands the repository, its documents and the dashboard change (`AddItem`,
`RemoveItem`, `SaveDocument`, `AddForeignTool`).

### Session and Shell

A line is a command and a sequence of tokens: a word, `--option`, or
`--option=value`.  `Prepared` is `_add_shell_defaults` (the session's repository
in front, its options at the end), `LiveKeys` is `_ensure_live_keys` with
`_option_value`, `Parse` and `Accepts` are what click makes of the result:
options anywhere, the last value counts, words are arguments.  `Submit` is a
command's line, `Begin`, `Use`, `SetMode`, `SetAgent`, `Online`, `Offline` and
`Exit` are the shell's own commands, `Finish` the end of a command, which may
also end the shell.  `Configure` is `_configure_online` broken off anywhere.

`Promise` maps this to `Session`, which knows nothing of tokens: what a command
runs with is what its line gives and, for the rest, what is remembered.

## 3. The runs

Each takes a few minutes at most.  `P` passes, `V` must be violated.

| Run | | Asks | Bounds, and why they are enough |
| --- | --- | --- | --- |
| `patch_quiet` | P | `AllOrNothing`, `RollbackExact`, `ManifestTruthful`, `LiveManifestIsBacked`, `WritesMatchBase`, `LatestLoadable`, and that the executor implements `AtomicRuns` (`RunsAreAtomic`) | 2 files (a failure at the second needs the first restored), 2 runs (stacked on one file, rolled back in any order), 2 saves. Exceptions at the copy and at opening the target; saves between commands, after planning and up to the hash check |
| `patch_crash` | P | `NoUserTextLost` under every exception and kill | 2 files, 2 runs, 2 texts of the customer's, 1 save; the proof covers the rest |
| `patch_torn_write` | V | `AllOrNothing` when a write fails half way | 2 files |
| `reconcile_faults` | P | `VerifiedMatches`, `OneAgentPerRun`, `StaysConverged` under one fault of any kind, reuse and creation, dry or not, approved or not | 2 tools and 2 variables, one of each desired (so there are adds, updates, unchanged ones and deletions), 3 agent ids, 1 creation, 1 edit by people between runs, any number of runs |
| `reconcile_gate` | P | `NoUnapprovedDeletion`, `NoSpuriousFailure`, `DryRunWritesNothing`, and `RunConverges` under weak fairness | 2 faults (both answers of one run lost, or a refused run after an aborted one), 2 edits by people between runs |
| `reconcile_duplicate_agent` | V | `OneAgentPerRun` when the platform asks for a connection method and an answer is lost | 2 faults |
| `budget_spend` | P | `LedgerWithinCap`, and `OrderlySpendCapped`, `RunSpendCapped`, `LedgerTruthful` | 2 processes (a race needs no third), every fault, every kill, 3 commands of cost 1 to 3 against caps of 2 (a run) and 3 (in all): the second command may meet the cumulative cap |
| `budget_rejected_plan` | V | `TotalSpendCapped` when completions are no plan | 3 commands |
| `integrate_supported` | P | `HonestExit` (exit 0 means traced, whatever plan a model proposed), `SupportedIsIntegrated`, `TracedAtMostOnce`, `NothingWrittenWithoutReport`, `VerifyAgrees`, `VerifySound`, `TypeOK` | 24 repositories, every variation of an agent the gate, the planner or the checks look at, alone or with a second file; plans that cite up to 2 pieces of evidence (no action needs more), with up to two actions besides the tracer's, one after the customer's edit (`MaxTexts` bounds both together, and the files with a requirement or a placeholder in a repository the customer edits are fewer: one; a package in a manifest and one in the entrypoint need two, and a third repeats what two do, since a requirement is appended to a file once and one placeholder is as bad as two), aimed at a manifest, a manifest under `tests/`, a path that looks like one or the entrypoint; 1 edit; any number of commands |
| `integrate_late_refusal` | V | `NothingWrittenWithoutReport` on a Pipecat task that takes its pipeline as an expression | 1 repository |
| `registration` | P | `SpecsFaithful`, `InputsDistinct`, `UploadedWasApproved`, `VerifiedIsRegistered`, `NothingRemovedUnapproved`, `ReapplyIsNoop`, `DryRunForetells`, `OnlyVerifiedOrHalfway` | 2 names; parameters with a hint, Boolean and text; 2 documents that share a base name, one outside the knowledge directory; contents small and too large; 2 agents, 1 edit (which makes pairs and triples of items in any order, and lets a document change after its approval), 1 approval, any number of commands |
| `shell` | P | `LiveSettingsHaveKeys`, `KeyBeforeLive`, `LinesMatchOneShot`, and that the shell implements `Session` (`SessionKept`) | every command with every line of up to two pieces, from words, options in both forms, flags and options without their value (two pieces are enough for an option against a repository, a setting or itself); 2 directories, one also written with a tilde, 2 numbers; every setting these can reach |

A passing run leaves out, by its `Faults`, `EditPoints`, `Repos` or `Lines`, or
its property names, the cases in which the property is known to be false.  Those
cases are:

* **A write that fails half way** (`patch_torn_write`).  `write_text` truncates
  before it can raise, and the file is put on `written` only afterwards
  (patching.py:95-96), so the handler does not restore it.  Its original is
  still in the backups (`NoUserTextLost`).
* **A manifest that cannot be written** (patching.py:112-116 is outside the
  try block): every file stays patched and there is nothing to roll back with.
* **A save between the two reads** of a target.  `render` takes the
  hash to compare with from a second read (patching.py:39), after the new text
  was computed from a first one; the hash check then passes on a file the text
  was not computed from.
* **A save between the hash check and the write**, or between rollback's check
  and its copy: overwritten.  The first is in the backups, the second is not.
* **A placeholder creation whose answer is lost** (`reconcile_duplicate_agent`).
  `except AgentError` at reconcile.py:197 also catches `MaybeCommitted` and goes
  on to the next placeholder: two agents.
* **A tool added between the GET and the PATCH** of reconcile.py:214-242: the
  full list that is sent does not have it, so it is removed without approval.
* **A completion that is not a valid plan** (`budget_rejected_plan`) is billed,
  but `_parse` (planner/client.py:78) raises before `record` (83).
* **Two commands at once**, a **billed timeout that is retried**, and a **kill
  while the ledger is rewritten** each let the provider charge more than a cap.
  `OrderlySpendCapped` and `LedgerTruthful` are about histories without them;
  `RunSpendCapped` allows a command three times its cap otherwise, one for each
  attempt; the ledger itself stays within its cap always (`LedgerWithinCap`).
* **A Pipecat task whose pipeline is an expression and that has other keywords**
  (`integrate_late_refusal`): `Pipeline([...]) = cekura_tracer.track_pipeline(...)`
  is written (adapters/pipecat.py:145), which does not parse, and
  `prepare_platform_state` (orchestrator.py:227) then finds the repository
  unsupported: exit code 2, no report, files patched.
* **A plan that aims a package or a placeholder at a file of its choice.**
  `_check_path` is given `action.file` only, and `build_file_edits` writes to
  `params["manifest"]` and `params["file"]` first (adapters/__init__.py:97, 102).
  So a plan can change a test, against SECURITY.md:18 and DESIGN.md:19.  A package
  in `docs/requirements-notes.md` satisfies `post:dependency_added`, which says
  "present in a dependency manifest" (orchestrator.py:208): `HonestExit` asks for
  the dependency in a manifest or for such `Misplaced` lines among the changes.  `cekura[livekit]` at the end
  of the entrypoint parses, passes every check and fails when the agent is
  loaded: `Traced` looks for sessions in files without it, `HonestExit` names the
  case.  `CEKURA_API_KEY=` at the end of the entrypoint does not parse, and
  `prepare_platform_state` refuses after the files are written:
  `NothingWrittenWithoutReport` is about commands that have `Garbled` no Python
  file.
* **`import os` inside a function only** (adapters/base.py:83 looks in every
  scope): the module-level tracer is written without it and no check notices
  (`OsOutOfReach` in `HonestExit`).
* **`enable_tracing` or `enable_turn_tracking` there and not the constant
  `True`**, **an entrypoint nested in a function** and **a dependency that is
  there already**: the gate says supported, the edit is right
  and a check then fails (`ExpectedFailures` in `SupportedIsIntegrated`, which
  asks for exactly these failures).  **A manifest under `tests/` that sorts
  first** is planned for and then refused by `validate_plan`, before writing.
* **A line of an integration deleted by hand**: `verify` passes a file that
  kept its tracer but lost the call, or that lost an import (`OutOfSight` in
  `VerifySound`).  Nor does it look for requirements that a plan put into a
  Python file.
* **A document changed after its approval** is uploaded as it is now: the hash
  in `desired.json` is compared with nothing.  `UploadedWasApproved` is about the
  entry, its path and hash.
* **A document whose base name the platform has** is never uploaded, whatever
  it holds (reconcile.py:267); `VerifiedIsRegistered` names it.
* **A tool with Boolean parameters only** gets three identical inputs with three
  outputs; `InputsDistinct` names it, against the comment of mock_tools.py:33.
* **A desired state without an agent id** creates an agent each time it is
  applied; `ReapplyIsNoop` is about one with an id.
* **A repository written after an option** in the shell: the session's is put in
  front and click sees two (`LinesMatchOneShot` names it, against cli.py:73).
* **An option given twice** in the shell: the key prompt looks at the first
  value, click at the last (`KeyBeforeLive` leaves out repeated options).
* **An option that swallows the next option as its value**: such lines are not
  in `Lines`; the shell's `_option_value` and click disagree on them.
* **A rollback cut short before it cleared `runs/latest`** leaves a name that
  cannot be loaded; no run of `LatestLoadable` has that fault.

`SupportedIsIntegrated` also names as legitimate two ends that write nothing: an
adapter that refuses, and the `ValueError` of the reference planner when an
entrypoint has several session starts or tasks.  `Traced` asks for one traced
session of the entrypoint; a model's plan for an entrypoint with several is
accepted and traces one of them.

### Deadlock and fairness

The patch and budget runs end when ids, commands and edits are used up,
`reconcile_faults` when no more agents may be created, and the shell when it is
closed, so these say `CHECK_DEADLOCK FALSE`; the other runs check for deadlock.

Only `Reconcile` states fairness: `WF_vars(Step)`, every step of a run in
progress except being killed is eventually taken, because every request has a
timeout and GETs are retried at most three times (client.py:27, 45).  Nothing
is assumed of people, of late requests or of new runs.

## 4. The proofs

`tlapm PatchingProofs.tla` and so on check them; nothing is taken on trust.

| Theorem | Says | Assumes |
| --- | --- | --- |
| `PatchingProofs!TypeCorrect`, `UserTextSafe` | `TypeOK`, `NoUserTextLost` for any number of files, runs and texts, any exceptions and kills | `SafePoints`: nobody saves a file while a command is between reading and overwriting it |
| `PatchingProofs!RollbackRestores`, `ManifestIsTrue`, `ManifestStaysBacked`, `WritesAreCurrent` | `RollbackExact`, `ManifestTruthful`, `LiveManifestIsBacked`, `WritesMatchBase`, still with any exceptions and kills | `Quiet`: nobody saves between a run's validation and its end, or during a rollback |
| `PatchingProofs!ExceptionsUndoTheRun` | `AllOrNothing` | `Quiet`, `HandlerSucceeds` (no kill; no write, restore or manifest fails half way), and `runs/latest` can be written |
| `PatchingProofs!LatestIsLoadable` | `LatestLoadable` | `Quiet`, `RollbackEnds` (no kill, and a rollback can clear `runs/latest`) |
| `PatchingProofs!ExecutorIsAtomic` | `RunsAreAtomic`: the executor implements `AtomicRuns` | `Quiet`, `HandlerSucceeds`, and no rollback fails half way |
| `ReconcileProofs!ReconcileTypeCorrect` | `TypeOK`: the agent a run works on exists | nothing |
| `ReconcileProofs!DeletionsAreApproved`, `VerifiedIsTrue`, `DryRunsAreDry` | `NoUnapprovedDeletion`, `VerifiedMatches`, `DryRunWritesNothing` | `Undisturbed`: people edit the platform between runs only, and no request commits late |
| `ReconcileProofs!LostAnswersAreRecognised` | `NoSpuriousFailure` | `Faithful`: as above, and the platform stores what it is sent |
| `ReconcileProofs!DesiredStateIsKept` | `StaysConverged` | nothing |
| `ReconcileProofs!OneAgentIsCreated` | `OneAgentPerRun` | `OneCreation`: no refusal for want of a connection method, or one fault at most |
| `BudgetProofs!BudgetTypeCorrect`, `LedgerStaysWithinCap`, `RunSpendIsCapped`, `LedgerIsTruthful`, `OrderlySpendIsCapped` | `TypeOK`, `LedgerWithinCap`, `RunSpendCapped`, `LedgerTruthful`, `OrderlySpendCapped` for any number of processes, any faults and kills | nothing (what they need of a history is in `orderly`) |
| `RegistrationProofs!TypeCorrect`, `UploadsAreApproved`, `WritesAreVerifiedOrHalfway` | `TypeOK`, `UploadedWasApproved`, `OnlyVerifiedOrHalfway` for any repository, documents, approvals and number of edits | nothing |
| `RegistrationProofs!SpecsAreFaithful`, `InputsAreDistinct` | `SpecsFaithful`, `InputsDistinct`: what the loops of `features/` compute of any evidence in any order | nothing |
| `RegistrationProofs!VerifiedRegisters`, `NothingIsRemovedUnapproved`, `ReapplyingIsNoop`, `DryRunsForetell` | `VerifiedIsRegistered`, `NothingRemovedUnapproved`, `ReapplyIsNoop`, `DryRunForetells`, command after command | nothing |
| `ShellProofs!ShellTypeCorrect`, `LiveSettingsAreKeyed` | `TypeOK`, `LiveSettingsHaveKeys` for any lines, directories and numbers | nothing |
| `ShellProofs!LinesMatch`, `KeysComeBeforeLiveRuns` | `LinesMatchOneShot`, `KeyBeforeLive` for any lines, however long | nothing |
| `ShellProofs!ShellKeepsSession` | `SessionKept`: the shell implements `Session` | `NothingSwallowed`: an option that takes a value is followed by a word, if by anything |
| `IntegrationProofs!TypeCorrect`, `TracedAtMostOnceHolds` | `TypeOK`, `TracedAtMostOnce` for any repositories, any plan a model may propose, any deletions | nothing |
| `IntegrationProofs!HonestExitHolds` | `HonestExit`: exit 0 means traced, for any accepted plan with any number of packages and placeholders anywhere, but for the cases the property names | nothing |
| `IntegrationProofs!NothingWrittenWithoutReportHolds` | `NothingWrittenWithoutReport` | `NamesAll`: no task takes its pipeline as an expression (`integrate_late_refusal` shows what happens otherwise) |
| `IntegrationProofs!VerifyAgreesHolds` | `VerifyAgrees`, while Python reads every file (`Legible(repo)`) | `NamesAll` and `NoStray`: no file of the customer's makes a `PipecatTracer` at module scope, which `verify` fails in any mode |
| `OutcomeProofs!SupportedIsIntegratedHolds` | `SupportedIsIntegrated`: the reference plan of a supported repository is accepted, carried out, and fails the expected checks and no other | `Tidy(base)`, of the repository the command found (below) |
| `OutcomeProofs!VerifySoundHolds` | `VerifySound`: `verify` passes nothing that is not traced, whatever was integrated and deleted before | `Fresh`, of the repositories at first (below) |

**Patching.** `NoUserTextLost` says of every file that what the customer last
left in it is on disk or in a backup.  It is not inductive: the step that
overwrites a file needs to know that the file was copied just before and not
changed since, that the copy went to a place that held no other copy, and that
a rollback only overwrites what the adapters wrote.  `UserTextInv` adds these:
`NextIsCopied`, `NoBackupsYet` and `TodoHasNoBackup`, `EditsAreNotUserTexts` and
`RollbackVerified`, and `WrittenIsBackedUp` for the restore handler.  The proof
has one lemma for each action; two lemmas about overwriting a file whose text is
backed up, or which the caller of `--force` gave up, carry most of them.

**Rollback.** That a rollback is exact relates a copy to what its run found,
perhaps many runs earlier.  `RollbackInv` follows that through the write loop: a
file is done and copied or untouched (`DoneOrUntouched`, `CopiedInTurn`), so that
a manifest is true when it is written, and copies of a live run are never
touched again; and through the rollback (`RestoredSoFar`).

**Atomicity.** `AtomicInv` says what the handler will find: what is on `written`
is what was written (`WrittenIsDone`), and the rest is as the run found it
(`HandlerRestores`).  From it every step of the executor maps to one of
`AtomicRuns` or to a stutter: a run happens when its manifest is written
(`WriteManifest`) and is undone when the restore loop of its rollback begins.

**Reconcile.** `RunInv` relates what a run has read and sent to the platform:
from `get_vars` on the platform's tools are the list sent, which has no
unapproved removal; what the GET-after requests have seen is what is there.
Between two requests of a run only the run's own mutations change the platform,
which is where `Undisturbed` is used.

**Convergence.** These hold with every fault at any point.  `SentDesired` says
that what may still reach the platform, now or late, is the desired state: a run
that passed the gate has nothing else to keep.  `AgentInv` counts: agents, plus
creations that may still commit, plus one if the run has yet to send its
creation, are at most one more than the runs that asked for one.

**Budget.** `LedgerInv`: a process past its check holds a cumulative amount
that stays within the cap when its cost is added, whatever others do to the
file.  `SpendInv` bounds what the attempts made so far have cost.  `AccountInv`
balances what is charged, what is in memory and what is in the file at each step
of the one command, as long as commands have been orderly.

**Loops.** The models write the loops of the code as folds.  `InOrder` proves of
any of them that what it computes is the last value of a sequence that starts
with the loop's first value and makes each of the one before (`FoldRun`), and an
induction principle for intervals of numbers stated for sets, not predicates
(`IntervalInductive`): this is how an induction over data comes within reach.  A
loop is an instance with its body for `Op`.

**Registration.** `UploadInv`: what `desired.json` has as approved, its owner
approved there (`ApprovalsOwned`); a state computed anew has nothing approved,
which is why `integrate` uploads nothing.  `ToolsSaid`, `PromptsSaid` and
`VariablesSaid` are the loop invariants of the specs: what they say of a name
once some of the evidence has been looked at.  `Typed` is inductive; from it
every step is one of three (`Reconciling`, `Announcing`, `Other`), which is what
the action properties are proved from.  `ReportTrue` relates the last report to
the agent it is about: a verified one is settled, a dry run's diff is the next
run's.

**Shell.** `LiveSettingsHaveKeys` is inductive as it stands; the work is in
`Configure`, which may be broken off between the two services.  The others
compare what click reads from two lines, the one typed and the one the shell
makes of it.  `Cited` is the invariant of click's loop over the tokens (what it
has read of each option, what is pending), `ReadingExtended` says that reading
the two lines stays in step up to the tokens the shell appends, and that
appended options are read as given.  `ShellKeepsSession` also needs the front:
where the session's repository goes, and that the key prompt's reading of an
option is click's.

**Integration.** `IInv` says that the repository is well formed, that no file
calls a tracer twice, and that at the stage that patches the plan is one the
validator accepted.  Its hard step is `Patch`.  The lemmas for it follow a plan
through the code: the evidence it cites is what stands in the files; the adapter
anchors in a session start, or a task, of the one entrypoint; two edits by line
number make of a file its old lines in their order, the header and the new
lines (`Edited`); so a file without a tracer call gets exactly one.
Whatever packages and placeholders come with it: they are appended, and change
only whether a file is read (`TextsGrow`).  `ReportInv` adds that what was
written is still supported, unless the plan has garbled a Python file: an edit
keeps every kind of line the gate looks at, in its order (`Keeps`), so that the
framework, the entrypoint (`SameEntries`) and the aggregator pair are the same
and the platform stage's own plan, to change nothing, is valid.  `VerifyInv` adds what
the checks say of such a repository: a file that was not written passes in any
mode, and the call that was written fails `mode_consistent` in the other one.
`HonestInv` remembers what was written and that its checks passed; from these it
follows that the new call comes before the session's start, has the agent, and
that the tracer it uses and the imports of that are bound before it; for a
wrapped pipeline, that the flags and the handlers are the last task's.  It is
there that `OsOutOfReach` is needed.  `Depends` is what `post:dependency_added`
really establishes.

**The reference plan.** `StageInv` follows a command with the reference planner
stage by stage: the plan is `FakePlan`, which the validator accepts
(`FakePlanAccepted`); the repository is what the adapters make of it; the checks
that failed are `ExpectedFailures`; the platform stage finds nothing to change.
In between each check is decided: `SessionLines` and `TaskLines` say which lines
the written file has, `LiveKitPasses` and `PipecatPasses` what every check says
of them.  `Tidy` is what that takes of the customer's code, and each part of it
rules out a supported repository on which the property is false:

* `NamesAll`, `NoStray`: as above.
* `SessionsApart`: two starts of sessions of one name are in the same functions or
  have none in common.  Otherwise a start in a function around the entrypoint,
  above it, makes `tracer_before_start` fail too.
* `HandlersLate`: no handlers are registered above a task.  Otherwise
  `register_task_handlers` fails.  Where a file has two tasks, a `register` line
  that an earlier integration wrote and the customer did not delete with the rest
  can be such a line.
* `FlagsAgree`: no task has a tracing flag twice, as `True` and as something else,
  which Python rejects.

**What verify passes.** `verify` looks at files and not at the agent, so that
what it passes depends on where the lines of the SDK are.  `Trail` says where:
there are none, or all are in one file and trace one function, the only one that
can be an entrypoint, in their order (`SessionTrace`, `TaskTrace`).  It survives
the deletion of any line (`ShrunkTrail`: what is left of a file has its lines in
their order), and an integration, which is only made when the scanner sees
nothing of an earlier one, writes all of its lines for the one entrypoint
(`WrittenTrail`).  If then `verify` passes, the call that is left is the
entrypoint's, and the checks say the rest (`PassedIsTraced`).  `Fresh` is what
makes `Trail` true at first: `NamesAll`, no line of the SDK (`Untouched`), and in
a function one session, in a file one task (`OneEach`).  Without the second a
tracer in a helper passes for the agent's; without the third, deleting the traced
session's start leaves another, untraced one, which `verify` does not miss.

The theorems use the named assumptions of the modules, which say what the
constants are (`ReposAssumption`, `ManifestsAssumption`, `PathsAssumption`, `NamesAssumption`,
`PlannersAssumption`, `EvidenceAssumption`, `LinesAssumption`, ...): repositories
are finite and have files whose lines are inside functions of the file, evidence
is a sequence of items, a line a sequence of tokens.  TLC evaluates each of them
in the runs.  Bounds (`MaxEdits`, `MaxCites`, `MaxTexts`, `MaxFaults`) are any natural numbers.

The type invariants of `Reconcile`, `Budget` and `Shell` are proved and in no run;
those of `Patching`, `Integration` and `Registration` are proved and checked by
TLC as well.

Every invariant and action property of the passing runs is stated by one of these
theorems.  Left to TLC is the liveness property `RunConverges` (liveness and
ENABLED are beyond this prover); and the runs check the two theorems with
hypotheses about the customer's code on all of their repositories, of which one,
with two tasks in a file, is not `Fresh`.

## 5. Not modelled

Text-level work: building and walking syntax trees in the scanner, prompts,
diffs, formatting of reports, path and secret patterns (`safety.py`).  Of the
specs, the wording: outputs, free-text parameters, privacy flags, the agent's
description.  Of the plans, code inside the strings of a package or a key (a
package is one requirement, a placeholder one key), two spellings of one path,
and paths outside the root, which `patching.py` refuses before it writes.  Of
the customer's code, `**kwargs` in a `PipelineTask`, secrets, and which module
imports which.  `.env.example`.  `--output`, `--base-url`, `--help` and `/status`,
which change no state of the shell.  HTTP authentication and routing.  Line
endings and file modes.  `report.py`, `config.py`, `errors.py` and `models.py`
hold formatting, defaults and data classes; what a default or an error decides
is in the module that uses it.  `eval/` runs the tool over sample agents.

One hazard has no property: a save between rollback's check and its copy is lost
(patching.py:152), and no document promises more.  The files that are patched are
never compared with the ones that were inspected (orchestrator.py:178);
`WritesMatchBase` says what holds instead, that a file is only overwritten while
it has the text its patch was computed from.

## 6. Plan

1. *Done:* the components with their runs, the two refinements, and proofs of
   every safety property of every component.
2. `Integration` composed with `Patching` and `Registration` with `Reconcile`,
   so that a write that fails, or a platform that refuses, meets the report and
   the exit code.
3. Proofs about other code of the customer's than `Tidy` and `Fresh` allow, which
   needs weaker properties first: `SupportedIsIntegrated` with the checks that
   such code fails by name, `VerifySound` with what else `verify` does not see.
