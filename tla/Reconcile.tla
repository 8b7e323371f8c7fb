----------------------------- MODULE Reconcile ------------------------------
(***************************************************************************)
(* Desired-state reconciliation of the Cekura platform: reconcile() of     *)
(* src/cekura_agent/platform/reconcile.py over the HTTP client of          *)
(* client.py.  Runs follow one another; each is a sequence of GETs and     *)
(* mutations, between which the dashboard's users may edit the platform    *)
(* and requests that timed out may still commit.                           *)
(*                                                                         *)
(* The platform is external: its operations (create, full-list replace of  *)
(* the mock tools, upsert of dynamic variables, upload of documents) are   *)
(* those the client relies on and fake_server.py imitates.  A collection   *)
(* maps every name to a value (the contract fields _normalize_* keeps) or  *)
(* to NoVal; of the documents only the names are ever compared.            *)
(***************************************************************************)
EXTENDS Naturals, FiniteSets

CONSTANTS
  Tools, Vars, Docs,  \* names of mock tools, dynamic variables, documents
  Vals, NoVal,
  DesiredTools, DesiredVars,  \* the desired state
  ApprovedDocs,               \* kb_uploads with approved = true
  AgentIds, Seed,     \* bound: ids the platform can give; one in use
  NoAgent,
  Options,            \* what a run may be asked: [target, apply, approve]
  Faults,             \* answers other than a success that may come back
  MaxFaults,          \* bound: faults
  EditPoints,         \* points of a run at which people may edit the platform
  MaxEdits,           \* bound: edits by people
  MaxCreates          \* bound: runs that ask for a new agent

Collection(names) == [names -> Vals \cup {NoVal}]
Option  == [target : AgentIds \cup {NoAgent}, apply : BOOLEAN, approve : BOOLEAN]
Answers == {"ok", "timeout", "late", "rejected", "connection", "corrupt"}

ASSUME DesiredAssumption ==
  /\ DesiredTools \in Collection(Tools) /\ DesiredVars \in Collection(Vars)
  /\ ApprovedDocs \subseteq Docs
  /\ NoVal \notin Vals
ASSUME AgentAssumption ==
  /\ Seed \in AgentIds /\ NoAgent \notin AgentIds
  /\ Options \subseteq Option
ASSUME BoundsAssumption == {MaxFaults, MaxEdits, MaxCreates} \subseteq Nat

VARIABLES
  platform,  \* agent id |-> [tools, vars, docs] or NoAgent
  inflight,  \* mutations that timed out and may still commit
  pc, opt,   \* the run in progress and what it was asked
  agent,     \* agent_id
  hasDocs,   \* knowledge_base_files of the agent as first fetched
  attempt,   \* index in `placeholders`
  final,     \* final_tools
  curVars,   \* current_vars
  seen,      \* what the GET-after requests have returned so far
  \* observers
  outcome,   \* how the last run ended
  removed,   \* some PATCH removed a tool no run was allowed to remove
  faults, edits, creates

client   == <<opt, agent, hasDocs, attempt, final, curVars, seen>>
counters == <<faults, edits, creates>>
vars     == <<platform, inflight, pc, client, outcome, removed, counters>>

PCs == {"idle", "resolve", "create", "placeholder", "get_agent", "get_tools",
        "patch_tools", "check_tools", "get_vars", "post_vars", "check_vars",
        "docs", "after_tools", "after_vars", "after_agent"}
Outcomes == {"none", "running", "dry_run", "verified", "needs_human", "error",
             "contract", "maybe_committed"}
Agent == [tools : Collection(Tools), vars : Collection(Vars), docs : SUBSET Docs]
ASSUME NoAgentAssumption == NoAgent \notin Agent
Mutation ==
  [kind : {"create"}]
  \cup [kind : {"tools"}, agent : AgentIds, value : Collection(Tools), approved : BOOLEAN]
  \cup [kind : {"vars"}, agent : AgentIds, value : Collection(Vars)]
  \cup [kind : {"docs"}, agent : AgentIds, value : SUBSET Docs]
NoTools == [n \in Tools |-> NoVal]
NoVars  == [n \in Vars |-> NoVal]

TypeOK ==
  /\ platform \in [AgentIds -> Agent \cup {NoAgent}]
  /\ inflight \subseteq [no : 0..MaxFaults, body : Mutation]
  /\ pc \in PCs /\ opt \in Option /\ outcome \in Outcomes
  /\ agent \in AgentIds \cup {NoAgent}
  /\ hasDocs \subseteq Docs /\ attempt \in 1..2
  /\ final \in Collection(Tools) /\ curVars \in Collection(Vars)
  /\ seen \in [tools : Collection(Tools), vars : Collection(Vars)]
  /\ removed \in BOOLEAN
  /\ faults \in 0..MaxFaults /\ edits \in 0..MaxEdits /\ creates \in 0..MaxCreates
  \* the agent a run works on exists
  /\ agent # NoAgent => platform[agent] # NoAgent

Idle == [target |-> NoAgent, apply |-> FALSE, approve |-> FALSE]

Init ==
  /\ \E seeded \in [tools : Collection(Tools), vars : Collection(Vars), docs : {{}}] :
       platform = [a \in AgentIds |-> IF a = Seed THEN seeded ELSE NoAgent]
  /\ inflight = {}
  /\ pc = "idle" /\ opt = Idle
  /\ agent = NoAgent /\ hasDocs = {} /\ attempt = 1
  /\ final = NoTools /\ curVars = NoVars /\ seen = [tools |-> NoTools, vars |-> NoVars]
  /\ outcome = "none" /\ removed = FALSE
  /\ faults = 0 /\ edits = 0 /\ creates = 0

-----------------------------------------------------------------------------
(* The platform and the way to it                                          *)

Names(c)     == {n \in DOMAIN c : c[n] # NoVal}
Merge(c, d)  == [n \in DOMAIN c |-> IF d[n] # NoVal THEN d[n] ELSE c[n]]
NewAgent     == [tools |-> NoTools, vars |-> NoVars, docs |-> {}]
FreeIds(p)   == {a \in AgentIds : p[a] = NoAgent}
HasRoom(m)   == m.kind = "create" => FreeIds(platform) # {}
NextId(p)    == CHOOSE a \in AgentIds : a \in FreeIds(p)

\* What a collection holds after a mutation: the tools are replaced, variables
\* are upserted, a document whose name is known is not uploaded again.
Stored(kind, old, new) ==
  CASE kind = "tools" -> new
    [] kind = "vars"  -> Merge(old, new)
    [] kind = "docs"  -> old \cup new

Commit(m, p) ==
  IF m.kind = "create"
  THEN [p EXCEPT ![NextId(p)] = NewAgent]
  ELSE [p EXCEPT ![m.agent][m.kind] = Stored(m.kind, @, m.value)]

\* The platform accepts a write but keeps another value for some name.
Corrupt(m, n, v, p) == [Commit(m, p) EXCEPT ![m.agent][m.kind][n] = v]

RemovesTool(m, p) ==
  m.kind = "tools" /\ ~m.approved /\ ~(Names(p[m.agent].tools) \subseteq Names(m.value))

\* One _mutate call.  "timeout": committed, but the caller gets MaybeCommitted;
\* "late": MaybeCommitted, the request may commit later or never;
\* "rejected", "connection": an error answer, the second one naming the
\* missing connection method.
Mutate(m, answer) ==
  /\ answer = "ok" \/ (answer \in Faults /\ faults < MaxFaults)
  /\ answer \in {"ok", "timeout"} => HasRoom(m)
  /\ faults' = IF answer = "ok" THEN faults ELSE faults + 1
  /\ CASE answer \in {"ok", "timeout"} ->
            /\ platform' = Commit(m, platform)
            /\ removed' = (removed \/ RemovesTool(m, platform))
            /\ UNCHANGED inflight
       [] answer = "corrupt" ->
            /\ m.kind \in {"tools", "vars"}
            /\ \E n \in Names(m.value), v \in Vals : platform' = Corrupt(m, n, v, platform)
            /\ platform' # Commit(m, platform)
            /\ removed' = (removed \/ RemovesTool(m, platform))
            /\ UNCHANGED inflight
       [] answer = "late" ->
            /\ inflight' = inflight \cup {[no |-> faults, body |-> m]}
            /\ UNCHANGED <<platform, removed>>
       [] OTHER -> UNCHANGED <<platform, inflight, removed>>
  /\ UNCHANGED <<edits, creates>>

Succeeded      == {"ok", "corrupt"}
MaybeCommitted == {"timeout", "late"}

-----------------------------------------------------------------------------
(* The run                                                                 *)

Goto(p)    == pc' = p /\ UNCHANGED outcome
Finish(o)  == pc' = "idle" /\ outcome' = o
Environment == <<platform, inflight, removed, counters>>

StartRun(o) ==
  /\ pc = "idle"
  /\ opt' = o /\ outcome' = "running"
  /\ IF o.target = NoAgent
     THEN /\ creates < MaxCreates /\ creates' = creates + 1
          /\ pc' = "resolve"
     ELSE pc' = "get_agent" /\ UNCHANGED creates
  /\ agent' = NoAgent /\ hasDocs' = {} /\ attempt' = 1
  /\ final' = NoTools /\ curVars' = NoVars /\ seen' = [tools |-> NoTools, vars |-> NoVars]
  /\ UNCHANGED <<platform, inflight, removed, faults, edits>>

\* The project is given or the key's only one; a dry run ends here.
ResolveProject ==
  /\ pc = "resolve"
  /\ \/ Finish("needs_human")     \* PROJECT_REQUIRED
     \/ IF opt.apply THEN Goto("create") ELSE Finish("dry_run")
  /\ UNCHANGED <<client, Environment>>

Created ==
  /\ agent' = NextId(platform) /\ hasDocs' = {}
  /\ Goto("get_tools")
  /\ UNCHANGED <<opt, attempt, final, curVars, seen>>

\* Mutant: a creation that timed out is tried again.
CreateRetries(answer) ==
  /\ pc = "create"
  /\ Mutate([kind |-> "create"], answer)
  /\ CASE answer = "ok"         -> Created
       [] answer = "connection" -> Goto("placeholder") /\ UNCHANGED client
       [] answer = "rejected"   -> Finish("error") /\ UNCHANGED client
       [] OTHER                 -> Goto("create") /\ UNCHANGED client

\* create_agent: a refusal for want of a connection method leads to the
\* placeholders, any other error out of the run.
Create(answer) ==
  /\ pc = "create"
  /\ Mutate([kind |-> "create"], answer)
  /\ CASE answer = "ok"         -> Created
       [] answer = "connection" -> Goto("placeholder") /\ UNCHANGED client
       [] answer = "rejected"   -> Finish("error") /\ UNCHANGED client
       [] OTHER                 -> Finish("maybe_committed") /\ UNCHANGED client

\* whatsapp, then self_hosted: `except AgentError` goes on to the next one.
Placeholder(answer) ==
  /\ pc = "placeholder"
  /\ Mutate([kind |-> "create"], answer)
  /\ IF answer = "ok" THEN Created
     ELSE IF attempt = 1
     THEN /\ attempt' = 2 /\ Goto("placeholder")
          /\ UNCHANGED <<opt, agent, hasDocs, final, curVars, seen>>
     ELSE Finish("error") /\ UNCHANGED client    \* PROVIDER_CONNECTION_REQUIRED

GetAgent ==
  /\ pc = "get_agent"
  /\ IF platform[opt.target] = NoAgent
     THEN Finish("error") /\ UNCHANGED client
     ELSE /\ agent' = opt.target
          /\ hasDocs' = platform[opt.target].docs
          /\ Goto("get_tools")
          /\ UNCHANGED <<opt, attempt, final, curVars, seen>>
  /\ UNCHANGED Environment

\* Mutant: only the added and updated tools are sent.
GetToolsSendsChanges ==
  /\ pc = "get_tools"
  /\ LET current == platform[agent].tools
         delete  == Names(current) \ Names(DesiredTools)
     IN  IF delete # {} /\ ~opt.approve /\ opt.apply
         THEN Finish("needs_human") /\ UNCHANGED client
         ELSE /\ final' = [n \in Tools |-> IF current[n] = DesiredTools[n]
                                           THEN NoVal ELSE DesiredTools[n]]
              /\ Goto(IF opt.apply THEN "patch_tools" ELSE "get_vars")
              /\ UNCHANGED <<opt, agent, hasDocs, attempt, curVars, seen>>
  /\ UNCHANGED Environment

\* Mutant: deletions need no approval.
GetToolsUngated ==
  /\ pc = "get_tools"
  /\ final' = DesiredTools
  /\ Goto(IF opt.apply THEN "patch_tools" ELSE "get_vars")
  /\ UNCHANGED <<opt, agent, hasDocs, attempt, curVars, seen, Environment>>

\* Mutant: the approval is forgotten.
GetToolsAlwaysRefuses ==
  /\ pc = "get_tools"
  /\ IF ~(Names(platform[agent].tools) \subseteq Names(DesiredTools)) /\ opt.apply
     THEN Finish("needs_human") /\ UNCHANGED client
     ELSE /\ final' = DesiredTools
          /\ Goto(IF opt.apply THEN "patch_tools" ELSE "get_vars")
          /\ UNCHANGED <<opt, agent, hasDocs, attempt, curVars, seen>>
  /\ UNCHANGED Environment

\* GET, diff and the deletion gate; final_tools keeps what may not be deleted.
GetTools ==
  /\ pc = "get_tools"
  /\ LET current == platform[agent].tools
         delete  == Names(current) \ Names(DesiredTools)
     IN  IF delete # {} /\ ~opt.approve /\ opt.apply
         THEN Finish("needs_human") /\ UNCHANGED client
         ELSE /\ final' = IF opt.approve THEN DesiredTools
                          ELSE [n \in Tools |-> IF n \in delete THEN current[n]
                                                               ELSE DesiredTools[n]]
              /\ Goto(IF opt.apply THEN "patch_tools" ELSE "get_vars")
              /\ UNCHANGED <<opt, agent, hasDocs, attempt, curVars, seen>>
  /\ UNCHANGED Environment

\* _apply_mutation of the tools: once; a timeout leads to a GET and a compare.
PatchTools(answer) ==
  /\ pc = "patch_tools"
  /\ Mutate([kind |-> "tools", agent |-> agent, value |-> final,
             approved |-> opt.approve], answer)
  /\ CASE answer \in Succeeded      -> Goto("get_vars")
       [] answer \in MaybeCommitted -> Goto("check_tools")
       [] OTHER                     -> Finish("error")
  /\ UNCHANGED client

CheckTools ==
  /\ pc = "check_tools"
  /\ IF platform[agent].tools = final THEN Goto("get_vars") ELSE Finish("contract")
  /\ UNCHANGED <<client, Environment>>

\* Mutant: `apply` is not looked at.
GetVarsApplies ==
  /\ pc = "get_vars"
  /\ curVars' = platform[agent].vars
  /\ Goto("post_vars")
  /\ UNCHANGED <<opt, agent, hasDocs, attempt, final, seen, Environment>>

GetVars ==
  /\ pc = "get_vars"
  /\ curVars' = platform[agent].vars
  /\ Goto(IF opt.apply /\ Names(DesiredVars) # {} THEN "post_vars" ELSE "docs")
  /\ UNCHANGED <<opt, agent, hasDocs, attempt, final, seen, Environment>>

PostVars(answer) ==
  /\ pc = "post_vars"
  /\ Mutate([kind |-> "vars", agent |-> agent, value |-> DesiredVars], answer)
  /\ CASE answer \in Succeeded      -> Goto("docs")
       [] answer \in MaybeCommitted -> Goto("check_vars")
       [] OTHER                     -> Finish("error")
  /\ UNCHANGED client

\* Mutant: the variables are compared with the desired ones alone.
CheckVarsNoMerge ==
  /\ pc = "check_vars"
  /\ IF platform[agent].vars = DesiredVars THEN Goto("docs") ELSE Finish("contract")
  /\ UNCHANGED <<client, Environment>>

CheckVars ==
  /\ pc = "check_vars"
  /\ IF platform[agent].vars = Merge(curVars, DesiredVars)
     THEN Goto("docs") ELSE Finish("contract")
  /\ UNCHANGED <<client, Environment>>

ToUpload == ApprovedDocs \ hasDocs

SkipDocs ==
  /\ pc = "docs" /\ ~(opt.apply /\ ToUpload # {})
  /\ IF opt.apply THEN Goto("after_tools") ELSE Finish("dry_run")
  /\ UNCHANGED <<client, Environment>>

\* KB_ROOT_MISSING, KB_FILE_TOO_LARGE, a path outside the root or unreadable.
RefuseDocs ==
  /\ pc = "docs" /\ opt.apply /\ ToUpload # {}
  /\ "unreadable" \in Faults /\ faults < MaxFaults
  /\ faults' = faults + 1
  /\ \E o \in {"needs_human", "error"} : Finish(o)
  /\ UNCHANGED <<client, platform, inflight, removed, edits, creates>>

\* The upload is not wrapped in _apply_mutation: a timeout leaves the run.
UploadDocs(answer) ==
  /\ pc = "docs" /\ opt.apply /\ ToUpload # {}
  /\ Mutate([kind |-> "docs", agent |-> agent, value |-> ToUpload], answer)
  /\ CASE answer \in Succeeded      -> Goto("after_tools")
       [] answer \in MaybeCommitted -> Finish("maybe_committed")
       [] OTHER                     -> Finish("error")
  /\ UNCHANGED client

\* GET-after: three requests, then the comparison.
AfterTools ==
  /\ pc = "after_tools"
  /\ seen' = [seen EXCEPT !.tools = platform[agent].tools]
  /\ Goto("after_vars")
  /\ UNCHANGED <<opt, agent, hasDocs, attempt, final, curVars, Environment>>

AfterVars ==
  /\ pc = "after_vars"
  /\ seen' = [seen EXCEPT !.vars = platform[agent].vars]
  /\ Goto("after_agent")
  /\ UNCHANGED <<opt, agent, hasDocs, attempt, final, curVars, Environment>>

\* Mutant: names are compared, not values.
AfterAgentNames ==
  /\ pc = "after_agent"
  /\ IF /\ Names(seen.tools) = Names(final)
        /\ Names(DesiredVars) \subseteq Names(seen.vars)
        /\ ApprovedDocs \subseteq platform[agent].docs
     THEN Finish("verified") ELSE Finish("contract")
  /\ UNCHANGED <<client, Environment>>

AfterAgent ==
  /\ pc = "after_agent"
  /\ IF /\ seen.tools = final
        /\ \A n \in Names(DesiredVars) : seen.vars[n] = DesiredVars[n]
        /\ ApprovedDocs \subseteq platform[agent].docs
     THEN Finish("verified") ELSE Finish("contract")
  /\ UNCHANGED <<client, Environment>>

\* A GET fails for good (three attempts, or at once on 401/403/404), or the
\* process is killed.
Abort ==
  /\ pc # "idle" /\ "abort" \in Faults /\ faults < MaxFaults
  /\ faults' = faults + 1
  /\ Finish("error")
  /\ UNCHANGED <<client, platform, inflight, removed, edits, creates>>

-----------------------------------------------------------------------------
(* The environment                                                         *)

\* A request that timed out commits after all.
CommitLate(q) ==
  /\ HasRoom(q.body)
  /\ inflight' = inflight \ {q}
  /\ platform' = Commit(q.body, platform)
  /\ removed' = (removed \/ RemovesTool(q.body, platform))
  /\ UNCHANGED <<pc, client, outcome, counters>>

\* Somebody edits a tool or a variable in the dashboard.
EditPlatform(a, kind, n, v) ==
  /\ pc \in EditPoints /\ edits < MaxEdits
  /\ platform[a] # NoAgent
  /\ platform[a][kind][n] # v /\ (kind = "vars" => v # NoVal)
  /\ platform' = [platform EXCEPT ![a][kind][n] = v]
  /\ edits' = edits + 1
  /\ UNCHANGED <<inflight, pc, client, outcome, removed, faults, creates>>

-----------------------------------------------------------------------------
Step ==
  \/ ResolveProject \/ GetAgent \/ GetTools \/ CheckTools \/ GetVars \/ CheckVars
  \/ SkipDocs \/ RefuseDocs \/ AfterTools \/ AfterVars \/ AfterAgent
  \/ \E answer \in Answers :
       Create(answer) \/ Placeholder(answer) \/ PatchTools(answer)
         \/ PostVars(answer) \/ UploadDocs(answer)

Next ==
  \/ \E o \in Options : StartRun(o)
  \/ Step \/ Abort
  \/ \E q \in inflight : CommitLate(q)
  \/ \E a \in AgentIds, v \in Vals \cup {NoVal} :
       \/ \E n \in Tools : EditPlatform(a, "tools", n, v)
       \/ \E n \in Vars : EditPlatform(a, "vars", n, v)

\* Every request ends (the HTTP client has a timeout), so a run goes on.
Spec == Init /\ [][Next]_vars /\ WF_vars(Step)

-----------------------------------------------------------------------------
(* Properties                                                              *)

Matches(a) ==
  /\ platform[a] # NoAgent
  /\ platform[a].tools = DesiredTools
  /\ \A n \in Names(DesiredVars) : platform[a].vars[n] = DesiredVars[n]
  /\ ApprovedDocs \subseteq platform[a].docs

\* A run that reports "verified" leaves the platform with exactly the desired
\* tools, every desired variable and every approved document, whatever failed
\* in it or before it, a silently altered write included (reconcile 286-312).
VerifiedMatches ==
  [][outcome' = "verified" /\ outcome # "verified" => Matches(agent)]_vars

\* Once an agent matches, no later run, dry or not, failed or not, and no
\* request that commits late takes it out of the desired state: applying is
\* idempotent.  Only people do, and a platform that alters what it is sent
\* (a tool PATCH is sent again by every run that applies).
PlatformAlters == PatchTools("corrupt") \/ PostVars("corrupt")
StaysConverged ==
  [][edits' = edits /\ ~PlatformAlters
       => \A a \in AgentIds : Matches(a) => Matches(a)']_vars

\* Without --approve-deletions no PATCH removes a tool of the platform, and
\* the full-list replace is what makes that hard (SECURITY.md:24-25).
NoUnapprovedDeletion == ~removed

\* A dry run changes nothing on the platform.
DryRunWritesNothing == [][pc # "idle" /\ ~opt.apply => UNCHANGED platform]_vars

\* When the only faults are mutations that committed and whose answer was
\* lost, and nobody else edits during a run, the re-GET always recognises the
\* committed state: no run ends in a contract error (_apply_mutation,
\* _merge_vars).
NoSpuriousFailure == outcome # "contract"

\* A run leaves at most one new agent, also when the answer to the creation
\* was lost (client.py:6-7, reconcile.py:6-7).
OneAgentPerRun ==
  Cardinality({a \in AgentIds : platform[a] # NoAgent}) <= 1 + creates

\* Whatever earlier runs left half done, an approved run that no fault and no
\* edit meets any more ends verified.
QuietRun ==
  /\ pc = "get_agent" /\ opt.apply /\ opt.approve /\ opt.target = Seed
  /\ faults = MaxFaults /\ edits = MaxEdits
RunConverges == QuietRun ~> (pc = "idle" /\ outcome = "verified")
=============================================================================
