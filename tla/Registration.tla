---------------------------- MODULE Registration ----------------------------
(***************************************************************************)
(* How a repository gets registered on the platform: prepare-platform      *)
(* writes desired.json from the repository, its owner approves documents   *)
(* in it, apply-platform carries it out, and integrate on a staging        *)
(* platform does all of it for itself, approvals excepted                  *)
(* (orchestrator.py:226-256, 300-388).  Between any two commands the       *)
(* repository, its documents and the platform may change.                  *)
(*                                                                         *)
(* A command is one step here: what faults and concurrent edits do to its  *)
(* requests is Reconcile's subject, and whether the repository is supported*)
(* and patched correctly is Integration's.                                 *)
(***************************************************************************)
EXTENDS Features

CONSTANTS
  InitialItems,   \* evidence the repository may start with
  EditItems,      \* items the customer may add
  InitialDocs,    \* documents the repository may start with
  Base,           \* of a path: its base name
  TooLarge,       \* contents of more than 2 MB
  NoFile,         \* no desired.json yet
  NoAgent,        \* no --agent-id
  MaxAgents,      \* bound: agents on the platform
  MaxEdits,       \* bound: edits of the repository, its documents, the dashboard
  MaxApprovals    \* bound: entries the owner approves

ASSUME BoundsAssumption ==
  /\ MaxAgents \in Nat \ {0} /\ MaxEdits \in Nat /\ MaxApprovals \in Nat
  /\ NoAgent \notin 1..MaxAgents /\ TooLarge \subseteq Contents

ASSUME InitialDocsAssumption == InitialDocs \subseteq [Paths -> Contents \cup {NoDoc}]
ASSUME EvidenceAssumption == InitialItems \subseteq Seq(Item) /\ EditItems \subseteq Item
ASSUME BaseAssumption == DOMAIN Base = Paths

VARIABLES
  items, docs,   \* the repository: evidence, and what each document holds
  desired,       \* desired.json
  agents,        \* the platform: agents in the order of their ids
  report,        \* how the last command ended, until something changes
  \* observers
  owned,         \* entries the owner ever approved: path and hash
  uploaded,      \* documents ever uploaded: path, content, hash in the manifest
  edits, approvals

repository == <<items, docs>>
observers  == <<owned, uploaded>>
vars == <<repository, desired, agents, report, observers, edits, approvals>>

Agent == [tools |-> NoSpecs, vars |-> NoSpecs, kb |-> {}]
AgentIds == DOMAIN agents
Quiet == [command |-> "none", status |-> "NOT_RUN", exit |-> 0]

Init ==
  /\ items \in InitialItems /\ docs \in InitialDocs
  /\ desired = NoFile
  /\ agents = <<Agent>>          \* the one the dashboard was used to create
  /\ report = Quiet
  /\ owned = {} /\ uploaded = {}
  /\ edits = 0 /\ approvals = 0

-----------------------------------------------------------------------------
(* Desired state and its reconciliation                                    *)

\* prepare_platform_state.  With an agent id there is no agent spec.
Desired(agent) ==
  [agent |-> agent, tools |-> ToolPayloads(items), vars |-> VarPayloads(items),
   kb |-> KBManifest(items, docs)]

Approved(want) == {p \in DOMAIN want.kb : want.kb[p].approved}
BaseNames(kb) == {f.name : f \in kb}

\* Mutant: the approval is not looked at.
ToUploadAll(want, kb) == {p \in DOMAIN want.kb : Base[p] \notin BaseNames(kb)}

\* Approved documents whose base name the platform does not have.
ToUpload(want, kb) == {p \in Approved(want) : Base[p] \notin BaseNames(kb)}

\* Mutant: a variable the platform has is left as it is.
MergeVarsKeepsOld(current, new) ==
  [n \in DOMAIN current \cup DOMAIN new |->
     IF n \in DOMAIN current THEN current[n] ELSE new[n]]

\* _merge_vars: the platform upserts.
MergeVars(current, new) ==
  [n \in DOMAIN current \cup DOMAIN new |-> IF n \in DOMAIN new THEN new[n] ELSE current[n]]

Deletions(agent, want) == DOMAIN agent.tools \ DOMAIN want.tools

\* Mutant: a changed entry is not part of the diff.
DiffNamesOnly(current, new) == DOMAIN new \ DOMAIN current

\* diff_named: what apply would add, or change.
Diff(current, new) ==
  {n \in DOMAIN new : n \notin DOMAIN current \/ new[n] # current[n]}

\* Documents that cannot be uploaded: gone, or more than 2 MB by now.
Unreadable(want, kb) == {p \in ToUpload(want, kb) : docs[p] = NoDoc \/ docs[p] \in TooLarge}

\* Tools are replaced, variables upserted, and the documents all sent in one
\* request or, when one of them cannot be, none.
Written(agent, want) ==
  [tools |-> want.tools, vars |-> MergeVars(agent.vars, want.vars),
   kb |-> IF Unreadable(want, agent.kb) # {} THEN agent.kb
          ELSE agent.kb \cup {[name |-> Base[p], content |-> docs[p]] : p \in ToUpload(want, agent.kb)}]

\* Mutant: a run creates an agent although it has an id.
TargetAlwaysNew(want) == Len(agents) + 1

\* Without an agent id every run that applies creates one.
Target(want) == IF want.agent = NoAgent THEN Len(agents) + 1 ELSE want.agent

Current(want) == IF want.agent = NoAgent THEN Agent ELSE agents[want.agent]

\* Mutant: deletions need no approval.
RefusesUnapproved(want, approve) == FALSE

Refuses(want, approve) == Deletions(Current(want), want) # {} /\ ~approve

\* What a dry run prints about an agent: additions and updates of both lists,
\* deletions, and the documents to upload.
DryRun(want) ==
  [tools |-> Diff(Current(want).tools, want.tools), vars |-> Diff(Current(want).vars, want.vars),
   deletions |-> Deletions(Current(want), want), docs |-> ToUpload(want, Current(want).kb)]

\* reconcile with apply: the agents it leaves, what it uploads, how it ends.
Store(want) ==
  LET a == Target(want)
  IN  agents' = IF a \in AgentIds THEN [agents EXCEPT ![a] = Written(@, want)]
                ELSE Append(agents, Written(Agent, want))

Reconciled(command, want, approve) ==
  LET sent    == ToUpload(want, Current(want).kb)
      broken  == Unreadable(want, Current(want).kb)
      ended(status, exit) ==
        report' = [command |-> command, status |-> status, exit |-> exit, approve |-> approve,
                   want |-> want, agent |-> Target(want)]
  IN  \/ /\ Refuses(want, approve)
         /\ ended("NEEDS_HUMAN", 2)
         /\ UNCHANGED <<agents, uploaded>>
      \/ /\ ~Refuses(want, approve)
         /\ want.agent = NoAgent => Len(agents) < MaxAgents
         /\ Store(want)
         /\ \/ /\ broken = {}
               /\ ended("LIVE_VERIFIED", 0)
               /\ uploaded' = uploaded \cup
                    {[path |-> p, content |-> docs[p], sha256 |-> want.kb[p].sha256] : p \in sent}
            \/ /\ \E p \in broken : ended("DOCUMENT", IF docs[p] = NoDoc THEN 1 ELSE 2)
               /\ UNCHANGED uploaded

\* Mutant: a dry run sends what it shows.
DryReconciledWrites(command, want) ==
  /\ report' = [command |-> command, status |-> "NOT_RUN", exit |-> 0,
                want |-> want, agent |-> want.agent, diff |-> DryRun(want)]
  /\ want.agent # NoAgent /\ Store(want)
  /\ UNCHANGED uploaded

\* reconcile without apply: only GETs.
DryReconciled(command, want) ==
  /\ report' = [command |-> command, status |-> "NOT_RUN", exit |-> 0,
                want |-> want, agent |-> want.agent, diff |-> DryRun(want)]
  /\ UNCHANGED <<agents, uploaded>>

Blocked(command, exit) ==
  /\ report' = [command |-> command, status |-> "BLOCKED", exit |-> exit]
  /\ UNCHANGED <<agents, uploaded>>

-----------------------------------------------------------------------------
(* Commands                                                                *)

\* prepare-platform --out desired.json: the file is written anew.
PreparePlatform(agent) ==
  /\ desired' = Desired(agent)
  /\ report' = Quiet
  /\ UNCHANGED <<repository, agents, observers, edits, approvals>>

\* apply-platform against staging, with the key.
ApplyPlatform(apply, approve) ==
  /\ desired # NoFile
  /\ IF apply THEN Reconciled("apply", desired, approve) ELSE DryReconciled("apply", desired)
  /\ UNCHANGED <<repository, desired, owned, edits, approvals>>

\* Offline there is no server (the override of its address is for tests), and
\* staging needs the key.
ApplyBlocked ==
  /\ desired # NoFile
  /\ Blocked("apply", 1)
  /\ UNCHANGED <<repository, desired, owned, edits, approvals>>

\* The platform step of integrate --platform-mode staging: the desired state is
\* computed anew, --e2e must be given too, and no deletion can be approved.
IntegrateStaging(agent, apply, e2e) ==
  /\ \E want \in {Desired(agent)} :
       IF apply /\ e2e THEN Reconciled("integrate", want, FALSE)
       ELSE DryReconciled("integrate", want)
  /\ UNCHANGED <<repository, desired, owned, edits, approvals>>

\* Without the key that is a status of the report and not an error.
IntegrateBlocked ==
  /\ Blocked("integrate", 0)
  /\ UNCHANGED <<repository, desired, owned, edits, approvals>>

-----------------------------------------------------------------------------
(* The owner, the customer and users of the dashboard                      *)

\* The owner sets "approved": true in an entry of desired.json.
Approve(p) ==
  /\ desired # NoFile /\ approvals < MaxApprovals
  /\ p \in DOMAIN desired.kb /\ ~desired.kb[p].approved
  /\ desired' = [desired EXCEPT !.kb[p].approved = TRUE]
  /\ owned' = owned \cup {[path |-> p, sha256 |-> desired.kb[p].sha256]}
  /\ approvals' = approvals + 1 /\ report' = Quiet
  /\ UNCHANGED <<repository, agents, uploaded, edits>>

Edited ==
  /\ edits < MaxEdits /\ edits' = edits + 1 /\ report' = Quiet
  /\ UNCHANGED <<desired, observers, approvals>>

AddItem(k, item) ==
  /\ Edited
  /\ items' = SubSeq(items, 1, k) \o <<item>> \o SubSeq(items, k + 1, Len(items))
  /\ UNCHANGED <<docs, agents>>

RemoveItem(k) ==
  /\ Edited
  /\ items' = SubSeq(items, 1, k - 1) \o SubSeq(items, k + 1, Len(items))
  /\ UNCHANGED <<docs, agents>>

SaveDocument(p, c) ==
  /\ Edited /\ docs[p] # c
  /\ docs' = [docs EXCEPT ![p] = c]
  /\ UNCHANGED <<items, agents>>

\* A mock tool made in the dashboard.
AddForeignTool(a, n) ==
  /\ Edited /\ n \notin DOMAIN agents[a].tools
  /\ agents' = [agents EXCEPT ![a].tools = Put(@, n, << >>)]
  /\ UNCHANGED <<items, docs>>

Commands ==
  \/ \E agent \in AgentIds \cup {NoAgent} : PreparePlatform(agent)
  \/ \E apply, approve \in BOOLEAN : ApplyPlatform(apply, approve)
  \/ \E agent \in AgentIds \cup {NoAgent}, apply, e2e \in BOOLEAN :
       IntegrateStaging(agent, apply, e2e)
  \/ ApplyBlocked \/ IntegrateBlocked

People ==
  \/ \E p \in Paths : Approve(p)
  \/ \E item \in EditItems, k \in 0..Len(items) : AddItem(k, item)
  \/ \E k \in DOMAIN items : RemoveItem(k)
  \/ \E p \in Paths, c \in Contents \cup {NoDoc} : SaveDocument(p, c)
  \/ \E a \in AgentIds, n \in Names : AddForeignTool(a, n)

Next == Commands \/ People

Spec == Init /\ [][Next]_vars

-----------------------------------------------------------------------------
(* Properties                                                              *)

TypeOK ==
  /\ items \in Seq(Item) /\ docs \in [Paths -> Contents \cup {NoDoc}]
  /\ desired # NoFile =>
       /\ desired.agent \in AgentIds \cup {NoAgent}
       /\ DOMAIN desired.tools \subseteq Names /\ DOMAIN desired.vars \subseteq Names
       /\ \A p \in DOMAIN desired.kb :
            p \in Paths /\ desired.kb[p] \in [sha256 : Contents, approved : BOOLEAN]
  /\ Len(agents) \in 1..MaxAgents
  /\ \A a \in AgentIds :
       /\ DOMAIN agents[a].tools \subseteq Names /\ DOMAIN agents[a].vars \subseteq Names
       /\ agents[a].kb \subseteq [name : Range(Base), content : Contents]
  /\ report.exit \in 0..2
  /\ edits \in 0..MaxEdits /\ approvals \in 0..MaxApprovals

\* The specs computed from any evidence are complete, cite all of it, keep the
\* last definition that has parameters, and register nothing only a document
\* mentions, whatever order the scanner found things in.
SpecsFaithful == ToolsFaithful(items) /\ VariablesFaithful(items)

\* The platform maps each input of a mock tool to exactly one output.
InputsDistinct == MocksAreFunctions(items)

\* Discovery alone never uploads (knowledge_base.py:4-5): what was uploaded is
\* an entry the owner approved, with the hash it had in the manifest then.
UploadedWasApproved ==
  \A u \in uploaded : [path |-> u.path, sha256 |-> u.sha256] \in owned

\* The agent a verified run leaves, against the state that was wanted.
Registers ==
  report'.status = "LIVE_VERIFIED" =>
    LET want  == report'.want
        agent == agents'[report'.agent]
    IN  /\ agent.tools = want.tools
        /\ \A n \in DOMAIN want.vars : n \in DOMAIN agent.vars /\ agent.vars[n] = want.vars[n]
        /\ \A p \in Approved(want) :
             \/ [name |-> Base[p], content |-> docs[p]] \in agent.kb
             \/ Base[p] \in BaseNames(Current(want).kb)
        /\ report'.command = "integrate" =>
             /\ DOMAIN agent.tools = Named(items, "tool")
             /\ (Named(items, "placeholder") \cup Named(items, "input")) \ {NoKey}
                   \subseteq DOMAIN agent.vars

\* A run that says verified left the agent with every tool, variable and
\* approved document wanted; a document is missing only where the platform
\* already had one of its base name (reconcile.py:267-268, 299).  After
\* integrate that is what the repository holds now.
VerifiedIsRegistered == [][Registers]_vars

\* What a step takes from an agent was approved to go.
RemovesApproved ==
  \A a \in AgentIds :
    /\ agents[a].kb \subseteq agents'[a].kb
    /\ \/ DOMAIN agents[a].tools \subseteq DOMAIN agents'[a].tools
       \/ report'.command = "apply" /\ report'.status # "NOT_RUN" /\ report'.approve

\* A tool made in the dashboard, and every document, outlives each command but
\* an apply with --approve-deletions; integrate has no such option
\* (SECURITY.md:24-25).
NothingRemovedUnapproved == [][RemovesApproved]_vars

\* The step after a verified run, when it carries out the same state.
ReappliesAsNoop ==
  report.status = "LIVE_VERIFIED"
    /\ report'.status \in {"LIVE_VERIFIED", "DOCUMENT"}
    /\ report'.want = report.want /\ report.want.agent # NoAgent
    => UNCHANGED agents

\* Carrying out a desired state that was just verified for its agent changes
\* nothing.  (Without an agent id each time creates an agent.)
ReapplyIsNoop == [][ReappliesAsNoop]_vars

\* The step after a dry run, when it carries out the same state: what it adds,
\* changes, deletes and uploads.
DoesAsForetold ==
  report.status = "NOT_RUN" /\ report # Quiet /\ report'.status = "LIVE_VERIFIED"
    /\ report'.want = report.want =>
    LET want   == report.want
        before == Current(want)
        after  == agents'[report'.agent]
        changed(old, new) ==
          {n \in DOMAIN new : n \in DOMAIN old => new[n] # old[n]}
    IN  /\ changed(before.tools, after.tools) = report.diff.tools
        /\ changed(before.vars, after.vars) = report.diff.vars
        /\ DOMAIN before.tools \ DOMAIN after.tools = report.diff.deletions
        /\ after.kb \ before.kb =
             {[name |-> Base[p], content |-> docs[p]] : p \in report.diff.docs}

\* What a dry run announces is what applying the same state then does.
DryRunForetells == [][DoesAsForetold]_vars

\* A command that is blocked, refused or dry changes nothing on the platform;
\* only a document that cannot be read any more stops a run half way.  The
\* platform is fake_server.py's: the real one refuses a tool that has one input
\* twice (DECISIONS.md #4), so that a tool with Boolean parameters only, which
\* InputsDistinct exempts, stops a run half way too.
OnlyVerifiedOrHalfway ==
  [][agents' # agents /\ edits' = edits =>
       /\ report'.status \in {"LIVE_VERIFIED", "DOCUMENT"}
       /\ report'.status = "DOCUMENT" =>
            \E p \in Approved(report'.want) : docs[p] # report'.want.kb[p].sha256
                                             \/ docs[p] \in TooLarge]_vars
=============================================================================
