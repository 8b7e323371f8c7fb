-------------------------- MODULE ReconcileProofs ---------------------------
(***************************************************************************)
(* Theorems about Reconcile for every desired state, platform and sequence *)
(* of runs.  Types hold whatever fails, commits late or is edited.  What a *)
(* run checks (the gate, the dry run, the final comparison) holds when it  *)
(* is undisturbed: nobody edits the platform between two of its requests   *)
(* and no earlier request commits there.  Run after run, with every fault, *)
(* late commits and edits at any point, the desired state once reached is  *)
(* never left by a run or by a late request; and, as long as no creation   *)
(* is both refused for want of a connection method and lost, a run makes   *)
(* one agent at most.                                                      *)
(***************************************************************************)
EXTENDS Reconcile, FiniteSetTheorems, TLAPS

Platform == [AgentIds -> Agent \cup {NoAgent}]

\* A merge of two collections is a collection.
LEMMA MergeTyped ==
  ASSUME NEW names, NEW c \in Collection(names), NEW e \in Collection(names)
  PROVE  Merge(c, e) \in Collection(names)
BY DEF Merge, Collection

\* A mutation leaves a typed platform and takes no agent away.
LEMMA CommitTyped ==
  ASSUME NEW p \in Platform, NEW m \in Mutation,
         m.kind = "create" => FreeIds(p) # {},
         m.kind # "create" => p[m.agent] # NoAgent
  PROVE  /\ Commit(m, p) \in Platform
         /\ \A a \in AgentIds : p[a] # NoAgent => Commit(m, p)[a] # NoAgent
<1>1. CASE m.kind = "create"
  <2>1. NextId(p) \in AgentIds
    BY <1>1 DEF NextId, FreeIds
  <2>2. NewAgent \in Agent
    BY DEF NewAgent, Agent, NoTools, NoVars, Collection
  <2>3. QED
    BY <1>1, <2>1, <2>2, NoAgentAssumption DEF Commit, Platform
<1>2. CASE m.kind = "tools"
  <2>1. m.agent \in AgentIds /\ m.value \in Collection(Tools)
    BY <1>2 DEF Mutation
  <2>2. p[m.agent] \in Agent
    BY <1>2, <2>1 DEF Platform
  <2>3. [p[m.agent] EXCEPT !["tools"] = m.value] \in Agent
    BY <2>1, <2>2 DEF Agent
  <2>4. Commit(m, p) = [p EXCEPT ![m.agent] = [p[m.agent] EXCEPT !["tools"] = m.value]]
    BY <1>2 DEF Commit, Stored
  <2>5. QED
    BY <2>1, <2>3, <2>4, NoAgentAssumption DEF Platform
<1>3. CASE m.kind = "vars"
  <2>1. m.agent \in AgentIds /\ m.value \in Collection(Vars)
    BY <1>3 DEF Mutation
  <2>2. p[m.agent] \in Agent
    BY <1>3, <2>1 DEF Platform
  <2>. DEFINE new == Merge(p[m.agent].vars, m.value)
  <2>3. new \in Collection(Vars)
    BY <2>1, <2>2, MergeTyped DEF Agent
  <2>. HIDE DEF new
  <2>4. [p[m.agent] EXCEPT !["vars"] = new] \in Agent
    BY <2>2, <2>3 DEF Agent
  <2>5. Commit(m, p) = [p EXCEPT ![m.agent] = [p[m.agent] EXCEPT !["vars"] = new]]
    BY <1>3 DEF Commit, Stored, new
  <2>6. QED
    BY <2>1, <2>4, <2>5, NoAgentAssumption DEF Platform
<1>4. CASE m.kind = "docs"
  <2>1. m.agent \in AgentIds /\ m.value \in SUBSET Docs
    BY <1>4 DEF Mutation
  <2>2. p[m.agent] \in Agent
    BY <1>4, <2>1 DEF Platform
  <2>3. [p[m.agent] EXCEPT !["docs"] = p[m.agent].docs \cup m.value] \in Agent
    BY <2>1, <2>2 DEF Agent
  <2>4. Commit(m, p) = [p EXCEPT ![m.agent] = [p[m.agent] EXCEPT !["docs"] = p[m.agent].docs \cup m.value]]
    BY <1>4 DEF Commit, Stored
  <2>5. QED
    BY <2>1, <2>3, <2>4, NoAgentAssumption DEF Platform
<1>5. QED
  BY <1>1, <1>2, <1>3, <1>4 DEF Mutation

\* A write the platform altered leaves a typed platform too.
LEMMA CorruptedTyped ==
  ASSUME NEW p \in Platform, NEW m \in Mutation, m.kind \in {"tools", "vars"},
         p[m.agent] # NoAgent, NEW n \in Names(m.value), NEW v \in Vals
  PROVE  /\ Corrupt(m, n, v, p) \in Platform
         /\ \A a \in AgentIds : p[a] # NoAgent => Corrupt(m, n, v, p)[a] # NoAgent
<1>. DEFINE r == Commit(m, p)
<1>2. r \in Platform /\ \A a \in AgentIds : p[a] # NoAgent => r[a] # NoAgent
  BY CommitTyped
<1>3. m.agent \in AgentIds /\ r[m.agent] \in Agent
  BY <1>2 DEF Mutation, Platform
<1>. HIDE DEF r
<1>4. CASE m.kind = "tools"
  <2>1. n \in Tools
    BY <1>4 DEF Mutation, Names, Collection
  <2>2. [r[m.agent].tools EXCEPT ![n] = v] \in Collection(Tools)
    BY <1>3, <2>1 DEF Agent, Collection
  <2>3. [r[m.agent] EXCEPT !["tools"] = [r[m.agent].tools EXCEPT ![n] = v]] \in Agent
    BY <1>3, <2>2 DEF Agent
  <2>4. Corrupt(m, n, v, p) = [r EXCEPT ![m.agent] =
               [r[m.agent] EXCEPT !["tools"] = [r[m.agent].tools EXCEPT ![n] = v]]]
    BY <1>4 DEF r, Corrupt
  <2>5. QED
    BY <1>2, <1>3, <2>3, <2>4, NoAgentAssumption DEF Platform
<1>5. CASE m.kind = "vars"
  <2>1. n \in Vars
    BY <1>5 DEF Mutation, Names, Collection
  <2>2. [r[m.agent].vars EXCEPT ![n] = v] \in Collection(Vars)
    BY <1>3, <2>1 DEF Agent, Collection
  <2>3. [r[m.agent] EXCEPT !["vars"] = [r[m.agent].vars EXCEPT ![n] = v]] \in Agent
    BY <1>3, <2>2 DEF Agent
  <2>4. Corrupt(m, n, v, p) = [r EXCEPT ![m.agent] =
               [r[m.agent] EXCEPT !["vars"] = [r[m.agent].vars EXCEPT ![n] = v]]]
    BY <1>5 DEF r, Corrupt
  <2>5. QED
    BY <1>2, <1>3, <2>3, <2>4, NoAgentAssumption DEF Platform
<1>6. QED
  BY <1>4, <1>5

-----------------------------------------------------------------------------
(* Type correctness                                                        *)

Working == {"get_tools", "patch_tools", "check_tools", "get_vars", "post_vars",
            "check_vars", "docs", "after_tools", "after_vars", "after_agent"}

\* The agent a step addresses is known by then.
AgentKnown ==
  /\ pc = "get_agent" => opt.target \in AgentIds
  /\ pc \in Working => agent \in AgentIds

\* A request under way addresses an agent that exists.
InflightKnown ==
  \A q \in inflight : q.body.kind # "create" => platform[q.body.agent] # NoAgent

TypeInv == TypeOK /\ AgentKnown /\ InflightKnown

\* What the run's side of the state satisfies.
ClientOK ==
  /\ pc \in PCs /\ opt \in Option /\ outcome \in Outcomes
  /\ agent \in AgentIds \cup {NoAgent}
  /\ hasDocs \subseteq Docs /\ attempt \in 1..2
  /\ final \in Collection(Tools) /\ curVars \in Collection(Vars)
  /\ seen \in [tools : Collection(Tools), vars : Collection(Vars)]
  /\ agent # NoAgent => platform[agent] # NoAgent
  /\ AgentKnown

\* What the platform's side of the state satisfies.
StoreOK ==
  /\ platform \in Platform
  /\ inflight \subseteq [no : 0..MaxFaults, body : Mutation]
  /\ InflightKnown
  /\ removed \in BOOLEAN
  /\ faults \in 0..MaxFaults /\ edits \in 0..MaxEdits /\ creates \in 0..MaxCreates

\* No agent disappears.
AgentsStay == \A a \in AgentIds : platform[a] # NoAgent => platform'[a] # NoAgent

\* Whatever the answer, a request leaves a typed platform and takes no agent away.
LEMMA MutateTyped ==
  ASSUME StoreOK, NEW m \in Mutation, NEW answer \in Answers, Mutate(m, answer),
         m.kind # "create" => platform[m.agent] # NoAgent
  PROVE  StoreOK' /\ AgentsStay
<1>. USE BoundsAssumption
<1>c. edits' = edits /\ creates' = creates /\ faults' \in 0..MaxFaults
  BY DEF Mutate, StoreOK
<1>1. CASE answer \in {"ok", "timeout"}
  <2>1. /\ platform' = Commit(m, platform)
        /\ removed' = (removed \/ RemovesTool(m, platform))
        /\ inflight' = inflight
    BY <1>1 DEF Mutate
  <2>2. m.kind = "create" => FreeIds(platform) # {}
    BY <1>1 DEF Mutate, HasRoom
  <2>3. platform' \in Platform /\ AgentsStay
    BY <2>1, <2>2, CommitTyped DEF StoreOK, AgentsStay
  <2>4. InflightKnown'
    BY <2>1, <2>3 DEF StoreOK, InflightKnown, AgentsStay, Mutation
  <2>5. removed' \in BOOLEAN
    BY <2>1
  <2>6. QED
    BY <2>1, <2>3, <2>4, <2>5, <1>c DEF StoreOK
<1>2. CASE answer = "corrupt"
  <2>1. /\ m.kind \in {"tools", "vars"} 
        /\ \E n \in Names(m.value), v \in Vals : platform' = Corrupt(m, n, v, platform)
        /\ removed' = (removed \/ RemovesTool(m, platform))
        /\ inflight' = inflight
    BY <1>2 DEF Mutate
  <2>3. platform' \in Platform /\ AgentsStay
    BY <2>1, CorruptedTyped DEF StoreOK, AgentsStay
  <2>4. InflightKnown'
    BY <2>1, <2>3 DEF StoreOK, InflightKnown, AgentsStay, Mutation
  <2>5. removed' \in BOOLEAN
    BY <2>1
  <2>6. QED
    BY <2>1, <2>3, <2>4, <2>5, <1>c DEF StoreOK
<1>3. CASE answer = "late"
  <2>1. /\ inflight' = inflight \cup {[no |-> faults, body |-> m]}
        /\ platform' = platform /\ removed' = removed
    BY <1>3 DEF Mutate
  <2>2. InflightKnown'
    BY <2>1 DEF StoreOK, InflightKnown
  <2>3. QED
    BY <2>1, <2>2, <1>c DEF StoreOK, AgentsStay
<1>4. CASE answer \in {"rejected", "connection"}
  <2>1. platform' = platform /\ removed' = removed /\ inflight' = inflight
    BY <1>4 DEF Mutate
  <2>2. QED
    BY <2>1, <1>c DEF StoreOK, AgentsStay, InflightKnown
<1>5. QED
  BY <1>1, <1>2, <1>3, <1>4 DEF Answers

\* The two sides together.
LEMMA TwoSides == TypeInv <=> StoreOK /\ ClientOK
BY DEF TypeInv, TypeOK, StoreOK, ClientOK, Platform

\* A step that leaves the platform's side alone.
LEMMA StoreStutters ==
  ASSUME StoreOK, UNCHANGED <<platform, inflight, removed, counters>>
  PROVE  StoreOK' /\ AgentsStay
BY DEF StoreOK, AgentsStay, InflightKnown, counters

\* The agent the run works on is one of the platform's, with typed collections.
LEMMA AgentTyped ==
  ASSUME StoreOK, ClientOK, pc \in Working
  PROVE  agent \in AgentIds /\ platform[agent] \in Agent
<1>1. agent \in AgentIds
  BY DEF ClientOK, AgentKnown
<1>2. QED
  BY <1>1, AgentAssumption DEF ClientOK, StoreOK, Platform

\* A request of the run addresses an agent that exists.
LEMMA Requests ==
  ASSUME StoreOK, ClientOK
  PROVE  /\ [kind |-> "create"] \in Mutation
         /\ pc \in Working =>
              /\ [kind |-> "tools", agent |-> agent, value |-> final,
                  approved |-> opt.approve] \in Mutation
              /\ [kind |-> "vars", agent |-> agent, value |-> DesiredVars] \in Mutation
              /\ [kind |-> "docs", agent |-> agent, value |-> ToUpload] \in Mutation
              /\ platform[agent] # NoAgent
<1>1. [kind |-> "create"] \in Mutation
  BY DEF Mutation
<1>2. ASSUME pc \in Working
      PROVE  agent \in AgentIds /\ platform[agent] # NoAgent
  BY <1>2, AgentTyped, NoAgentAssumption
<1>3. final \in Collection(Tools) /\ opt.approve \in BOOLEAN
  BY DEF ClientOK, Option
<1>4. DesiredVars \in Collection(Vars) /\ ToUpload \in SUBSET Docs
  BY DesiredAssumption DEF ToUpload
<1>5. QED
  BY <1>1, <1>2, <1>3, <1>4 DEF Mutation

\* Creations give the run an agent that exists, or none.
LEMMA CreateTyped ==
  ASSUME StoreOK, ClientOK, NEW answer \in Answers, Create(answer) \/ Placeholder(answer)
  PROVE  StoreOK' /\ ClientOK'
<1>1. Mutate([kind |-> "create"], answer)
  BY DEF Create, Placeholder
<1>2. StoreOK' /\ AgentsStay
  BY <1>1, Requests, MutateTyped
<1>3. CASE Created /\ answer = "ok"
  <2>1. platform' = Commit([kind |-> "create"], platform) /\ FreeIds(platform) # {}
    BY <1>1, <1>3 DEF Mutate, HasRoom
  <2>2. NextId(platform) \in AgentIds
    BY <2>1 DEF NextId, FreeIds
  <2>3. platform' = [platform EXCEPT ![NextId(platform)] = NewAgent]
    BY <2>1 DEF Commit
  <2>4. NewAgent # NoAgent
    BY NoAgentAssumption DEF NewAgent, Agent, NoTools, NoVars, Collection
  <2>5. agent' \in AgentIds /\ platform'[agent'] # NoAgent
    BY <1>3, <2>2, <2>3, <2>4 DEF Created, StoreOK, Platform
  <2>6. QED
    BY <1>2, <1>3, <2>5 DEF Created, Goto, ClientOK, AgentKnown, PCs, Working
<1>4. CASE ~(Created /\ answer = "ok")
  <2>1. /\ pc' \in {"placeholder", "idle"} /\ outcome' \in Outcomes
        /\ attempt' \in 1..2
        /\ UNCHANGED <<opt, agent, hasDocs, final, curVars, seen>>
    BY <1>4 DEF Create, Placeholder, Goto, Finish, ClientOK, client, Outcomes
  <2>2. QED
    BY <1>2, <2>1 DEF ClientOK, AgentsStay, AgentKnown, PCs, Working
<1>5. QED
  BY <1>3, <1>4

\* The other requests change neither the agent nor what the run has read.
LEMMA RequestTyped ==
  ASSUME StoreOK, ClientOK, NEW answer \in Answers,
         PatchTools(answer) \/ PostVars(answer) \/ UploadDocs(answer)
  PROVE  StoreOK' /\ ClientOK'
<1>1. pc \in Working
  BY DEF PatchTools, PostVars, UploadDocs, Working
<1>2. StoreOK' /\ AgentsStay
  <2>1. CASE PatchTools(answer)
    BY <2>1, <1>1, Requests, MutateTyped DEF PatchTools
  <2>2. CASE PostVars(answer)
    BY <2>2, <1>1, Requests, MutateTyped DEF PostVars
  <2>3. CASE UploadDocs(answer)
    BY <2>3, <1>1, Requests, MutateTyped DEF UploadDocs
  <2>4. QED
    BY <2>1, <2>2, <2>3
<1>3. /\ pc' \in Working \cup {"idle"} /\ outcome' \in Outcomes
      /\ UNCHANGED client
  <2>1. CASE PatchTools(answer)
    BY <2>1 DEF PatchTools, Goto, Finish, Working, Outcomes, ClientOK
  <2>2. CASE PostVars(answer)
    BY <2>2 DEF PostVars, Goto, Finish, Working, Outcomes, ClientOK
  <2>3. CASE UploadDocs(answer)
    BY <2>3 DEF UploadDocs, Goto, Finish, Working, Outcomes, ClientOK
  <2>4. QED
    BY <2>1, <2>2, <2>3
<1>4. QED
  BY <1>1, <1>2, <1>3 DEF ClientOK, AgentsStay, AgentKnown, PCs, Working, client

\* What the run reads is typed.
LEMMA ReadTyped ==
  ASSUME StoreOK, ClientOK,
         \/ ResolveProject \/ GetAgent \/ GetTools \/ CheckTools \/ GetVars
         \/ CheckVars \/ SkipDocs \/ AfterTools \/ AfterVars \/ AfterAgent
  PROVE  StoreOK' /\ ClientOK'
<1>. USE DEF ClientOK, AgentKnown, PCs, Working, Goto, Finish, Outcomes, client,
           Environment, counters
<1>1. StoreOK' /\ UNCHANGED platform
  BY StoreStutters DEF ResolveProject, GetAgent, GetTools, CheckTools, GetVars,
     CheckVars, SkipDocs, AfterTools, AfterVars, AfterAgent
<1>2. CASE ResolveProject
  BY <1>1, <1>2 DEF ResolveProject
<1>3. CASE GetAgent
  <2>1. opt.target \in AgentIds
    BY <1>3 DEF GetAgent
  <2>2. platform[opt.target] # NoAgent => platform[opt.target].docs \subseteq Docs
    BY <2>1 DEF StoreOK, Platform, Agent
  <2>3. QED
    BY <1>1, <1>3, <2>1, <2>2 DEF GetAgent
<1>4. CASE GetTools
  <2>1. platform[agent].tools \in Collection(Tools)
    BY <1>4, AgentTyped DEF GetTools, Agent
  <2>2. final' \in Collection(Tools)
    BY <1>4, <2>1, DesiredAssumption DEF GetTools, Collection
  <2>3. QED
    BY <1>1, <1>4, <2>2 DEF GetTools
<1>5. CASE CheckTools
  BY <1>1, <1>5 DEF CheckTools
<1>6. CASE GetVars
  <2>1. platform[agent].vars \in Collection(Vars)
    BY <1>6, AgentTyped DEF GetVars, Agent
  <2>2. QED
    BY <1>1, <1>6, <2>1 DEF GetVars
<1>7. CASE CheckVars
  BY <1>1, <1>7 DEF CheckVars
<1>8. CASE SkipDocs
  BY <1>1, <1>8 DEF SkipDocs
<1>9. CASE AfterTools
  <2>1. platform[agent].tools \in Collection(Tools)
    BY <1>9, AgentTyped DEF AfterTools, Agent
  <2>2. QED
    BY <1>1, <1>9, <2>1 DEF AfterTools
<1>10. CASE AfterVars
  <2>1. platform[agent].vars \in Collection(Vars)
    BY <1>10, AgentTyped DEF AfterVars, Agent
  <2>2. QED
    BY <1>1, <1>10, <2>1 DEF AfterVars
<1>11. CASE AfterAgent
  BY <1>1, <1>11 DEF AfterAgent
<1>12. QED
  BY <1>2, <1>3, <1>4, <1>5, <1>6, <1>7, <1>8, <1>9, <1>10, <1>11

\* A run starts with typed locals.
LEMMA StartTyped ==
  ASSUME StoreOK, ClientOK, NEW o \in Options, StartRun(o)
  PROVE  StoreOK' /\ ClientOK'
<1>1. o \in Option
  BY AgentAssumption
<1>2. creates' \in 0..MaxCreates
  BY BoundsAssumption DEF StartRun, StoreOK
<1>3. StoreOK'
  BY <1>2 DEF StartRun, StoreOK, InflightKnown
<1>4. NoTools \in Collection(Tools) /\ NoVars \in Collection(Vars)
  BY DEF NoTools, NoVars, Collection
<1>5. QED
  BY <1>1, <1>3, <1>4 DEF StartRun, ClientOK, AgentKnown, PCs, Working, Outcomes, Option

\* A run that stops keeps everything typed.
LEMMA StopTyped ==
  ASSUME StoreOK, ClientOK, Abort \/ RefuseDocs
  PROVE  StoreOK' /\ ClientOK'
<1>1. /\ faults' \in 0..MaxFaults
      /\ UNCHANGED <<client, platform, inflight, removed, edits, creates>>
      /\ pc' = "idle" /\ outcome' \in Outcomes
  BY BoundsAssumption DEF Abort, RefuseDocs, Finish, Outcomes, StoreOK
<1>2. QED
  BY <1>1 DEF StoreOK, InflightKnown, ClientOK, AgentKnown, PCs, Working, client

\* Late commits and edits leave typed agents and take none away.
LEMMA EnvironmentTyped ==
  ASSUME StoreOK, ClientOK,
         \/ \E q \in inflight : CommitLate(q)
         \/ \E a \in AgentIds, v \in Vals \cup {NoVal} :
              \/ \E n \in Tools : EditPlatform(a, "tools", n, v)
              \/ \E n \in Vars : EditPlatform(a, "vars", n, v)
  PROVE  StoreOK' /\ ClientOK'
<1>1. CASE \E q \in inflight : CommitLate(q)
  <2>1. PICK q \in inflight : CommitLate(q)
    BY <1>1
  <2>2. q.body \in Mutation
    BY DEF StoreOK
  <2>3. platform' \in Platform /\ AgentsStay
    BY <2>1, <2>2, CommitTyped DEF CommitLate, HasRoom, StoreOK, InflightKnown, AgentsStay
  <2>4. removed' \in BOOLEAN
    BY <2>1 DEF CommitLate
  <2>5. inflight' \subseteq inflight /\ UNCHANGED <<pc, client, outcome, counters>>
    BY <2>1 DEF CommitLate
  <2>6. InflightKnown'
    BY <2>3, <2>5 DEF InflightKnown, AgentsStay, StoreOK, Mutation
  <2>7. QED
    BY <2>3, <2>4, <2>5, <2>6
    DEF StoreOK, ClientOK, AgentsStay, AgentKnown, client, counters
<1>2. ASSUME NEW a \in AgentIds, NEW v \in Vals \cup {NoVal},
             \/ \E n \in Tools : EditPlatform(a, "tools", n, v)
             \/ \E n \in Vars : EditPlatform(a, "vars", n, v)
      PROVE  StoreOK' /\ ClientOK'
  <2>1. /\ platform[a] # NoAgent
        /\ edits' \in 0..MaxEdits
        /\ UNCHANGED <<inflight, pc, client, outcome, removed, faults, creates>>
    BY <1>2, BoundsAssumption DEF EditPlatform, StoreOK
  <2>2. platform[a] \in Agent
    BY <2>1 DEF StoreOK, Platform
  <2>3. \E g \in Agent : platform' = [platform EXCEPT ![a] = g]
    <3>1. CASE \E n \in Tools : EditPlatform(a, "tools", n, v)
      <4>1. PICK n \in Tools : EditPlatform(a, "tools", n, v)
        BY <3>1
      <4>. DEFINE new == [platform[a].tools EXCEPT ![n] = v]
      <4>2. new \in Collection(Tools)
        BY <2>2 DEF Agent, Collection
      <4>. HIDE DEF new
      <4>3. [platform[a] EXCEPT !["tools"] = new] \in Agent
        BY <2>2, <4>2 DEF Agent
      <4>4. platform' = [platform EXCEPT ![a] = [platform[a] EXCEPT !["tools"] = new]]
        BY <4>1 DEF EditPlatform, new
      <4>5. QED
        BY <4>3, <4>4
    <3>2. CASE \E n \in Vars : EditPlatform(a, "vars", n, v)
      <4>1. PICK n \in Vars : EditPlatform(a, "vars", n, v)
        BY <3>2
      <4>. DEFINE new == [platform[a].vars EXCEPT ![n] = v]
      <4>2. new \in Collection(Vars)
        BY <2>2 DEF Agent, Collection
      <4>. HIDE DEF new
      <4>3. [platform[a] EXCEPT !["vars"] = new] \in Agent
        BY <2>2, <4>2 DEF Agent
      <4>4. platform' = [platform EXCEPT ![a] = [platform[a] EXCEPT !["vars"] = new]]
        BY <4>1 DEF EditPlatform, new
      <4>5. QED
        BY <4>3, <4>4
    <3>3. QED
      BY <1>2, <3>1, <3>2
  <2>4. platform' \in Platform /\ AgentsStay
    BY <2>3, NoAgentAssumption DEF StoreOK, Platform, AgentsStay
  <2>5. InflightKnown'
    BY <2>1, <2>4 DEF InflightKnown, AgentsStay, StoreOK, Mutation
  <2>6. QED
    BY <2>1, <2>4, <2>5
    DEF StoreOK, ClientOK, AgentsStay, AgentKnown, client
<1>3. QED
  BY <1>1, <1>2

\* Every step keeps the types.
LEMMA TypeStep == TypeInv /\ [Next]_vars => TypeInv'
<1>. SUFFICES ASSUME StoreOK, ClientOK, [Next]_vars
             PROVE  StoreOK' /\ ClientOK'
  BY TwoSides, PTL
<1>1. CASE UNCHANGED vars
  BY <1>1 DEF StoreOK, ClientOK, InflightKnown, AgentKnown, vars, client, counters
<1>2. CASE Next
  BY <1>2, CreateTyped, RequestTyped, ReadTyped, StartTyped, StopTyped, EnvironmentTyped
  DEF Next, Step
<1>3. QED
  BY <1>1, <1>2

\* The initial platform holds the agent of the repository and no run.
LEMMA TypeInit == Init => TypeInv
<1>. SUFFICES ASSUME Init PROVE StoreOK /\ ClientOK
  BY TwoSides
<1>1. platform \in Platform
  <2>1. PICK g \in [tools : Collection(Tools), vars : Collection(Vars), docs : {{}}] :
          platform = [a \in AgentIds |-> IF a = Seed THEN g ELSE NoAgent]
    BY DEF Init
  <2>2. g \in Agent
    BY DEF Agent
  <2>3. QED
    BY <2>1, <2>2 DEF Platform
<1>2. StoreOK
  <2>1. inflight = {} /\ removed = FALSE /\ faults = 0 /\ edits = 0 /\ creates = 0
    BY DEF Init
  <2>2. 0 \in 0..MaxFaults /\ 0 \in 0..MaxEdits /\ 0 \in 0..MaxCreates
    BY BoundsAssumption
  <2>3. QED
    BY <1>1, <2>1, <2>2 DEF StoreOK, InflightKnown
<1>3. ClientOK
  BY DEF Init, ClientOK, AgentKnown, Working, PCs, Outcomes, Option, Idle, NoTools, NoVars,
     Collection
<1>4. QED
  BY <1>2, <1>3

\* TypeInv holds of every execution.
THEOREM TypeInvariant == Spec => []TypeInv
  BY TypeInit, TypeStep, PTL DEF Spec

\* Platform, requests under way and run keep their types, and the agent a run
\* works on exists, whatever fails, commits late or is edited.
THEOREM ReconcileTypeCorrect == Spec => []TypeOK
<1>1. TypeInv => TypeOK
  BY DEF TypeInv
<1>2. QED
  BY <1>1, TypeInvariant, PTL

-----------------------------------------------------------------------------
(* Undisturbed runs: nobody edits the platform during a run, and a request *)
(* either commits before its answer or its timeout, or never.              *)

Undisturbed == EditPoints \subseteq {"idle"} /\ "late" \notin Faults

\* The diff that was gated is the one that is applied.
GateHeld ==
  pc = "patch_tools" =>
    opt.approve \/ Names(platform[agent].tools) \subseteq Names(final)

\* Only a run that applies reaches a mutation or the GET-after.
Mutating == {"create", "placeholder", "patch_tools", "check_tools", "post_vars",
             "check_vars", "after_tools", "after_vars", "after_agent"}
ApplyHeld == pc \in Mutating => opt.apply

\* An applying run sends the desired tools, and the GET-after reads the
\* platform as it still is when the comparison is made.
SeenHeld ==
  /\ pc \in Working \ {"get_tools"} /\ opt.apply => final = DesiredTools
  /\ pc \in {"after_vars", "after_agent"} => seen.tools = platform[agent].tools
  /\ pc = "after_agent" => seen.vars = platform[agent].vars

RunInv ==
  /\ TypeInv
  /\ NoUnapprovedDeletion /\ inflight = {}
  /\ GateHeld /\ ApplyHeld /\ SeenHeld

\* Without late commits nothing stays under way, and only a PATCH of the tools
\* that the gate let through can remove one.
LEMMA MutateQuiet ==
  ASSUME Undisturbed, RunInv, NEW m \in Mutation, NEW answer \in Answers,
         Mutate(m, answer), ~RemovesTool(m, platform)
  PROVE  NoUnapprovedDeletion' /\ inflight' = {}
<1>1. answer # "late"
  BY DEF Mutate, Undisturbed
<1>2. QED
  BY <1>1 DEF Mutate, RunInv, NoUnapprovedDeletion, Answers

\* Every step of an undisturbed run keeps the gate, the dry run and the
\* comparison honest.
LEMMA RunStep ==
  ASSUME Undisturbed PROVE RunInv /\ [Next]_vars => RunInv'
<1>. SUFFICES ASSUME RunInv, [Next]_vars
             PROVE  (NoUnapprovedDeletion /\ inflight = {} /\ GateHeld /\ ApplyHeld /\ SeenHeld)'
  BY TypeStep DEF RunInv
<1>. DEFINE Goal == NoUnapprovedDeletion /\ inflight = {} /\ GateHeld /\ ApplyHeld /\ SeenHeld
<1>t. StoreOK /\ ClientOK
  BY TwoSides DEF RunInv
<1>r. /\ ~removed /\ inflight = {} /\ GateHeld /\ ApplyHeld /\ SeenHeld
  BY DEF RunInv, NoUnapprovedDeletion
<1>. USE DEF NoUnapprovedDeletion, Goto, Finish
<1>1. ASSUME NEW o \in Options, StartRun(o) PROVE Goal'
  BY <1>1, <1>r DEF StartRun, GateHeld, ApplyHeld, SeenHeld, Mutating, Working
<1>2. CASE ResolveProject
  BY <1>2, <1>r DEF ResolveProject, GateHeld, ApplyHeld, SeenHeld, Mutating, Working,
     client, Environment
<1>3. ASSUME NEW answer \in Answers, Create(answer) \/ Placeholder(answer) PROVE Goal'
  <2>1. Mutate([kind |-> "create"], answer)
    BY <1>3 DEF Create, Placeholder
  <2>2. NoUnapprovedDeletion' /\ inflight' = {}
    BY <2>1, <1>t, Requests, MutateQuiet DEF RemovesTool
  <2>3. pc' \in {"get_tools", "placeholder", "idle"} /\ opt' = opt
    BY <1>3 DEF Create, Placeholder, Created, client
  <2>4. opt.apply
    BY <1>3, <1>r DEF ApplyHeld, Mutating, Create, Placeholder
  <2>5. QED
    BY <2>2, <2>3, <2>4 DEF GateHeld, ApplyHeld, SeenHeld, Mutating, Working
<1>4. CASE GetAgent
  BY <1>4, <1>r DEF GetAgent, GateHeld, ApplyHeld, SeenHeld, Mutating, Working,
     client, Environment
<1>5. CASE GetTools
  <2>1. UNCHANGED <<platform, inflight, removed, opt, agent>>
    BY <1>5 DEF GetTools, Environment, client
  <2>2. CASE pc' = "idle"
    BY <1>r, <2>1, <2>2 DEF GateHeld, ApplyHeld, SeenHeld, Mutating, Working
  <2>3. CASE pc' # "idle"
    <3>1. pc' = IF opt.apply THEN "patch_tools" ELSE "get_vars"
      BY <1>5, <2>3 DEF GetTools
    <3>2. ASSUME opt.apply, ~opt.approve
          PROVE  /\ Names(platform[agent].tools) \subseteq Names(DesiredTools)
                 /\ final' = [n \in Tools |-> DesiredTools[n]]
      BY <1>5, <2>3, <3>2 DEF GetTools
    <3>3. opt.apply => final' = DesiredTools
      <4>1. CASE opt.approve
        BY <1>5, <2>3, <4>1 DEF GetTools
      <4>2. CASE ~opt.approve
        BY <3>2, <4>2, DesiredAssumption DEF Collection
      <4>3. QED
        BY <4>1, <4>2
    <3>4. QED
      BY <1>r, <2>1, <3>1, <3>2, <3>3 DEF GateHeld, ApplyHeld, SeenHeld, Mutating, Working
  <2>4. QED
    BY <2>2, <2>3
<1>6. ASSUME NEW answer \in Answers, PatchTools(answer) PROVE Goal'
  <2>. DEFINE m == [kind |-> "tools", agent |-> agent, value |-> final,
                    approved |-> opt.approve]
  <2>1. pc = "patch_tools" /\ Mutate(m, answer) /\ m \in Mutation
    BY <1>6, <1>t, Requests DEF PatchTools, Working
  <2>2. ~RemovesTool(m, platform)
    BY <2>1, <1>r DEF GateHeld, RemovesTool
  <2>3. NoUnapprovedDeletion' /\ inflight' = {}
    BY <2>1, <2>2, MutateQuiet
  <2>4. pc' \in {"get_vars", "check_tools", "idle"} /\ UNCHANGED client
    BY <1>6 DEF PatchTools
  <2>5. QED
    BY <1>r, <2>1, <2>3, <2>4 DEF GateHeld, ApplyHeld, SeenHeld, Mutating, Working, client
<1>7. CASE CheckTools
  BY <1>7, <1>r DEF CheckTools, GateHeld, ApplyHeld, SeenHeld, Mutating, Working,
     client, Environment
<1>8. CASE GetVars
  BY <1>8, <1>r DEF GetVars, GateHeld, ApplyHeld, SeenHeld, Mutating, Working,
     client, Environment
<1>9. ASSUME NEW answer \in Answers, PostVars(answer) PROVE Goal'
  <2>. DEFINE m == [kind |-> "vars", agent |-> agent, value |-> DesiredVars]
  <2>1. pc = "post_vars" /\ Mutate(m, answer) /\ m \in Mutation
    BY <1>9, <1>t, Requests DEF PostVars, Working
  <2>2. NoUnapprovedDeletion' /\ inflight' = {}
    BY <2>1, MutateQuiet DEF RemovesTool
  <2>3. pc' \in {"docs", "check_vars", "idle"} /\ UNCHANGED client
    BY <1>9 DEF PostVars
  <2>4. QED
    BY <1>r, <2>1, <2>2, <2>3 DEF GateHeld, ApplyHeld, SeenHeld, Mutating, Working, client
<1>10. CASE CheckVars
  BY <1>10, <1>r DEF CheckVars, GateHeld, ApplyHeld, SeenHeld, Mutating, Working,
     client, Environment
<1>11. CASE SkipDocs
  BY <1>11, <1>r DEF SkipDocs, GateHeld, ApplyHeld, SeenHeld, Mutating, Working,
     client, Environment
<1>12. ASSUME NEW answer \in Answers, UploadDocs(answer) PROVE Goal'
  <2>. DEFINE m == [kind |-> "docs", agent |-> agent, value |-> ToUpload]
  <2>1. pc = "docs" /\ opt.apply /\ Mutate(m, answer) /\ m \in Mutation
    BY <1>12, <1>t, Requests DEF UploadDocs, Working
  <2>2. NoUnapprovedDeletion' /\ inflight' = {}
    BY <2>1, MutateQuiet DEF RemovesTool
  <2>3. pc' \in {"after_tools", "idle"} /\ UNCHANGED client
    BY <1>12 DEF UploadDocs
  <2>4. QED
    BY <1>r, <2>1, <2>2, <2>3 DEF GateHeld, ApplyHeld, SeenHeld, Mutating, Working, client
<1>13. CASE AfterTools
  BY <1>13, <1>r, <1>t DEF AfterTools, GateHeld, ApplyHeld, SeenHeld, Mutating, Working,
     client, Environment, ClientOK
<1>14. CASE AfterVars
  BY <1>14, <1>r, <1>t DEF AfterVars, GateHeld, ApplyHeld, SeenHeld, Mutating, Working,
     client, Environment, ClientOK
<1>15. CASE AfterAgent
  BY <1>15, <1>r DEF AfterAgent, GateHeld, ApplyHeld, SeenHeld, Mutating, Working,
     client, Environment
<1>16. CASE Abort \/ RefuseDocs
  BY <1>16, <1>r DEF Abort, RefuseDocs, GateHeld, ApplyHeld, SeenHeld, Mutating, Working
<1>17. ASSUME NEW q \in inflight, CommitLate(q) PROVE FALSE
  BY <1>17, <1>r
<1>18. ASSUME NEW a \in AgentIds, NEW kind, NEW n, NEW v, EditPlatform(a, kind, n, v)
       PROVE  Goal'
  <2>1. pc = "idle" /\ pc' = pc /\ UNCHANGED <<inflight, removed>>
    BY <1>18 DEF EditPlatform, Undisturbed
  <2>2. QED
    BY <2>1, <1>r DEF GateHeld, ApplyHeld, SeenHeld, Mutating, Working
<1>19. CASE UNCHANGED vars
  BY <1>19, <1>r DEF vars, client, GateHeld, ApplyHeld, SeenHeld
<1>20. QED
  BY <1>1, <1>2, <1>3, <1>4, <1>5, <1>6, <1>7, <1>8, <1>9, <1>10, <1>11, <1>12, <1>13,
     <1>14, <1>15, <1>16, <1>17, <1>18, <1>19 DEF Next, Step

\* RunInv holds of every execution of undisturbed runs.
THEOREM RunInvariant ==
  ASSUME Undisturbed PROVE Spec => []RunInv
<1>1. Init => RunInv
  <2>1. Init => pc = "idle" /\ removed = FALSE /\ inflight = {}
    BY DEF Init
  <2>2. QED
    BY <2>1, TypeInit
    DEF RunInv, NoUnapprovedDeletion, GateHeld, ApplyHeld, SeenHeld, Mutating, Working
<1>2. RunInv /\ [Next]_vars => RunInv'
  BY RunStep
<1>3. QED
  BY <1>1, <1>2, PTL DEF Spec

\* In undisturbed runs no tool is ever removed from the platform without
\* --approve-deletions, whatever requests fail or time out.
THEOREM DeletionsAreApproved ==
  ASSUME Undisturbed PROVE Spec => []NoUnapprovedDeletion
<1>1. RunInv => NoUnapprovedDeletion
  BY DEF RunInv
<1>2. QED
  BY <1>1, RunInvariant, PTL

\* In undisturbed runs "verified" means that the platform matches: the value
\* comparison of the GET-after looks at the platform as it is.
THEOREM VerifiedIsTrue ==
  ASSUME Undisturbed PROVE Spec => VerifiedMatches
<1>1. ASSUME RunInv, [Next]_vars, outcome' = "verified", outcome # "verified"
      PROVE  Matches(agent)
  <2>1. AfterAgent
    <3>1. ~(UNCHANGED outcome)
      BY <1>1
    <3>2. QED
      BY <1>1, <3>1
      DEF Next, Step, StartRun, ResolveProject, Create, Placeholder, Created, GetAgent, GetTools,
          PatchTools, CheckTools, GetVars, PostVars, CheckVars, SkipDocs, RefuseDocs, UploadDocs,
          AfterTools, AfterVars, Abort, CommitLate, EditPlatform, Goto, Finish, vars
  <2>2. /\ seen.tools = final
        /\ \A n \in Names(DesiredVars) : seen.vars[n] = DesiredVars[n]
        /\ ApprovedDocs \subseteq platform[agent].docs
        /\ pc = "after_agent"
    BY <1>1, <2>1 DEF AfterAgent, Finish
  <2>3. opt.apply /\ final = DesiredTools
    BY <1>1, <2>2 DEF RunInv, ApplyHeld, SeenHeld, Mutating, Working
  <2>4. seen.tools = platform[agent].tools /\ seen.vars = platform[agent].vars
    BY <1>1, <2>2 DEF RunInv, SeenHeld
  <2>5. platform[agent] # NoAgent
    BY <1>1, <2>2, TwoSides, AgentTyped, NoAgentAssumption DEF RunInv, Working
  <2>6. QED
    BY <2>2, <2>3, <2>4, <2>5 DEF Matches
<1>2. RunInv /\ [Next]_vars =>
        [outcome' = "verified" /\ outcome # "verified" => Matches(agent)]_vars
  BY <1>1
<1>3. QED
  BY <1>2, RunInvariant, PTL DEF Spec, VerifiedMatches

\* In undisturbed runs a dry run writes nothing.
THEOREM DryRunsAreDry ==
  ASSUME Undisturbed PROVE Spec => DryRunWritesNothing
<1>1. ASSUME RunInv, [Next]_vars, pc # "idle", ~opt.apply
      PROVE  UNCHANGED platform
  <2>1. pc \notin Mutating /\ inflight = {}
    BY <1>1 DEF RunInv, ApplyHeld
  <2>2. ASSUME NEW a \in AgentIds, NEW kind, NEW n, NEW v, EditPlatform(a, kind, n, v)
        PROVE  FALSE
    BY <1>1, <2>2 DEF EditPlatform, Undisturbed
  <2>3. ASSUME NEW answer \in Answers,
               \/ Create(answer) \/ Placeholder(answer) \/ PatchTools(answer)
               \/ PostVars(answer) \/ UploadDocs(answer)
        PROVE  FALSE
    BY <1>1, <2>1, <2>3
    DEF Create, Placeholder, PatchTools, PostVars, UploadDocs, Mutating
  <2>4. QED
    BY <1>1, <2>1, <2>2, <2>3
    DEF Next, Step, StartRun, ResolveProject, GetAgent, GetTools, CheckTools, GetVars, CheckVars,
        SkipDocs, RefuseDocs, AfterTools, AfterVars, AfterAgent, Abort, Environment, vars
<1>2. RunInv /\ [Next]_vars => [pc # "idle" /\ ~opt.apply => UNCHANGED platform]_vars
  BY <1>1
<1>3. QED
  BY <1>2, RunInvariant, PTL DEF Spec, DryRunWritesNothing

-----------------------------------------------------------------------------
(* Lost answers only: the platform keeps what it is sent.                  *)

Faithful == Undisturbed /\ "corrupt" \notin Faults

\* What an applying run has written is on the platform for the rest of it.
KeptHeld ==
  /\ pc \in Working => hasDocs \subseteq platform[agent].docs
  /\ pc \in Working \ {"get_tools", "patch_tools"} /\ opt.apply =>
       platform[agent].tools = final
  /\ pc = "post_vars" => curVars = platform[agent].vars
  /\ pc = "check_vars" => platform[agent].vars = Merge(curVars, DesiredVars)
  /\ pc \in {"docs", "after_tools", "after_vars", "after_agent"} /\ opt.apply =>
       \A n \in Names(DesiredVars) : platform[agent].vars[n] = DesiredVars[n]
  /\ pc \in {"after_tools", "after_vars", "after_agent"} =>
       ApprovedDocs \subseteq platform[agent].docs

FaithfulInv == NoSpuriousFailure /\ KeptHeld

\* What a committed request leaves of the agent it addresses.
LEMMA CommitEffect ==
  ASSUME StoreOK, NEW m \in Mutation, m.kind # "create", platform[m.agent] # NoAgent
  PROVE  LET old == platform[m.agent]
             new == Commit(m, platform)[m.agent]
         IN  /\ m.agent \in AgentIds
             /\ new.tools = IF m.kind = "tools" THEN m.value ELSE old.tools
             /\ new.vars  = IF m.kind = "vars" THEN Merge(old.vars, m.value) ELSE old.vars
             /\ new.docs  = IF m.kind = "docs" THEN old.docs \cup m.value ELSE old.docs
<1> DEFINE old == platform[m.agent]
           val == Stored(m.kind, old[m.kind], m.value)
<1>1. m.agent \in AgentIds /\ m.kind \in {"tools", "vars", "docs"}
  BY DEF Mutation
<1>2. old \in Agent
  BY <1>1 DEF StoreOK, Platform
<1>3. Commit(m, platform)[m.agent] = [old EXCEPT ![m.kind] = val]
  BY <1>1 DEF Commit, StoreOK, Platform
<1>4. /\ m.kind = "tools" => val = m.value
      /\ m.kind = "vars"  => val = Merge(old.vars, m.value)
      /\ m.kind = "docs"  => val = old.docs \cup m.value
  BY DEF Stored
<1> HIDE DEF val
<1>5. CASE m.kind = "tools"
  BY <1>1, <1>2, <1>3, <1>4, <1>5 DEF Agent
<1>6. CASE m.kind = "vars"
  BY <1>1, <1>2, <1>3, <1>4, <1>6 DEF Agent
<1>7. CASE m.kind = "docs"
  BY <1>1, <1>2, <1>3, <1>4, <1>7 DEF Agent
<1>8. QED
  BY <1>1, <1>5, <1>6, <1>7

\* With these faults a request either commits, or changes nothing.
LEMMA FaithfulMutate ==
  ASSUME Faithful, NEW m \in Mutation, NEW answer \in Answers, Mutate(m, answer)
  PROVE  /\ answer \in {"ok", "timeout", "rejected", "connection"}
         /\ answer \in {"ok", "timeout"} => platform' = Commit(m, platform)
         /\ answer \in {"rejected", "connection"} => platform' = platform
BY DEF Faithful, Undisturbed, Mutate, Answers

\* Steps that leave the platform alone and end the run, or have not begun one.
LEMMA OutsideFaithful ==
  ASSUME FaithfulInv, pc' \notin Working, outcome' # "contract"
  PROVE  FaithfulInv'
BY DEF FaithfulInv, NoSpuriousFailure, KeptHeld, Working

\* Every step keeps what was written, and no comparison fails.
LEMMA FaithfulStep ==
  ASSUME Faithful, RunInv, FaithfulInv, [Next]_vars
  PROVE  FaithfulInv'
<1>t. StoreOK /\ ClientOK /\ ApplyHeld /\ SeenHeld /\ inflight = {}
  BY TwoSides DEF RunInv
<1>a. pc \in Working => agent \in AgentIds /\ platform[agent] \in Agent /\ platform[agent] # NoAgent
  BY <1>t, AgentTyped, NoAgentAssumption
<1>k. KeptHeld /\ outcome # "contract"
  BY DEF FaithfulInv, NoSpuriousFailure
<1>. USE DEF Goto, Finish
<1>1. ASSUME NEW o \in Options, StartRun(o) PROVE FaithfulInv'
  BY <1>1, OutsideFaithful DEF StartRun, Working
<1>2. CASE ResolveProject
  BY <1>2, <1>k, OutsideFaithful DEF ResolveProject, Working
<1>3. ASSUME NEW answer \in Answers, Create(answer) \/ Placeholder(answer) PROVE FaithfulInv'
  <2>1. CASE Created
    BY <1>k, <2>1 DEF Created, FaithfulInv, NoSpuriousFailure, KeptHeld, Working
  <2>2. CASE pc' \in {"placeholder", "idle"} /\ outcome' # "contract"
    BY <2>2, OutsideFaithful DEF Working
  <2>3. QED
    BY <1>3, <1>k, <2>1, <2>2 DEF Create, Placeholder
<1>4. CASE GetAgent
  BY <1>4, <1>k DEF GetAgent, Environment, FaithfulInv, NoSpuriousFailure, KeptHeld, Working
<1>5. CASE GetTools
  BY <1>5, <1>k DEF GetTools, Environment, FaithfulInv, NoSpuriousFailure, KeptHeld, Working,
     client
<1>6. ASSUME NEW answer \in Answers, PatchTools(answer) PROVE FaithfulInv'
  <2>. DEFINE m == [kind |-> "tools", agent |-> agent, value |-> final,
                    approved |-> opt.approve]
  <2>1. pc = "patch_tools" /\ Mutate(m, answer) /\ m \in Mutation /\ UNCHANGED client
    BY <1>6, <1>t, Requests DEF PatchTools, Working
  <2>2. CASE answer \in {"ok", "timeout"}
    <3>1. /\ platform' = Commit(m, platform)
          /\ pc' \in {"get_vars", "check_tools"} /\ UNCHANGED outcome
      BY <1>6, <2>1, <2>2, FaithfulMutate DEF PatchTools, Succeeded, MaybeCommitted
    <3>2. platform'[agent].tools = final /\ platform'[agent].docs = platform[agent].docs
      BY <1>t, <1>a, <2>1, <3>1, CommitEffect DEF Working
    <3>3. QED
      BY <1>k, <2>1, <3>1, <3>2 DEF client, FaithfulInv, NoSpuriousFailure, KeptHeld, Working
  <2>3. CASE answer \in {"rejected", "connection"}
    BY <1>6, <2>3, OutsideFaithful DEF PatchTools, Succeeded, MaybeCommitted, Working
  <2>4. QED
    BY <2>1, <2>2, <2>3, FaithfulMutate
<1>7. CASE CheckTools
  <2>1. platform[agent].tools = final
    BY <1>7, <1>t, <1>k DEF CheckTools, KeptHeld, ApplyHeld, Mutating, Working
  <2>2. pc = "check_tools" /\ pc' = "get_vars" /\ UNCHANGED <<outcome, client, platform>>
    BY <1>7, <2>1 DEF CheckTools, Environment
  <2>3. QED
    BY <1>k, <2>1, <2>2 DEF client, FaithfulInv, NoSpuriousFailure, KeptHeld, Working
<1>8. CASE GetVars
  <2>1. /\ pc = "get_vars" /\ pc' \in {"post_vars", "docs"} /\ curVars' = platform[agent].vars
        /\ pc' = "docs" /\ opt.apply => Names(DesiredVars) = {}
        /\ UNCHANGED <<opt, agent, hasDocs, final, platform, outcome>>
    BY <1>8 DEF GetVars, Environment
  <2>2. QED
    BY <1>k, <2>1 DEF FaithfulInv, NoSpuriousFailure, KeptHeld, Working
<1>9. ASSUME NEW answer \in Answers, PostVars(answer) PROVE FaithfulInv'
  <2>. DEFINE m == [kind |-> "vars", agent |-> agent, value |-> DesiredVars]
  <2>1. pc = "post_vars" /\ Mutate(m, answer) /\ m \in Mutation /\ UNCHANGED client
    BY <1>9, <1>t, Requests DEF PostVars, Working
  <2>2. CASE answer \in {"ok", "timeout"}
    <3>1. /\ platform' = Commit(m, platform)
          /\ pc' \in {"docs", "check_vars"} /\ UNCHANGED outcome
      BY <1>9, <2>1, <2>2, FaithfulMutate DEF PostVars, Succeeded, MaybeCommitted
    <3>2. /\ platform'[agent].tools = platform[agent].tools
          /\ platform'[agent].docs = platform[agent].docs
          /\ platform'[agent].vars = Merge(platform[agent].vars, DesiredVars)
      BY <1>t, <1>a, <2>1, <3>1, CommitEffect DEF Working
    <3>3. platform[agent].vars = curVars
      BY <1>k, <2>1 DEF KeptHeld
    <3>4. \A n \in Names(DesiredVars) : Merge(curVars, DesiredVars)[n] = DesiredVars[n]
      BY <1>t, DesiredAssumption DEF Merge, Names, ClientOK, Collection
    <3>5. QED
      BY <1>k, <2>1, <3>1, <3>2, <3>3, <3>4
      DEF client, FaithfulInv, NoSpuriousFailure, KeptHeld, Working
  <2>3. CASE answer \in {"rejected", "connection"}
    BY <1>9, <2>3, OutsideFaithful DEF PostVars, Succeeded, MaybeCommitted, Working
  <2>4. QED
    BY <2>1, <2>2, <2>3, FaithfulMutate
<1>10. CASE CheckVars
  <2>1. platform[agent].vars = Merge(curVars, DesiredVars)
    BY <1>10, <1>k DEF CheckVars, KeptHeld
  <2>2. pc = "check_vars" /\ pc' = "docs" /\ UNCHANGED <<outcome, client, platform>>
    BY <1>10, <2>1 DEF CheckVars, Environment
  <2>3. \A n \in Names(DesiredVars) : platform[agent].vars[n] = DesiredVars[n]
    BY <1>t, <2>1, DesiredAssumption DEF Merge, Names, ClientOK, Collection
  <2>4. QED
    BY <1>k, <2>2, <2>3 DEF client, FaithfulInv, NoSpuriousFailure, KeptHeld, Working
<1>11. CASE SkipDocs
  <2>1. CASE pc' = "idle"
    BY <1>11, <2>1, <1>k, OutsideFaithful DEF SkipDocs, Working
  <2>2. CASE pc' # "idle"
    <3>1. /\ pc = "docs" /\ pc' = "after_tools" /\ opt.apply /\ ToUpload = {}
          /\ UNCHANGED <<outcome, client, platform>>
      BY <1>11, <2>2 DEF SkipDocs, Environment
    <3>2. ApprovedDocs \subseteq platform[agent].docs
      BY <1>k, <3>1 DEF ToUpload, KeptHeld, Working
    <3>3. QED
      BY <1>k, <3>1, <3>2 DEF client, FaithfulInv, NoSpuriousFailure, KeptHeld, Working
  <2>3. QED
    BY <2>1, <2>2
<1>12. ASSUME NEW answer \in Answers, UploadDocs(answer) PROVE FaithfulInv'
  <2>. DEFINE m == [kind |-> "docs", agent |-> agent, value |-> ToUpload]
  <2>1. pc = "docs" /\ opt.apply /\ Mutate(m, answer) /\ m \in Mutation /\ UNCHANGED client
    BY <1>12, <1>t, Requests DEF UploadDocs, Working
  <2>2. CASE answer = "ok"
    <3>1. platform' = Commit(m, platform) /\ pc' = "after_tools" /\ UNCHANGED outcome
      BY <1>12, <2>1, <2>2, FaithfulMutate DEF UploadDocs, Succeeded, MaybeCommitted
    <3>2. /\ platform'[agent].tools = platform[agent].tools
          /\ platform'[agent].vars = platform[agent].vars
          /\ platform'[agent].docs = platform[agent].docs \cup ToUpload
      BY <1>t, <1>a, <2>1, <3>1, CommitEffect DEF Working
    <3>3. ApprovedDocs \subseteq platform[agent].docs \cup ToUpload
      BY <1>k, <2>1 DEF KeptHeld, ToUpload, Working
    <3>4. QED
      BY <1>k, <2>1, <3>1, <3>2, <3>3
      DEF client, FaithfulInv, NoSpuriousFailure, KeptHeld, Working
  <2>3. CASE answer # "ok"
    <3>1. answer \in {"timeout", "rejected", "connection"}
      BY <2>1, <2>3, FaithfulMutate
    <3>2. QED
      BY <1>12, <3>1, OutsideFaithful DEF UploadDocs, Succeeded, MaybeCommitted, Working
  <2>4. QED
    BY <2>2, <2>3
<1>13. CASE AfterTools \/ AfterVars
  <2>1. /\ pc \in {"after_tools", "after_vars"} /\ pc' \in {"after_vars", "after_agent"}
        /\ UNCHANGED <<opt, agent, hasDocs, final, curVars, platform, outcome>>
    BY <1>13 DEF AfterTools, AfterVars, Environment
  <2>2. QED
    BY <1>k, <2>1 DEF FaithfulInv, NoSpuriousFailure, KeptHeld, Working
<1>14. CASE AfterAgent
  <2>1. pc = "after_agent" /\ opt.apply
    BY <1>14, <1>t DEF AfterAgent, ApplyHeld, Mutating
  <2>2. seen.tools = platform[agent].tools /\ seen.vars = platform[agent].vars
    BY <1>t, <2>1 DEF SeenHeld
  <2>3. /\ platform[agent].tools = final
        /\ \A n \in Names(DesiredVars) : platform[agent].vars[n] = DesiredVars[n]
        /\ ApprovedDocs \subseteq platform[agent].docs
    BY <1>k, <2>1 DEF KeptHeld, Working
  <2>4. pc' = "idle" /\ outcome' = "verified"
    BY <1>14, <2>2, <2>3 DEF AfterAgent
  <2>5. QED
    BY <2>4, OutsideFaithful DEF Working
<1>15. CASE Abort \/ RefuseDocs
  BY <1>15, OutsideFaithful DEF Abort, RefuseDocs, Working
<1>16. ASSUME NEW q \in inflight, CommitLate(q) PROVE FALSE
  BY <1>16, <1>t
<1>17. ASSUME NEW a \in AgentIds, NEW kind, NEW n, NEW v, EditPlatform(a, kind, n, v)
       PROVE  FaithfulInv'
  BY <1>17, <1>k, OutsideFaithful DEF EditPlatform, Faithful, Undisturbed, Working
<1>18. CASE UNCHANGED vars
  BY <1>18, <1>k DEF vars, client, FaithfulInv, NoSpuriousFailure, KeptHeld
<1>19. QED
  BY <1>1, <1>2, <1>3, <1>4, <1>5, <1>6, <1>7, <1>8, <1>9, <1>10, <1>11, <1>12, <1>13,
     <1>14, <1>15, <1>16, <1>17, <1>18 DEF Next, Step

\* A run whose answers were lost but whose writes committed recognises them:
\* it never ends in a contract error, whatever earlier runs left.
THEOREM LostAnswersAreRecognised ==
  ASSUME Faithful PROVE Spec => []NoSpuriousFailure
<1>1. Init => FaithfulInv
  BY DEF Init, FaithfulInv, NoSpuriousFailure, KeptHeld, Working
<1>2. RunInv /\ FaithfulInv /\ [Next]_vars => FaithfulInv'
  BY Faithful, FaithfulStep
<1>3. FaithfulInv => NoSpuriousFailure
  BY DEF FaithfulInv
<1>4. Spec => []RunInv
  BY Faithful, RunInvariant DEF Faithful
<1>5. QED
  BY <1>1, <1>2, <1>3, <1>4, PTL DEF Spec

-----------------------------------------------------------------------------
(* Idempotence                                                             *)

\* What is on its way to the platform is the desired state: an applying run that
\* has passed the gate has nothing to keep.
SentDesired ==
  /\ pc = "patch_tools" => final = DesiredTools
  /\ \A q \in inflight :
       /\ q.body.kind = "tools" => q.body.value = DesiredTools
       /\ q.body.kind = "vars"  => q.body.value = DesiredVars

\* A request for the desired state leaves a matching agent matching, its own or
\* another.
LEMMA CommitConverges ==
  ASSUME StoreOK, NEW m \in Mutation, HasRoom(m),
         m.kind # "create" => platform[m.agent] # NoAgent,
         m.kind = "tools" => m.value = DesiredTools,
         m.kind = "vars" => m.value = DesiredVars,
         NEW a \in AgentIds, Matches(a), platform' = Commit(m, platform)
  PROVE  Matches(a)'
<1>1. platform'[a] # NoAgent
  BY CommitTyped DEF StoreOK, Matches, HasRoom
<1>2. CASE m.kind = "create"
  <2>1. NextId(platform) # a
    BY <1>2 DEF HasRoom, NextId, FreeIds, Matches
  <2>2. platform'[a] = platform[a]
    BY <1>2, <2>1 DEF Commit, StoreOK, Platform
  <2>3. QED
    BY <2>2 DEF Matches
<1>3. CASE m.kind # "create" /\ m.agent # a
  <2>1. platform'[a] = platform[a]
    BY <1>3 DEF Commit, StoreOK, Platform
  <2>2. QED
    BY <2>1 DEF Matches
<1>4. CASE m.kind # "create" /\ m.agent = a
  <2>1. /\ platform'[a].tools = IF m.kind = "tools" THEN m.value ELSE platform[a].tools
        /\ platform'[a].vars  = IF m.kind = "vars" THEN Merge(platform[a].vars, m.value)
                                ELSE platform[a].vars
        /\ platform'[a].docs  = IF m.kind = "docs" THEN platform[a].docs \cup m.value
                                ELSE platform[a].docs
    BY <1>4, CommitEffect
  <2>2. platform[a].vars \in Collection(Vars)
    BY DEF StoreOK, Platform, Matches, Agent
  <2>3. \A n \in Names(DesiredVars) :
          Merge(platform[a].vars, DesiredVars)[n] = DesiredVars[n]
    BY <2>2, DesiredAssumption DEF Merge, Names, Collection
  <2>4. QED
    BY <1>1, <2>1, <2>3 DEF Matches
<1>5. QED
  BY <1>2, <1>3, <1>4

\* So does a request whatever comes of it, unless the platform stores something
\* else.
LEMMA MutateConverges ==
  ASSUME StoreOK, NEW m \in Mutation, NEW answer \in Answers, Mutate(m, answer),
         answer = "corrupt" => m.kind \notin {"tools", "vars"},
         m.kind # "create" => platform[m.agent] # NoAgent,
         m.kind = "tools" => m.value = DesiredTools,
         m.kind = "vars" => m.value = DesiredVars,
         NEW a \in AgentIds, Matches(a)
  PROVE  Matches(a)'
<1>1. CASE answer \in {"ok", "timeout"}
  <2>1. platform' = Commit(m, platform) /\ HasRoom(m)
    BY <1>1 DEF Mutate
  <2>2. QED
    BY <2>1, CommitConverges
<1>2. CASE answer \notin {"ok", "timeout"}
  <2>1. platform' = platform
    BY <1>2 DEF Mutate, Answers
  <2>2. QED
    BY <2>1 DEF Matches
<1>3. QED
  BY <1>1, <1>2

\* What a request adds to those under way.
LEMMA MutateSends ==
  ASSUME NEW m, NEW answer \in Answers, Mutate(m, answer), SentDesired,
         m.kind = "tools" => m.value = DesiredTools,
         m.kind = "vars" => m.value = DesiredVars,
         pc' # "patch_tools"
  PROVE  SentDesired'
<1>1. inflight' \subseteq inflight \cup {[no |-> faults, body |-> m]}
  BY DEF Mutate, Answers
<1>2. QED
  BY <1>1 DEF SentDesired

LEMMA SentStep == TypeInv /\ SentDesired /\ [Next]_vars => SentDesired'
<1>. SUFFICES ASSUME TypeInv, SentDesired, [Next]_vars PROVE SentDesired'
  OBVIOUS
<1>. USE DEF Goto, Finish
<1>1. ASSUME NEW answer \in Answers, Create(answer) \/ Placeholder(answer) PROVE SentDesired'
  BY <1>1, MutateSends DEF Create, Placeholder, Created
<1>2. ASSUME NEW answer \in Answers, PatchTools(answer) PROVE SentDesired'
  BY <1>2, MutateSends DEF PatchTools, SentDesired
<1>3. ASSUME NEW answer \in Answers, PostVars(answer) PROVE SentDesired'
  BY <1>3, MutateSends DEF PostVars
<1>4. ASSUME NEW answer \in Answers, UploadDocs(answer) PROVE SentDesired'
  BY <1>4, MutateSends DEF UploadDocs
<1>5. CASE GetTools
  <2>1. ASSUME pc' = "patch_tools" PROVE final' = DesiredTools
    <3>1. Names(platform[agent].tools) \ Names(DesiredTools) = {} \/ opt.approve
      BY <1>5, <2>1 DEF GetTools
    <3>2. DesiredTools = [n \in Tools |-> DesiredTools[n]]
      BY DesiredAssumption DEF Collection
    <3>3. QED
      BY <1>5, <2>1, <3>1, <3>2 DEF GetTools
  <2>2. QED
    BY <1>5, <2>1 DEF GetTools, Environment, SentDesired
<1>6. ASSUME NEW q \in inflight, CommitLate(q) PROVE SentDesired'
  BY <1>6 DEF CommitLate, client, SentDesired
<1>7. ASSUME NEW a \in AgentIds, NEW kind, NEW n, NEW v, EditPlatform(a, kind, n, v)
      PROVE  SentDesired'
  BY <1>7 DEF EditPlatform, client, SentDesired
<1>8. ASSUME NEW o \in Options, StartRun(o) PROVE SentDesired'
  BY <1>8 DEF StartRun, SentDesired
<1>9. CASE \/ ResolveProject \/ GetAgent \/ CheckTools \/ GetVars \/ CheckVars \/ SkipDocs
           \/ RefuseDocs \/ AfterTools \/ AfterVars \/ AfterAgent \/ Abort
  BY <1>9 DEF ResolveProject, GetAgent, CheckTools, GetVars, CheckVars, SkipDocs, RefuseDocs,
     AfterTools, AfterVars, AfterAgent, Abort, Environment, SentDesired
<1>10. CASE UNCHANGED vars
  BY <1>10 DEF vars, client, SentDesired
<1>11. QED
  BY <1>1, <1>2, <1>3, <1>4, <1>5, <1>6, <1>7, <1>8, <1>9, <1>10 DEF Next, Step

LEMMA ConvergedStep ==
  ASSUME TypeInv, SentDesired, [Next]_vars, edits' = edits, ~PlatformAlters,
         NEW a \in AgentIds, Matches(a)
  PROVE  Matches(a)'
<1>t. StoreOK /\ ClientOK
  BY TwoSides
<1>a. pc \in Working => agent \in AgentIds /\ platform[agent] # NoAgent
  BY <1>t, AgentTyped, NoAgentAssumption
<1>r. /\ [kind |-> "create"] \in Mutation
      /\ pc \in Working =>
           /\ [kind |-> "tools", agent |-> agent, value |-> final,
               approved |-> opt.approve] \in Mutation
           /\ [kind |-> "vars", agent |-> agent, value |-> DesiredVars] \in Mutation
           /\ [kind |-> "docs", agent |-> agent, value |-> ToUpload] \in Mutation
  BY <1>t, Requests
<1>1. ASSUME NEW answer \in Answers, Create(answer) \/ Placeholder(answer) PROVE Matches(a)'
  BY <1>1, <1>r, <1>t, MutateConverges DEF Create, Placeholder
<1>2. ASSUME NEW answer \in Answers, PatchTools(answer) PROVE Matches(a)'
  <2>. DEFINE m == [kind |-> "tools", agent |-> agent, value |-> final,
                    approved |-> opt.approve]
  <2>1. /\ m \in Mutation /\ Mutate(m, answer) /\ final = DesiredTools
        /\ platform[agent] # NoAgent
    BY <1>2, <1>a, <1>r DEF PatchTools, Working, SentDesired
  <2>2. answer # "corrupt"
    BY <1>2 DEF PlatformAlters
  <2>3. QED
    BY <1>t, <2>1, <2>2, MutateConverges
<1>3. ASSUME NEW answer \in Answers, PostVars(answer) PROVE Matches(a)'
  <2>. DEFINE m == [kind |-> "vars", agent |-> agent, value |-> DesiredVars]
  <2>1. m \in Mutation /\ Mutate(m, answer) /\ platform[agent] # NoAgent
    BY <1>3, <1>a, <1>r DEF PostVars, Working
  <2>2. answer # "corrupt"
    BY <1>3 DEF PlatformAlters
  <2>3. QED
    BY <1>t, <2>1, <2>2, MutateConverges
<1>4. ASSUME NEW answer \in Answers, UploadDocs(answer) PROVE Matches(a)'
  <2>. DEFINE m == [kind |-> "docs", agent |-> agent, value |-> ToUpload]
  <2>1. m \in Mutation /\ Mutate(m, answer) /\ platform[agent] # NoAgent
    BY <1>4, <1>a, <1>r DEF UploadDocs, Working
  <2>2. QED
    BY <1>t, <2>1, MutateConverges
<1>5. ASSUME NEW q \in inflight, CommitLate(q) PROVE Matches(a)'
  <2>1. /\ q.body \in Mutation /\ HasRoom(q.body) /\ platform' = Commit(q.body, platform)
        /\ q.body.kind # "create" => platform[q.body.agent] # NoAgent
    BY <1>5, <1>t DEF StoreOK, InflightKnown, CommitLate
  <2>2. QED
    BY <1>t, <2>1, CommitConverges DEF SentDesired
<1>6. ASSUME NEW b \in AgentIds, NEW kind, NEW n, NEW v, EditPlatform(b, kind, n, v) PROVE FALSE
  BY <1>6, <1>t DEF EditPlatform, StoreOK
<1>7. CASE UNCHANGED platform
  BY <1>7 DEF Matches
<1>8. QED
  BY <1>1, <1>2, <1>3, <1>4, <1>5, <1>6, <1>7
  DEF Next, Step, StartRun, ResolveProject, GetAgent, GetTools, CheckTools, GetVars, CheckVars,
      SkipDocs, RefuseDocs, AfterTools, AfterVars, AfterAgent, Abort, Environment, vars

\* Applying is idempotent: whatever fails, commits late or is edited in between,
\* an agent in the desired state stays there until somebody edits it or the
\* platform stores something else than it was sent.
THEOREM DesiredStateIsKept == Spec => StaysConverged
<1>1. Init => SentDesired
  BY DEF Init, SentDesired
<1>2. TypeInv /\ SentDesired /\ [Next]_vars =>
        [edits' = edits /\ ~PlatformAlters
           => \A a \in AgentIds : Matches(a) => Matches(a)']_vars
  BY ConvergedStep
<1>3. QED
  BY <1>1, <1>2, SentStep, TypeInvariant, PTL DEF Spec, StaysConverged

-----------------------------------------------------------------------------
(* One agent a run                                                         *)

Existing == {a \in AgentIds : platform[a] # NoAgent}
Creating == {q \in inflight : q.body.kind = "create"}
Pending  == IF pc \in {"resolve", "create", "placeholder"} THEN 1 ELSE 0

\* A refusal for want of a connection method is not followed by a second fault;
\* without it a lost placeholder leaves one agent and the next placeholder another.
OneCreation == "connection" \notin Faults \/ MaxFaults <= 1

\* Every run that asked for a new agent accounts for one agent, one creation
\* that may still commit, or a creation it has yet to send.
AgentInv ==
  /\ IsFiniteSet(Existing) /\ IsFiniteSet(Creating)
  /\ Cardinality(Existing) + Cardinality(Creating) + Pending <= 1 + creates
  /\ pc = "placeholder" => faults >= MaxFaults

LEMMA SubsetCounts ==
  ASSUME NEW S, IsFiniteSet(S), NEW R, R \subseteq S
  PROVE  IsFiniteSet(R) /\ Cardinality(R) \in Nat /\ Cardinality(S) \in Nat
         /\ Cardinality(R) <= Cardinality(S)
BY FS_Subset, FS_CardinalityType

LEMMA GrownCounts ==
  ASSUME NEW S, IsFiniteSet(S), NEW x, NEW R, R \subseteq S \cup {x}
  PROVE  IsFiniteSet(R) /\ Cardinality(R) \in Nat /\ Cardinality(S) \in Nat
         /\ Cardinality(R) <= Cardinality(S) + 1
<1>1. /\ IsFiniteSet(S \cup {x}) /\ Cardinality(S) \in Nat
      /\ Cardinality(S \cup {x}) \in {Cardinality(S), Cardinality(S) + 1}
  BY FS_AddElement, FS_CardinalityType
<1>2. /\ IsFiniteSet(R) /\ Cardinality(R) \in Nat
      /\ Cardinality(R) <= Cardinality(S \cup {x})
  BY <1>1, SubsetCounts
<1>3. QED
  BY <1>1, <1>2

\* A commit makes an agent only when it is a creation.
LEMMA CommitCreates ==
  ASSUME StoreOK, NEW m \in Mutation, m.kind # "create" => platform[m.agent] # NoAgent,
         platform' = Commit(m, platform)
  PROVE  /\ m.kind = "create" => Existing' \subseteq Existing \cup {NextId(platform)}
         /\ m.kind # "create" => Existing' \subseteq Existing
BY DEF Commit, StoreOK, Platform, Existing

\* A request to an existing agent makes none, whatever comes of it.
LEMMA MutateKeepsAgents ==
  ASSUME StoreOK, NEW m \in Mutation, m.kind # "create", platform[m.agent] # NoAgent,
         NEW answer \in Answers, Mutate(m, answer)
  PROVE  Existing' \subseteq Existing /\ Creating' \subseteq Creating /\ creates' = creates
<1>1. creates' = creates /\ Creating' \subseteq Creating
  BY DEF Mutate, Answers, Creating
<1>2. CASE answer \in {"ok", "timeout"}
  <2>1. platform' = Commit(m, platform)
    BY <1>2 DEF Mutate
  <2>2. QED
    BY <1>1, <2>1, CommitCreates
<1>3. CASE answer = "corrupt"
  <2>1. PICK n \in Names(m.value), v \in Vals : platform' = Corrupt(m, n, v, platform)
    BY <1>3 DEF Mutate
  <2>2. ASSUME NEW a \in AgentIds, a # m.agent PROVE platform'[a] = platform[a]
    BY <2>1, <2>2 DEF Corrupt, Commit, StoreOK, Platform
  <2>3. QED
    BY <1>1, <2>2 DEF Existing
<1>4. CASE answer \notin {"ok", "timeout", "corrupt"}
  BY <1>1, <1>4 DEF Mutate, Answers, Existing
<1>5. QED
  BY <1>2, <1>3, <1>4

\* A creation adds one agent, or one request that may commit, or nothing.
LEMMA MutateCreates ==
  ASSUME TypeInv, AgentInv, NEW answer \in Answers, Mutate([kind |-> "create"], answer)
  PROVE  /\ IsFiniteSet(Existing') /\ IsFiniteSet(Creating') /\ creates' = creates
         /\ Cardinality(Existing') \in Nat /\ Cardinality(Creating') \in Nat
         /\ Cardinality(Existing') + Cardinality(Creating') + Pending <= 2 + creates
         /\ answer \in {"rejected", "connection"} =>
              Cardinality(Existing') + Cardinality(Creating') + Pending <= 1 + creates
<1>. DEFINE m == [kind |-> "create"]
<1>t. StoreOK /\ m \in Mutation /\ creates \in Nat /\ Pending \in Nat
  BY TwoSides, BoundsAssumption DEF Mutation, TypeInv, TypeOK, Pending
<1>c. creates' = creates
  BY DEF Mutate
<1>f. /\ IsFiniteSet(Existing) /\ IsFiniteSet(Creating)
      /\ Cardinality(Existing) + Cardinality(Creating) + Pending <= 1 + creates
  BY DEF AgentInv
<1>1. CASE answer \in {"ok", "timeout"}
  <2>1. platform' = Commit(m, platform) /\ inflight' = inflight
    BY <1>1 DEF Mutate
  <2>2. Existing' \subseteq Existing \cup {NextId(platform)}
    BY <1>t, <2>1, CommitCreates
  <2>3. Creating' \subseteq Creating
    BY <2>1 DEF Creating
  <2>4. /\ IsFiniteSet(Existing') /\ Cardinality(Existing') \in Nat
        /\ Cardinality(Existing) \in Nat /\ Cardinality(Existing') <= Cardinality(Existing) + 1
    BY <1>f, <2>2, GrownCounts
  <2>5. /\ IsFiniteSet(Creating') /\ Cardinality(Creating') \in Nat
        /\ Cardinality(Creating) \in Nat /\ Cardinality(Creating') <= Cardinality(Creating)
    BY <1>f, <2>3, SubsetCounts
  <2>6. QED
    BY <1>1, <1>t, <1>c, <1>f, <2>4, <2>5
<1>2. CASE answer = "late"
  <2>1. platform' = platform /\ inflight' = inflight \cup {[no |-> faults, body |-> m]}
    BY <1>2 DEF Mutate
  <2>2. Existing' = Existing /\ Creating' \subseteq Creating \cup {[no |-> faults, body |-> m]}
    BY <2>1 DEF Existing, Creating
  <2>3. /\ IsFiniteSet(Creating') /\ Cardinality(Creating') \in Nat
        /\ Cardinality(Creating) \in Nat /\ Cardinality(Creating') <= Cardinality(Creating) + 1
    BY <1>f, <2>2, GrownCounts
  <2>4. QED
    BY <1>2, <1>t, <1>c, <1>f, <2>2, <2>3, FS_CardinalityType
<1>3. CASE answer \in {"rejected", "connection"}
  <2>1. platform' = platform /\ inflight' = inflight
    BY <1>3 DEF Mutate
  <2>2. Existing' = Existing /\ Creating' = Creating
    BY <2>1 DEF Existing, Creating
  <2>3. QED
    BY <1>t, <1>c, <1>f, <2>2, FS_CardinalityType
<1>4. CASE answer = "corrupt"
  BY <1>4 DEF Mutate
<1>5. QED
  BY <1>1, <1>2, <1>3, <1>4 DEF Answers

\* A step that makes no agent, promises none and asks for none.
LEMMA NoGrowth ==
  ASSUME AgentInv, creates \in Nat, Existing' \subseteq Existing,
         Creating' \subseteq Creating, creates' = creates, Pending' <= Pending,
         pc' = "placeholder" => pc = "placeholder" /\ faults' = faults
  PROVE  AgentInv'
<1>1. Pending \in Nat /\ Pending' \in Nat
  BY DEF Pending
<1>2. IsFiniteSet(Existing) /\ IsFiniteSet(Creating)
  BY DEF AgentInv
<1>3. /\ IsFiniteSet(Existing') /\ Cardinality(Existing') \in Nat
      /\ Cardinality(Existing) \in Nat /\ Cardinality(Existing') <= Cardinality(Existing)
  BY <1>2, SubsetCounts
<1>4. /\ IsFiniteSet(Creating') /\ Cardinality(Creating') \in Nat
      /\ Cardinality(Creating) \in Nat /\ Cardinality(Creating') <= Cardinality(Creating)
  BY <1>2, SubsetCounts
<1>5. QED
  BY <1>1, <1>2, <1>3, <1>4 DEF AgentInv

LEMMA CreationStep ==
  ASSUME OneCreation, TypeInv, AgentInv, NEW answer \in Answers,
         Create(answer) \/ Placeholder(answer)
  PROVE  AgentInv'
<1>1. /\ Mutate([kind |-> "create"], answer) /\ Pending = 1
      /\ pc' \in {"get_tools", "idle", "placeholder"}
  BY DEF Create, Placeholder, Created, Goto, Finish, Pending
<1>2. /\ IsFiniteSet(Existing') /\ IsFiniteSet(Creating') /\ creates' = creates
      /\ Cardinality(Existing') \in Nat /\ Cardinality(Creating') \in Nat
      /\ Cardinality(Existing') + Cardinality(Creating') + Pending <= 2 + creates
      /\ answer \in {"rejected", "connection"} =>
           Cardinality(Existing') + Cardinality(Creating') + Pending <= 1 + creates
  BY <1>1, MutateCreates
<1>3. creates \in Nat /\ faults \in Nat /\ MaxFaults \in Nat
  BY BoundsAssumption DEF TypeInv, TypeOK
<1>4. CASE pc' # "placeholder"
  <2>1. Pending' = 0
    BY <1>1, <1>4 DEF Pending
  <2>2. QED
    BY <1>1, <1>2, <1>3, <1>4, <2>1 DEF AgentInv
<1>5. CASE pc' = "placeholder"
  <2>1. answer # "ok"
    BY <1>5 DEF Create, Placeholder, Created, Goto, Finish
  <2>2. answer \in Faults /\ faults < MaxFaults /\ faults' = faults + 1
    BY <1>1, <2>1 DEF Mutate
  <2>3. pc = "create" /\ answer = "connection"
    BY <1>3, <1>5, <2>1, <2>2 DEF AgentInv, Create, Placeholder, Goto, Finish
  <2>4. faults' >= MaxFaults
    BY <1>3, <2>2, <2>3 DEF OneCreation
  <2>5. Pending' = 1
    BY <1>5 DEF Pending
  <2>6. QED
    BY <1>1, <1>2, <1>3, <2>3, <2>4, <2>5 DEF AgentInv
<1>6. QED
  BY <1>4, <1>5

LEMMA LateStep ==
  ASSUME TypeInv, AgentInv, NEW q \in inflight, CommitLate(q)
  PROVE  AgentInv'
<1>1. /\ StoreOK /\ q.body \in Mutation /\ creates \in Nat
      /\ q.body.kind # "create" => platform[q.body.agent] # NoAgent
  BY TwoSides, BoundsAssumption DEF StoreOK, InflightKnown
<1>2. /\ platform' = Commit(q.body, platform) /\ inflight' = inflight \ {q}
      /\ creates' = creates /\ pc' = pc /\ faults' = faults
  BY DEF CommitLate, counters
<1>3. Pending' = Pending /\ Pending \in Nat /\ Creating' = Creating \ {q}
  BY <1>2 DEF Pending, Creating
<1>4. CASE q.body.kind # "create"
  <2>1. Existing' \subseteq Existing
    BY <1>1, <1>2, <1>4, CommitCreates
  <2>2. QED
    BY <1>1, <1>2, <1>3, <2>1, NoGrowth
<1>5. CASE q.body.kind = "create"
  <2>1. Existing' \subseteq Existing \cup {NextId(platform)}
    BY <1>1, <1>2, <1>5, CommitCreates
  <2>2. IsFiniteSet(Existing) /\ IsFiniteSet(Creating) /\ q \in Creating
    BY <1>5 DEF AgentInv, Creating
  <2>3. /\ IsFiniteSet(Existing') /\ Cardinality(Existing') \in Nat
        /\ Cardinality(Existing) \in Nat /\ Cardinality(Existing') <= Cardinality(Existing) + 1
    BY <2>1, <2>2, GrownCounts
  <2>4. /\ IsFiniteSet(Creating') /\ Cardinality(Creating) \in Nat
        /\ Cardinality(Creating') = Cardinality(Creating) - 1
    BY <1>3, <2>2, FS_RemoveElement, FS_CardinalityType
  <2>5. QED
    BY <1>1, <1>2, <1>3, <2>3, <2>4 DEF AgentInv
<1>6. QED
  BY <1>4, <1>5

LEMMA StartStep ==
  ASSUME TypeInv, AgentInv, NEW o \in Options, StartRun(o)
  PROVE  AgentInv'
<1>1. /\ Existing' = Existing /\ Creating' = Creating /\ faults' = faults /\ Pending = 0
      /\ \/ creates' = creates + 1 /\ pc' = "resolve" /\ Pending' = 1
         \/ creates' = creates /\ pc' = "get_agent" /\ Pending' = 0
  BY DEF StartRun, Existing, Creating, Pending
<1>2. /\ creates \in Nat /\ IsFiniteSet(Existing) /\ IsFiniteSet(Creating)
      /\ Cardinality(Existing) \in Nat /\ Cardinality(Creating) \in Nat
  BY BoundsAssumption, FS_CardinalityType DEF TypeInv, TypeOK, AgentInv
<1>3. QED
  BY <1>1, <1>2 DEF AgentInv

LEMMA AgentStep == OneCreation /\ TypeInv /\ AgentInv /\ [Next]_vars => AgentInv'
<1>. SUFFICES ASSUME OneCreation, TypeInv, AgentInv, [Next]_vars PROVE AgentInv'
  OBVIOUS
<1>t. StoreOK /\ ClientOK /\ creates \in Nat
  BY TwoSides, BoundsAssumption DEF TypeInv, TypeOK
<1>1. ASSUME NEW answer \in Answers, Create(answer) \/ Placeholder(answer) PROVE AgentInv'
  BY <1>1, CreationStep
<1>2. ASSUME NEW answer \in Answers,
             PatchTools(answer) \/ PostVars(answer) \/ UploadDocs(answer)
      PROVE  AgentInv'
  <2>1. PICK m \in Mutation : m.kind # "create" /\ platform[m.agent] # NoAgent
                                /\ Mutate(m, answer)
    BY <1>2, <1>t, Requests DEF PatchTools, PostVars, UploadDocs, Working
  <2>2. Existing' \subseteq Existing /\ Creating' \subseteq Creating /\ creates' = creates
    BY <1>t, <2>1, MutateKeepsAgents
  <2>3. Pending' <= Pending /\ pc' # "placeholder"
    BY <1>2 DEF PatchTools, PostVars, UploadDocs, Goto, Finish, Pending, Answers, Succeeded,
       MaybeCommitted
  <2>4. QED
    BY <1>t, <2>2, <2>3, NoGrowth
<1>3. ASSUME NEW q \in inflight, CommitLate(q) PROVE AgentInv'
  BY <1>3, LateStep
<1>4. ASSUME NEW a \in AgentIds, NEW kind, NEW n, NEW v, EditPlatform(a, kind, n, v)
      PROVE  AgentInv'
  <2>1. Existing' \subseteq Existing /\ Creating' = Creating
    BY <1>4, <1>t DEF EditPlatform, StoreOK, Platform, Existing, Creating
  <2>2. pc' = pc /\ creates' = creates /\ faults' = faults /\ Pending' <= Pending
    BY <1>4 DEF EditPlatform, Pending
  <2>3. QED
    BY <1>t, <2>1, <2>2, NoGrowth
<1>5. ASSUME NEW o \in Options, StartRun(o) PROVE AgentInv'
  BY <1>5, StartStep
<1>6. CASE \/ ResolveProject \/ GetAgent \/ GetTools \/ CheckTools \/ GetVars \/ CheckVars
           \/ SkipDocs \/ RefuseDocs \/ AfterTools \/ AfterVars \/ AfterAgent \/ Abort
  <2>1. platform' = platform /\ inflight' = inflight /\ creates' = creates
    BY <1>6 DEF ResolveProject, GetAgent, GetTools, CheckTools, GetVars, CheckVars, SkipDocs,
       RefuseDocs, AfterTools, AfterVars, AfterAgent, Abort, Environment, counters
  <2>2. Pending' <= Pending /\ pc' # "placeholder"
    BY <1>6 DEF ResolveProject, GetAgent, GetTools, CheckTools, GetVars, CheckVars, SkipDocs,
       RefuseDocs, AfterTools, AfterVars, AfterAgent, Abort, Goto, Finish, Pending
  <2>3. QED
    BY <1>t, <2>1, <2>2, NoGrowth DEF Existing, Creating
<1>7. CASE UNCHANGED vars
  BY <1>7 DEF vars, counters, AgentInv, Existing, Creating, Pending
<1>8. QED
  BY <1>1, <1>2, <1>3, <1>4, <1>5, <1>6, <1>7 DEF Next, Step

LEMMA AgentInit == Init => AgentInv
<1>. SUFFICES ASSUME Init PROVE AgentInv
  OBVIOUS
<1>1. Existing \subseteq {} \cup {Seed} /\ Creating = {} /\ Pending = 0 /\ creates = 0
  BY DEF Init, Existing, Creating, Pending
<1>2. IsFiniteSet({}) /\ Cardinality({}) = 0
  BY FS_EmptySet
<1>3. /\ IsFiniteSet(Existing) /\ Cardinality(Existing) \in Nat
      /\ Cardinality(Existing) <= 0 + 1
  BY <1>1, <1>2, GrownCounts
<1>4. QED
  BY <1>1, <1>2, <1>3 DEF AgentInv, Init

\* A run that asked for a new agent leaves one at most, even when the creation
\* commits after its answer was given up on, as long as it is not the second try
\* after a refusal.
THEOREM OneAgentIsCreated == ASSUME OneCreation PROVE Spec => []OneAgentPerRun
<1>1. TypeInv /\ AgentInv => OneAgentPerRun
  <2>. SUFFICES ASSUME TypeInv, AgentInv PROVE OneAgentPerRun
    OBVIOUS
  <2>1. /\ Cardinality(Existing) \in Nat /\ Cardinality(Creating) \in Nat
        /\ Pending \in Nat /\ creates \in Nat
    BY FS_CardinalityType, BoundsAssumption DEF AgentInv, Pending, TypeInv, TypeOK
  <2>2. Cardinality(Existing) <= 1 + creates
    BY <2>1 DEF AgentInv
  <2>3. QED
    BY <2>2 DEF OneAgentPerRun, Existing
<1>2. TypeInv /\ AgentInv /\ [Next]_vars => AgentInv'
  BY AgentStep
<1>3. QED
  BY <1>1, <1>2, AgentInit, TypeInvariant, PTL DEF Spec
=============================================================================
