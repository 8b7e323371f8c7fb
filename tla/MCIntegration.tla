--------------------------- MODULE MCIntegration ---------------------------
(***************************************************************************)
(* Repositories for Integration.tla: LiveKit and Pipecat agents with the   *)
(* variations that matter to the gate, the planner, the adapters or the    *)
(* checks, alone or next to a second file.                                 *)
(***************************************************************************)
EXTENDS Integration

MCManifests == <<"requirements.txt", "tests/pyproject.toml">>
MCMatrixTests == {"tests/agent.py"}
MCNames == STRING
MCPlanTests == {"tests/agent.py", "tests/pyproject.toml"}
TestFiles == {"scripts/agent.py", "tests/agent.py"}
MCScannerTests == TestFiles \cup MCPlanTests
MCTomls == {"tests/pyproject.toml"}
\* A path like a manifest's that is none.
Notes == "docs/requirements-notes.md"
MCLookAlikes == ToSet(MCManifests) \cup {Notes}
MCPython == {"agent.py", "lib.py"} \cup TestFiles
MCPaths == ToSet(MCManifests) \cup {Notes, "agent.py"}

Lib(name) == <<Line({}, "import", name, {})>>
Run == {"entrypoint"}

\* An entrypoint that starts something else before its session, or not.
LiveKitAgent(anchor, other, start) ==
    Lib("livekit")
    \o <<Line({}, "def", "entrypoint", {"JobContext"} \cup anchor),
         Line(Run, "session", "session", {})>>
    \o (IF other THEN <<Line(Run, "start", "reporter", {})>> ELSE <<>>)
    \o start
    \o Lib("os")

Start(has) == <<Line(Run, "start", "session", has)>>
TwoStarts == LiveKitAgent({"worker"}, FALSE, Start({"agent"}) \o Start({"agent"}))

LiveKitAgents == {LiveKitAgent({}, TRUE, start) : start \in {<<>>, Start({"room"})}} \cup {TwoStarts}

\* A bot whose pipeline has the aggregators, lacks them, or is built elsewhere.
PipecatBot(context, pipeline, task) ==
    Lib("pipecat")
    \o <<Line({}, "def", "entrypoint", {})>>
    \o (IF context THEN <<Line(Run, "context", "context", {})>> ELSE <<>>)
    \o <<Line(Run, "aggregators", "pair", {})>>
    \o pipeline
    \o <<task>>

Paired == <<Line(Run, "pipeline", "pipeline", {"pair"})>>
Unpaired == <<Line(Run, "pipeline", "pipeline", {})>>
Task(has) == Line(Run, "task", "task", has)
PlainBot == PipecatBot(TRUE, Paired, Task({"params"}))

PipecatBots ==
    {PipecatBot(TRUE, pipeline, Task({})) : pipeline \in {<<>>, Unpaired}}
    \cup {PipecatBot(TRUE, Paired, Line(Run, "pipeline_worker", "worker", {})),
          PlainBot, PipecatBot(FALSE, Paired, Task({}))}

Repo(code, deps) == [code |-> code, deps |-> deps]
One(file, code) == [f \in {file} |-> code]
Two(one, file, code) == [f \in {"agent.py", file} |-> IF f = file THEN code ELSE one]

Plain == LiveKitAgent({"worker"}, FALSE, Start({"agent"}))
WithoutOs == Front(LiveKitAgent({"worker"}, TRUE, Start({"agent"})))
SmallBot == PipecatBot(FALSE, <<>>, Task({}))
TwoTasks == SmallBot \o <<Task({})>>
Helper == Lib("livekit") \o <<Line({}, "def", "config", {"JobContext"})>>
Requirements == [m \in {"requirements.txt"} |-> {"framework"}]

\* What the checks, or the search for imports, get wrong.
Nested == {"setup", "entrypoint"}
NestedAgent ==
    Lib("livekit")
    \o <<Line({}, "def", "setup", {}), Line({"setup"}, "def", "entrypoint", {"JobContext", "worker"}),
         Line(Nested, "session", "session", {}), Line(Nested, "start", "session", {"agent"})>>
LocalOs(code) == code \o <<Line(Run, "import", "os", {})>>
OffSwitches ==
    {PipecatBot(TRUE, Paired, Task(flags)) :
        flags \in {{"enable_tracing=other"}, {"enable_tracing", "enable_turn_tracking=other"}}}
Awkward == {NestedAgent, LocalOs(Front(Plain))} \cup OffSwitches

\* Every agent alone; some with each other file, path and manifest.
MCRegular ==
    {Repo(One("agent.py", code), Requirements) : code \in LiveKitAgents \cup PipecatBots \cup Awkward
                                                         \cup {TwoTasks}}
    \cup {Repo(One(file, Plain), Requirements) : file \in TestFiles}
    \cup {Repo(Two(Plain, "lib.py", code), Requirements) :
            code \in {Plain, PlainBot, <<Line({}, "direct_observe", "url", {})>>}}
    \cup {Repo(Two(Plain, file, SmallBot), <<>>) : file \in TestFiles}
    \cup {Repo(Two(Plain, "lib.py", Helper), [m \in ToSet(MCManifests) |-> {"framework"}]),
          Repo(One("agent.py", WithoutOs), [m \in {"tests/pyproject.toml"} |-> {"framework", "inline"}]),
          Repo(One("agent.py", Plain), [m \in {"tests/pyproject.toml"} |-> {"framework"}]),
          Repo(One("agent.py", Plain), [m \in {"requirements.txt"} |-> {"cekura"}])}

\* A bot whose task takes the pipeline as an expression, with other keywords.
MCInline ==
    {Repo(One("agent.py", PipecatBot(TRUE, <<>>, Task({"inline", "params"}))), Requirements)}
=============================================================================
