-------------------------------- MODULE Shell --------------------------------
(***************************************************************************)
(* The interactive shell (cli.py:44-264): the settings it remembers, how   *)
(* it turns a line into arguments of the one-shot command line, when it    *)
(* asks for keys, and what each ending of a command leaves.                *)
(*                                                                         *)
(* A line's arguments are a sequence of tokens, as shlex splits them: a    *)
(* word, an option, or option=value.  Options that name an output file are *)
(* left out, and so is --help, which runs nothing.                         *)
(***************************************************************************)
EXTENDS Naturals, Sequences, FiniteSets, FiniteSetsExt, SequencesExt

CONSTANTS
  Dirs,      \* words that name a directory, as they are
  HomeDirs,  \* words that name one after expanduser only (~/x)
  Resolve,   \* of both: the directory
  DesiredFiles,     \* words that name a file
  Numbers,   \* words that are an integer
  Others,    \* words that are none of these
  Swallowed, \* the text of an option=value token taken as a value
  Lines,     \* the arguments that users type
  None

ASSUME WordsAssumption ==
  /\ Resolve \in [Dirs \cup HomeDirs -> Dirs] /\ Dirs \cap HomeDirs = {}
  /\ \A d \in Dirs \cup HomeDirs : Resolve[Resolve[d]] = Resolve[d]
  /\ None \notin Dirs \cup HomeDirs \cup DesiredFiles \cup Numbers \cup Others

VARIABLES
  repo, mode, model_mode, platform_mode, agent_id, project_id,   \* ShellState
  keys,      \* API keys in the environment
  phase,     \* "start" | "prompt" | "running" | "closed"
  running    \* the command under way, see Session

Nothing == << >>   \* no command under way

settings == <<repo, mode, model_mode, platform_mode, agent_id, project_id>>
vars == <<settings, keys, phase, running>>

SHELL_COMMANDS ==
  {"inspect", "plan", "diff", "integrate", "verify", "prepare-platform", "apply-platform", "rollback"}
REPO_COMMANDS == SHELL_COMMANDS \ {"apply-platform"}
MODE_COMMANDS == {"plan", "diff", "integrate", "verify", "prepare-platform"}
MODEL_COMMANDS == {"plan", "diff", "integrate"}
PLATFORM_COMMANDS == {"integrate", "apply-platform"}
AGENT_COMMANDS == {"plan", "diff", "integrate", "prepare-platform"}
PROJECT_COMMANDS == {"integrate", "prepare-platform"}

Modes == {"test", "observe"}
Keys == {"OPENROUTER_API_KEY", "CEKURA_API_KEY"}

-----------------------------------------------------------------------------
(* The one-shot command line: click's reading of the arguments             *)

Flags == {"--apply", "--e2e", "--approve-deletions", "--force"}

\* The options each command declares, and its argument.
OptionsOf ==
  [c \in SHELL_COMMANDS |->
     {o \in {"repo", "--mode", "--model-mode", "--platform-mode", "--agent-id", "--project-id",
             "--desired-state", "--run-id"} \cup Flags :
        c \in CASE o = "repo" -> REPO_COMMANDS
                [] o = "--mode" -> MODE_COMMANDS
                [] o = "--model-mode" -> MODEL_COMMANDS
                [] o = "--platform-mode" -> PLATFORM_COMMANDS
                [] o = "--agent-id" -> AGENT_COMMANDS
                [] o = "--project-id" -> PROJECT_COMMANDS
                [] o = "--apply" -> PLATFORM_COMMANDS
                [] o = "--e2e" -> {"integrate"}
                [] o \in {"--desired-state", "--approve-deletions"} -> {"apply-platform"}
                [] o \in {"--run-id", "--force"} -> {"rollback"}}]

Default ==
  [o \in UNION Range(OptionsOf) |->
     CASE o = "--model-mode" -> "fake" [] o = "--platform-mode" -> "offline"
       [] o \in Flags -> FALSE [] OTHER -> None]

Required(c) ==
  {o \in OptionsOf[c] : o \in {"repo", "--desired-state"} \/ (o = "--mode" /\ c # "verify")}

Word(w) == [form |-> "word", name |-> w, value |-> None]
Option(o) == [form |-> "option", name |-> o, value |-> None]
Assign(o, v) == [form |-> "assign", name |-> o, value |-> v]
Text(token) == IF token.form = "assign" THEN Swallowed ELSE token.name

\* What a value may be; --model-mode, --platform-mode and --run-id take any text.
Valid(o, v) ==
  CASE o = "repo" -> v \in Dirs
    [] o = "--mode" -> v \in Modes
    [] o \in {"--agent-id", "--project-id"} -> v \in Numbers
    [] o = "--desired-state" -> v \in DesiredFiles
    [] OTHER -> TRUE

ASSUME LinesAssumption ==
  \A args \in Lines : /\ args \in Seq(Range(args))
                      /\ \A token \in Range(args) : token.form \in {"word", "option", "assign"}
ASSUME NoneAssumption ==
  None \notin (UNION Range(OptionsOf)) \cup Modes \cup {"fake", "openrouter", "offline", "staging"}

Set(options, o, v) == [p \in DOMAIN options \cup {o} |-> IF p = o THEN v ELSE options[p]]

\* One token: an option takes whatever follows it, its last value counts, and
\* words are arguments.
TakeToken(c, acc, token) ==
  LET known == token.name \in OptionsOf[c] \ {"repo"}
      flag  == token.name \in Flags
  IN  IF acc.pending # None
      THEN [acc EXCEPT !.options = Set(@, acc.pending, Text(token)), !.pending = None]
      ELSE IF token.form = "word" THEN
        IF "repo" \in OptionsOf[c] \ DOMAIN acc.options
        THEN [acc EXCEPT !.options = Set(@, "repo", token.name)]
        ELSE [acc EXCEPT !.ok = FALSE]
      ELSE IF ~known \/ (flag /\ token.form = "assign") THEN [acc EXCEPT !.ok = FALSE]
      ELSE IF flag THEN [acc EXCEPT !.options = Set(@, token.name, TRUE)]
      ELSE IF token.form = "option" THEN [acc EXCEPT !.pending = token.name]
      ELSE [acc EXCEPT !.options = Set(@, token.name, token.value)]

Parse(c, args) ==
  FoldLeft(LAMBDA acc, token : TakeToken(c, acc, token),
           [options |-> << >>, pending |-> None, ok |-> TRUE], args)

\* No usage error.
Accepts(c, args) ==
  LET p == Parse(c, args)
  IN  /\ p.ok /\ p.pending = None
      /\ Required(c) \subseteq DOMAIN p.options
      /\ \A o \in DOMAIN p.options : Valid(o, p.options[o])

\* What the arguments give, the repository by its directory.
Given(c, args) ==
  LET options == Parse(c, args).options
  IN  [o \in DOMAIN options |->
         IF o = "repo" /\ options[o] \in Dirs THEN Resolve[options[o]] ELSE options[o]]

-----------------------------------------------------------------------------
(* From a line to arguments                                                *)

HasOption(args, o) == \E i \in DOMAIN args : args[i].form # "word" /\ args[i].name = o

OptionsFirst(args) == args # << >> /\ args[1].form # "word"

\* The text after the first bare occurrence, else of the first o=value.
OptionValue(args, o, default) ==
  LET bare    == {i \in DOMAIN args : args[i].form = "option" /\ args[i].name = o}
      assigns == {i \in DOMAIN args : args[i].form = "assign" /\ args[i].name = o}
  IN  IF bare # {} /\ Min(bare) < Len(args) THEN Text(args[Min(bare) + 1])
      ELSE IF assigns # {} THEN args[Min(assigns)].value
      ELSE default

\* What the session has for options, in the order they are appended.
SessionOptions ==
  <<[name |-> "--mode", value |-> mode],
    [name |-> "--model-mode", value |-> model_mode],
    [name |-> "--platform-mode", value |-> platform_mode],
    [name |-> "--agent-id", value |-> agent_id],
    [name |-> "--project-id", value |-> project_id]>>

\* Mutant: the session's options are appended whatever the line says.
AppendOptionAlways(c, args, s) ==
  IF s.name \in OptionsOf[c] /\ s.value # None THEN args \o <<Option(s.name), Word(s.value)>>
  ELSE args

\* An option the command takes, the session has and the line does not give.
AppendOption(c, args, s) ==
  IF s.name \in OptionsOf[c] /\ s.value # None /\ ~HasOption(args, s.name)
  THEN args \o <<Option(s.name), Word(s.value)>>
  ELSE args

\* Mutant: the session's repository goes in front of every line.
WithRepoAlways(c, args) == IF c \in REPO_COMMANDS THEN <<Word(repo)>> \o args ELSE args

\* The session's repository goes in front unless the first token is a word.
WithRepo(c, args) ==
  IF c \in REPO_COMMANDS /\ (args = << >> \/ OptionsFirst(args)) THEN <<Word(repo)>> \o args
  ELSE args

\* _add_shell_defaults: the arguments, and the repository remembered from now on.
Prepared(c, args) ==
  FoldLeft(LAMBDA acc, s : AppendOption(c, acc, s), WithRepo(c, args), SessionOptions)

StickyRepo(c, args) ==
  IF c \in REPO_COMMANDS /\ args # << >> /\ args[1].form = "word"
     /\ args[1].name \in Dirs \cup HomeDirs
  THEN Resolve[args[1].name] ELSE repo

\* Mutant: keys are asked for by the session's settings, not by the line's.
LiveKeysOfSession(c, args) ==
  {k \in Keys : \/ k = "OPENROUTER_API_KEY" /\ c \in MODEL_COMMANDS /\ model_mode = "openrouter"
                \/ k = "CEKURA_API_KEY" /\ c \in PLATFORM_COMMANDS /\ platform_mode = "staging"}

\* _ensure_live_keys: the keys a command is taken to need.
LiveKeys(c, args) ==
  {k \in Keys : \/ /\ k = "OPENROUTER_API_KEY" /\ c \in MODEL_COMMANDS
                   /\ OptionValue(args, "--model-mode", model_mode) = "openrouter"
                \/ /\ k = "CEKURA_API_KEY" /\ c \in PLATFORM_COMMANDS
                   /\ OptionValue(args, "--platform-mode", platform_mode) = "staging"}

-----------------------------------------------------------------------------
(* The session                                                             *)

Init ==
  /\ repo \in {Resolve[d] : d \in Dirs}
  /\ mode = "test" /\ model_mode = "fake" /\ platform_mode = "offline"
  /\ agent_id = None /\ project_id = None
  /\ keys \in SUBSET Keys
  /\ phase = "start" /\ running = Nothing

\* Mutant: the setting is changed before the key is asked for.
ConfigureSetsFirst(useModel, usePlatform, typed) ==
  /\ model_mode' = IF useModel THEN "openrouter" ELSE model_mode
  /\ platform_mode' = IF usePlatform THEN "staging" ELSE platform_mode
  /\ keys' = keys \cup typed
  /\ UNCHANGED <<repo, mode, agent_id, project_id, running>>

\* _configure_online: typed are the keys the user types when asked; an empty
\* one, or an abort, ends it where it is.
Configure(useModel, usePlatform, typed) ==
  LET plannerOk == useModel => "OPENROUTER_API_KEY" \in keys \cup typed
      stagingOk == usePlatform => "CEKURA_API_KEY" \in keys \cup typed
  IN  /\ model_mode' = IF useModel /\ plannerOk THEN "openrouter" ELSE model_mode
      /\ platform_mode' = IF plannerOk /\ usePlatform /\ stagingOk THEN "staging" ELSE platform_mode
      /\ keys' = keys \cup (IF useModel THEN typed \cap {"OPENROUTER_API_KEY"} ELSE {})
                      \cup (IF plannerOk /\ usePlatform THEN typed \cap {"CEKURA_API_KEY"} ELSE {})
      /\ UNCHANGED <<repo, mode, agent_id, project_id, running>>

\* Nothing catches what the first configuration raises.
Begin ==
  /\ phase = "start"
  /\ \/ phase' = "prompt" /\ UNCHANGED <<settings, keys, running>>
     \/ \E useModel, usePlatform \in BOOLEAN, typed \in SUBSET Keys :
          /\ Configure(useModel, usePlatform, typed)
          /\ phase' = IF (useModel => model_mode' = "openrouter")
                         /\ (usePlatform => platform_mode' = "staging")
                      THEN "prompt" ELSE "closed"

AtPrompt == phase = "prompt" /\ UNCHANGED <<phase, running>>

\* /use <repo>
Use(w) ==
  /\ AtPrompt /\ w \in Dirs \cup HomeDirs
  /\ repo' = Resolve[w]
  /\ UNCHANGED <<mode, model_mode, platform_mode, agent_id, project_id, keys>>

\* /mode <test|observe>
SetMode(m) ==
  /\ AtPrompt /\ mode' = m
  /\ UNCHANGED <<repo, model_mode, platform_mode, agent_id, project_id, keys>>

\* /agent <id> [project-id]; None is no second word.  With one that is no number
\* the new agent stays, with the project set before.
SetAgent(a, p) ==
  /\ AtPrompt /\ a \in Numbers
  /\ agent_id' = a
  /\ project_id' = IF p \in Numbers \cup {None} THEN p ELSE project_id
  /\ UNCHANGED <<repo, mode, model_mode, platform_mode, keys>>

\* /online
Online(useModel, usePlatform, typed) ==
  AtPrompt /\ Configure(useModel, usePlatform, typed) /\ UNCHANGED phase

\* /offline keeps the keys.
Offline ==
  /\ AtPrompt /\ model_mode' = "fake" /\ platform_mode' = "offline"
  /\ UNCHANGED <<repo, mode, agent_id, project_id, keys>>

\* A command's line: the repository sticks before anything else is looked at,
\* the missing keys are asked for in turn, and what click then accepts runs.
Submit(c, args) ==
  /\ phase = "prompt"
  /\ LET prepared == Prepared(c, args)
         missing  == LiveKeys(c, prepared) \ keys
         final    == Given(c, prepared)
     IN  \E got \in {{}, missing \cap {"OPENROUTER_API_KEY"}, missing} :
           /\ keys' = keys \cup got
           /\ IF got = missing /\ Accepts(c, prepared)
              THEN /\ phase' = "running"
                   /\ running' = [command |-> c, given |-> Given(c, args),
                                  options |-> [o \in OptionsOf[c] |->
                                    IF o \in DOMAIN final THEN final[o] ELSE Default[o]],
                                  repeats |-> {o \in OptionsOf[c] :
                                    Cardinality({i \in DOMAIN args : args[i].name = o}) > 1}]
              ELSE UNCHANGED <<phase, running>>
  /\ repo' = StickyRepo(c, args)
  /\ UNCHANGED <<mode, model_mode, platform_mode, agent_id, project_id>>

\* Success, an error exit, NEEDS_HUMAN and an abort lead back to the prompt;
\* any other exception is raised again and ends the shell.
Finish ==
  /\ phase = "running"
  /\ running' = Nothing /\ phase' \in {"prompt", "closed"}
  /\ UNCHANGED <<settings, keys>>

\* /exit, /quit, end of input.
Exit == phase = "prompt" /\ phase' = "closed" /\ UNCHANGED <<settings, keys, running>>

WordsTyped == Dirs \cup HomeDirs \cup Numbers \cup Others

Next ==
  \/ Begin \/ Finish \/ Exit \/ Offline
  \/ \E w \in WordsTyped : Use(w)
  \/ \E m \in Modes : SetMode(m)
  \/ \E a \in WordsTyped, p \in WordsTyped \cup {None} : SetAgent(a, p)
  \/ \E useModel, usePlatform \in BOOLEAN, typed \in SUBSET Keys : Online(useModel, usePlatform, typed)
  \/ \E c \in SHELL_COMMANDS, args \in Lines : Submit(c, args)

Spec == Init /\ [][Next]_vars

-----------------------------------------------------------------------------
(* Properties                                                              *)

TypeOK ==
  /\ repo \in Dirs /\ mode \in Modes
  /\ model_mode \in {"fake", "openrouter"} /\ platform_mode \in {"offline", "staging"}
  /\ agent_id \in Numbers \cup {None} /\ project_id \in Numbers \cup {None}
  /\ keys \subseteq Keys
  /\ phase \in {"start", "prompt", "running", "closed"}
  /\ phase # "running" => running = Nothing

\* Live services are never set without their key, wherever /online, or the
\* question at the start, was broken off (cli.py:96-103).
LiveSettingsHaveKeys ==
  /\ model_mode = "openrouter" => "OPENROUTER_API_KEY" \in keys
  /\ platform_mode = "staging" => "CEKURA_API_KEY" \in keys

\* A command that will use a live service was asked for the key before, also
\* where only the line says so (cli.py:145-151); an option given twice escapes,
\* since the shell looks at its first value and click at its last.
KeyBeforeLive ==
  phase = "running" =>
    LET live(o, v) == o \in DOMAIN running.options /\ running.options[o] = v /\ o \notin running.repeats
    IN  /\ live("--model-mode", "openrouter") => "OPENROUTER_API_KEY" \in keys
        /\ live("--platform-mode", "staging") => "CEKURA_API_KEY" \in keys

\* "Arguments and options match the one-shot CLI" (cli.py:73): a line the
\* one-shot command accepts is accepted here, and runs with every option it
\* gives.  The exception is a repository after an option: the shell puts its own
\* in front, and there are two.
LinesMatchOneShot ==
  phase = "prompt" =>
    \A c \in SHELL_COMMANDS : \A args \in {a \in Lines : Accepts(c, a)} :
      LET given    == Given(c, args)
          prepared == Prepared(c, args)
          final    == Given(c, prepared)
      IN  \/ "repo" \in DOMAIN given /\ OptionsFirst(args)
          \/ Accepts(c, prepared) /\ \A o \in DOMAIN given : final[o] = given[o]

\* The session's settings by their names on the command line.
SessionSettings ==
  [s \in {"repo", "--mode", "--model-mode", "--platform-mode", "--agent-id", "--project-id"} |->
     CASE s = "repo" -> repo [] s = "--mode" -> mode
       [] s = "--model-mode" -> model_mode [] s = "--platform-mode" -> platform_mode
       [] s = "--agent-id" -> agent_id [] s = "--project-id" -> project_id]

Promise == INSTANCE Session WITH
  Commands <- SHELL_COMMANDS, Takes <- OptionsOf,
  Groups   <- {{"repo"}, {"--mode"}, {"--agent-id", "--project-id"}, {"--model-mode", "--platform-mode"}},
  settings <- SessionSettings,
  open     <- phase # "closed"

\* The shell keeps Session's promise: what a command runs with is what its line
\* gives over what the session remembers, and only the repository of a line
\* outlives its command (cli.py:119-142, 181-264).
SessionKept == Promise!Spec
=============================================================================
