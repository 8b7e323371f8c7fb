------------------------------ MODULE Features ------------------------------
(***************************************************************************)
(* What is registered on the Cekura platform for a repository: mock tools, *)
(* dynamic variables and knowledge-base documents                          *)
(* (features/mock_tools.py, dynamic_vars.py, knowledge_base.py), computed  *)
(* from the evidence the scanner found (scanner/evidence.py).              *)
(*                                                                         *)
(* Evidence is a sequence of items in the order of their ids; the position *)
(* of an item also stands for its place (file and line) in the repository. *)
(*   tool         a decorated function, a FunctionSchema, or a             *)
(*                register_function call, which names no parameters        *)
(*   placeholder  {{name}} in a string of a Python file, or, rejected, in  *)
(*                a .md or .txt document                                   *)
(*   input        a key read from the job metadata or the session data;    *)
(*                NoKey when the whole object is read                      *)
(*   read         open("...") or Path("...") of a document                 *)
(***************************************************************************)
EXTENDS Naturals, Sequences, SequencesExt

CONSTANTS
  Names,     \* names of tools and variables
  NoKey,     \* the key of an input that has none
  Params,    \* parameters of tools
  Hinted,    \* parameters whose name has a hint: phone, date, email, ..._id
  Numeric,   \* parameters typed int or float
  Booleans,  \* parameters typed bool
  Paths,     \* paths of documents (.md, .txt, .pdf, ...)
  InKBDir,   \* those in a directory such as docs/ or kb/
  Contents,  \* contents of documents
  NoDoc      \* a document that is not there

ASSUME ParamsAssumption ==
  /\ Hinted \subseteq Params /\ Numeric \subseteq Params /\ Booleans \subseteq Params
  /\ Numeric \cap Booleans = {}
ASSUME DocsAssumption == InKBDir \subseteq Paths /\ NoDoc \notin Contents /\ NoKey \notin Names

Item ==
  [kind : {"tool"}, name : Names, params : SUBSET Params, rejected : {FALSE}]
  \cup [kind : {"placeholder"}, name : Names, params : {{}}, rejected : BOOLEAN]
  \cup [kind : {"input"}, name : Names \cup {NoKey}, params : {{}}, rejected : {FALSE}]
  \cup [kind : {"read"}, name : Paths, params : {{}}, rejected : {FALSE}]

\* EvidenceMap.of_kind: the ids of one kind of evidence, rejected ones left out.
OfKind(items, kind) == {i \in DOMAIN items : items[i].kind = kind /\ ~items[i].rejected}

\* for ev in ...: what the loop body Step makes of base, id by id in their order.
ForEach(Step(_, _), base, ids) ==
  MapThenFoldSet(LAMBDA i, acc : Step(acc, i), base, LAMBDA i : i, LAMBDA s : Max(s), ids)

NoSpecs == << >>
Put(specs, name, spec) ==
  [n \in DOMAIN specs \cup {name} |-> IF n = name THEN spec ELSE specs[n]]

-----------------------------------------------------------------------------
(* Mock tools                                                              *)

Labels == <<"success", "empty", "error">>

\* Mutant: every variant gets the value of the first.
SyntheticValueOnce(p, variant) ==
  IF p \in Hinted \cup Numeric THEN 1 ELSE "MOCK-VALUE"

\* A name hint counts the variants, and so do numbers; other types get a text
\* per variant; a Boolean is always True.
SyntheticValue(p, variant) ==
  IF p \in Hinted THEN variant + 1
  ELSE IF p \in Booleans THEN TRUE
  ELSE IF p \in Numeric THEN 1 + variant
  ELSE IF variant = 0 THEN "MOCK-VALUE"
  ELSE IF variant - 1 = 0 THEN "MOCK-VALUE-EMPTY" ELSE "MOCK-VALUE-ERROR"

\* mock_data: one entry per label, or one entry without input.
MockData(params) ==
  IF params = {} THEN <<[input |-> << >>, output |-> "success"]>>
  ELSE [k \in 1..3 |-> [input  |-> [p \in params |-> SyntheticValue(p, k - 1)],
                        output |-> Labels[k]]]

\* Mutant: a definition without parameters replaces one that has them.
AddToolAlways(items, specs, i) ==
  LET name  == items[i].name
      known == name \in DOMAIN specs
  IN  Put(specs, name, [params |-> items[i].params, data |-> MockData(items[i].params),
                        ids |-> <<i>> \o (IF known THEN specs[name].ids ELSE << >>)])

\* The loop body of build_mock_tool_specs.
AddTool(items, specs, i) ==
  LET name  == items[i].name
      known == name \in DOMAIN specs
  IN  IF known /\ items[i].params = {}
      THEN [specs EXCEPT ![name].ids = Append(@, i)]
      ELSE Put(specs, name, [params |-> items[i].params, data |-> MockData(items[i].params),
                             ids |-> <<i>> \o (IF known THEN specs[name].ids ELSE << >>)])

MockTools(items) ==
  ForEach(LAMBDA specs, i : AddTool(items, specs, i), NoSpecs, OfKind(items, "tool"))

-----------------------------------------------------------------------------
(* Dynamic variables: the description names the places of the evidence     *)

\* A later placeholder of a name replaces the earlier one's spec.
AddPlaceholder(items, specs, i) ==
  Put(specs, items[i].name, [prompt |-> i, also |-> << >>, ids |-> <<i>>])

\* "ALSO read structurally from ...": both paths must deliver the value.
AddInput(items, specs, i) ==
  LET name == items[i].name
  IN  IF name \in DOMAIN specs
      THEN [specs EXCEPT ![name].also = Append(@, i), ![name].ids = Append(@, i)]
      ELSE Put(specs, name, [prompt |-> 0, also |-> <<i>>, ids |-> <<i>>])

Prompts(items) ==
  ForEach(LAMBDA specs, i : AddPlaceholder(items, specs, i), NoSpecs,
          OfKind(items, "placeholder"))

DynamicVariables(items) ==
  ForEach(LAMBDA specs, i : AddInput(items, specs, i), Prompts(items),
          {i \in OfKind(items, "input") : items[i].name # NoKey})

-----------------------------------------------------------------------------
(* Knowledge base                                                          *)

\* Paths that code of the repository opens.
ReadByCode(items) == {items[i].name : i \in OfKind(items, "read")}

\* Mutant: paths code opens need not be in the snapshot.
KBManifestUnchecked(items, docs) ==
  [p \in {q \in Paths : (docs[q] # NoDoc /\ q \in InKBDir) \/ q \in ReadByCode(items)} |->
     [sha256 |-> docs[p], approved |-> FALSE]]

\* build_kb_manifest: documents of the snapshot in a knowledge directory or
\* read by code, with the hash of what they hold, none of them approved.
KBManifest(items, docs) ==
  [p \in {q \in Paths : docs[q] # NoDoc /\ q \in InKBDir \cup ReadByCode(items)} |->
     [sha256 |-> docs[p], approved |-> FALSE]]

-----------------------------------------------------------------------------
(* What is sent: mock_tool_payload leaves out the parameters and evidence, *)
(* dynvar_payload sends the description.                                   *)

ToolPayloads(items) ==
  LET specs == MockTools(items) IN [n \in DOMAIN specs |-> specs[n].data]
VarPayloads(items) ==
  LET specs == DynamicVariables(items)
  IN  [n \in DOMAIN specs |-> [prompt |-> specs[n].prompt, also |-> specs[n].also]]

-----------------------------------------------------------------------------
(* Reference definitions                                                   *)

\* Evidence of kind about name, not rejected.
About(items, kind, name) ==
  {i \in OfKind(items, kind) : items[i].name = name}

Named(items, kind) == {items[i].name : i \in OfKind(items, kind)}

\* Every discovered tool is specified once; its parameters are those of the last
\* definition that has any, whatever comes before or after; every piece of
\* evidence is cited exactly once (mock_tools.py:73-107, verify_mock_names).
ToolsFaithful(items) ==
  LET specs == MockTools(items)
  IN  /\ DOMAIN specs = Named(items, "tool")
      /\ \A n \in DOMAIN specs :
           LET all  == About(items, "tool", n)
               rich == {i \in all : items[i].params # {}}
           IN  /\ specs[n].params =
                    IF rich = {} THEN {}
                    ELSE items[CHOOSE i \in rich : \A j \in rich : j <= i].params
               /\ Range(specs[n].ids) = all /\ Len(specs[n].ids) = Cardinality(all)

\* A variable is registered for every placeholder of a Python string and every
\* key read in code, and for nothing only a document mentions; its description
\* names the last placeholder and every read (dynamic_vars.py:51-107).
VariablesFaithful(items) ==
  LET specs == DynamicVariables(items)
  IN  /\ DOMAIN specs = Named(items, "placeholder") \cup (Named(items, "input") \ {NoKey})
      /\ \A n \in DOMAIN specs :
           LET prompts == About(items, "placeholder", n)
           IN  /\ specs[n].prompt = IF prompts = {} THEN 0
                                    ELSE CHOOSE i \in prompts : \A j \in prompts : j <= i
               /\ Range(specs[n].also) = About(items, "input", n)

\* "the platform maps each input to exactly one output" (mock_tools.py:33-34):
\* the inputs of a tool's variants differ, except where every parameter is a
\* Boolean without a name hint, whose value never varies.
MocksAreFunctions(items) ==
  LET specs == MockTools(items)
  IN  \A n \in DOMAIN specs :
    LET spec == specs[n]
    IN  (spec.params = {} \/ ~(spec.params \subseteq Booleans \ Hinted))
          => \A j, k \in DOMAIN spec.data : j # k => spec.data[j].input # spec.data[k].input
=============================================================================
