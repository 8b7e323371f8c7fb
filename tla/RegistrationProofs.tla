------------------------- MODULE RegistrationProofs -------------------------
(***************************************************************************)
(* Theorems about Registration for every set of names, documents, agents   *)
(* and edits: first what the specs computed from any evidence are, then    *)
(* what an execution may upload, register, remove and announce.            *)
(***************************************************************************)
EXTENDS Registration, FiniteSetTheorems, TLAPS

-----------------------------------------------------------------------------
(* The specs of a repository                                               *)

ToolLoop == INSTANCE InOrder WITH Op <- AddTool

ToolSpec == [params : SUBSET Params, data : {MockData(ps) : ps \in SUBSET Params}, ids : Seq(Nat)]

Concerning(its, S, n) == {i \in S : its[i].name = n}
Rich(its, S) == {i \in S : its[i].params # {}}
IsLast(i, S) == i \in S /\ \A j \in S : j <= i

\* What the specs say of one tool once the evidence S has been looked at.
ToolSaid(its, all, spec) ==
  /\ spec \in ToolSpec
  /\ spec.data = MockData(spec.params)
  /\ Rich(its, all) = {} => spec.params = {}
  /\ Rich(its, all) # {} => \E i \in Rich(its, all) : IsLast(i, Rich(its, all)) /\ spec.params = its[i].params
  /\ IsFiniteSet(all) /\ Range(spec.ids) = all /\ Len(spec.ids) = Cardinality(all)

\* The same of all of them: loop invariant of build_mock_tool_specs.
ToolsSaid(its, S, specs) ==
  /\ DOMAIN specs = {its[i].name : i \in S}
  /\ \A n \in DOMAIN specs : ToolSaid(its, Concerning(its, S, n), specs[n])

\* Evidence is cited one more.
LEMMA CiteOne ==
  ASSUME NEW s \in Seq(Nat), NEW i \in Nat
  PROVE  /\ <<i>> \o s \in Seq(Nat) /\ Append(s, i) \in Seq(Nat)
         /\ Range(<<i>> \o s) = Range(s) \cup {i} /\ Range(Append(s, i)) = Range(s) \cup {i}
         /\ Len(<<i>> \o s) = Len(s) + 1 /\ Len(Append(s, i)) = Len(s) + 1
<1>1. /\ <<i>> \o s \in Seq(Nat) /\ Append(s, i) \in Seq(Nat)
      /\ Len(<<i>> \o s) = Len(s) + 1 /\ Len(Append(s, i)) = Len(s) + 1
  OBVIOUS
<1>2. Range(Append(s, i)) = Range(s) \cup {i}
  <2>1. \A k \in 1..Len(s) : Append(s, i)[k] = s[k]
    OBVIOUS
  <2>2. Append(s, i)[Len(s) + 1] = i
    OBVIOUS
  <2>3. DOMAIN Append(s, i) = 1..Len(s) \cup {Len(s) + 1} /\ DOMAIN s = 1..Len(s)
    OBVIOUS
  <2> QED BY <2>1, <2>2, <2>3 DEF Range
<1>3. Range(<<i>> \o s) = Range(s) \cup {i}
  <2> DEFINE t == <<i>> \o s
  <2>1. t[1] = i /\ \A k \in 1..Len(s) : t[k + 1] = s[k]
    OBVIOUS
  <2>2. DOMAIN t = 1..(Len(s) + 1) /\ DOMAIN s = 1..Len(s) /\ Len(s) \in Nat
    OBVIOUS
  <2>3. \A k \in 1..(Len(s) + 1) : k = 1 \/ (k - 1 \in 1..Len(s) /\ (k - 1) + 1 = k)
    BY <2>2
  <2>4. \A k \in 1..Len(s) : k + 1 \in 1..(Len(s) + 1)
    BY <2>2
  <2>5. 1 \in 1..(Len(s) + 1)
    BY <2>2
  <2> HIDE DEF t
  <2>6. Range(t) \subseteq Range(s) \cup {i}
    <3> SUFFICES ASSUME NEW k \in 1..(Len(s) + 1) PROVE t[k] \in Range(s) \cup {i}
      BY <2>2 DEF Range
    <3>1. CASE k = 1
      BY <3>1, <2>1
    <3>2. CASE k # 1
      <4>1. k - 1 \in 1..Len(s) /\ (k - 1) + 1 = k
        BY <2>3, <3>2
      <4>2. t[k] = s[k - 1]
        BY <2>1, <4>1
      <4> QED BY <4>1, <4>2, <2>2 DEF Range
    <3> QED BY <3>1, <3>2
  <2>7. Range(s) \cup {i} \subseteq Range(t)
    BY <2>1, <2>2, <2>4, <2>5 DEF Range
  <2> QED BY <2>6, <2>7 DEF t
<1> QED BY <1>1, <1>2, <1>3

\* An item of evidence has a number.
LEMMA ItemsTyped ==
  ASSUME NEW its \in Seq(Item)
  PROVE  /\ \A kind : OfKind(its, kind) \in SUBSET (1..Len(its))
         /\ \A kind : \A k \in OfKind(its, kind) : its[k] \in Item /\ its[k].kind = kind /\ k \in Nat
         /\ \A k \in OfKind(its, "tool") : its[k].name \in Names /\ its[k].params \in SUBSET Params
<1>1. \A kind : \A k \in OfKind(its, kind) :
        k \in 1..Len(its) /\ its[k] \in Item /\ its[k].kind = kind /\ k \in Nat
  BY DEF OfKind
<1>2. \A item \in Item : item.kind = "tool" => item.name \in Names /\ item.params \in SUBSET Params
  BY DEF Item
<1> QED BY <1>1, <1>2

\* A loop body that looks at a tool's evidence keeps the loop invariant.
LEMMA AddToolSays ==
  ASSUME NEW its \in Seq(Item), NEW S \in SUBSET OfKind(its, "tool"), NEW k \in OfKind(its, "tool"),
         \A j \in S : j < k, NEW specs, ToolsSaid(its, S, specs)
  PROVE  ToolsSaid(its, S \cup {k}, AddTool(its, specs, k))
<1> DEFINE name  == its[k].name
           after == AddTool(its, specs, k)
           all   == Concerning(its, S, name)
<1>1. its[k].params \in SUBSET Params /\ k \in Nat /\ k \notin S
  BY ItemsTyped
<1>2. Concerning(its, S \cup {k}, name) = all \cup {k} /\ k \notin all
  BY <1>1 DEF Concerning
<1>3. \A n : n # name => Concerning(its, S \cup {k}, n) = Concerning(its, S, n)
  BY DEF Concerning
<1>4. DOMAIN after = DOMAIN specs \cup {name} /\ \A n \in DOMAIN specs \ {name} : after[n] = specs[n]
  BY DEF AddTool, Put
<1>5. DOMAIN after = {its[i].name : i \in S \cup {k}}
  BY <1>4 DEF ToolsSaid
<1>6. ToolSaid(its, all \cup {k}, after[name])
  <2>1. CASE name \in DOMAIN specs
    <3>1. ToolSaid(its, all, specs[name]) /\ specs[name] \in ToolSpec
      BY <2>1 DEF ToolsSaid, ToolSaid
    <3>2. IsFiniteSet(all \cup {k}) /\ Cardinality(all \cup {k}) = Cardinality(all) + 1
      BY <3>1, <1>2, FS_AddElement DEF ToolSaid
    <3>3. specs[name].ids \in Seq(Nat) /\ Range(specs[name].ids) = all /\ Len(specs[name].ids) = Cardinality(all)
      BY <3>1 DEF ToolSaid, ToolSpec
    <3>4. CASE its[k].params = {}
      <4>1. after[name] = [specs[name] EXCEPT !.ids = Append(@, k)]
        BY <2>1, <3>4 DEF AddTool
      <4>2. specs[name] = [params |-> specs[name].params, data |-> specs[name].data,
                           ids |-> specs[name].ids]
        BY <3>1 DEF ToolSpec
      <4>5. after[name] = [params |-> specs[name].params, data |-> specs[name].data,
                           ids |-> Append(specs[name].ids, k)]
        BY <4>1, <4>2
      <4>6. after[name] \in ToolSpec
        BY <4>5, <3>1, <1>1, CiteOne DEF ToolSpec
      <4>3. Rich(its, all \cup {k}) = Rich(its, all)
        BY <3>4 DEF Rich
      <4> HIDE DEF after, name
      <4>7. /\ after[name].params = specs[name].params /\ after[name].data = specs[name].data
            /\ after[name].ids = Append(specs[name].ids, k)
        BY <4>5
      <4>8. Range(after[name].ids) = all \cup {k} /\ Len(after[name].ids) = Cardinality(all) + 1
        BY <4>7, <3>3, <1>1, CiteOne
      <4> HIDE DEF all
      <4> QED BY <3>1, <3>2, <4>3, <4>6, <4>7, <4>8 DEF ToolSaid
    <3>5. CASE its[k].params # {}
      <4>1. after[name] = [params |-> its[k].params, data |-> MockData(its[k].params),
                           ids |-> <<k>> \o specs[name].ids]
        BY <2>1, <3>5 DEF AddTool, Put
      <4>2. IsLast(k, Rich(its, all \cup {k})) /\ k \in Rich(its, all \cup {k})
        BY <3>5, <1>1 DEF Rich, IsLast, Concerning, OfKind
      <4>3. after[name] \in ToolSpec
        BY <4>1, <3>3, <1>1, CiteOne DEF ToolSpec
      <4>4. /\ after[name].params = its[k].params /\ after[name].data = MockData(its[k].params)
            /\ after[name].ids = <<k>> \o specs[name].ids
        BY <4>1
      <4>5. Range(after[name].ids) = all \cup {k} /\ Len(after[name].ids) = Cardinality(all) + 1
        BY <4>4, <3>3, <1>1, CiteOne
      <4> HIDE DEF after, all
      <4> QED BY <3>2, <4>2, <4>3, <4>4, <4>5 DEF ToolSaid
    <3> QED BY <3>4, <3>5
  <2>2. CASE name \notin DOMAIN specs
    <3>1. all = {}
      BY <2>2 DEF Concerning, ToolsSaid
    <3>2. after[name] = [params |-> its[k].params, data |-> MockData(its[k].params),
                         ids |-> <<k>> \o << >>]
      BY <2>2 DEF AddTool, Put
    <3>3. <<k>> \o << >> = <<k>>
      BY <1>1
    <3>4. after[name] \in ToolSpec
      BY <1>1, <3>2, <3>3 DEF ToolSpec
    <3>5. IsFiniteSet({k}) /\ Cardinality({k}) = 1 /\ Range(<<k>>) = {k} /\ Len(<<k>>) = 1
      <4>1. Range(<<k>>) = {k} /\ Len(<<k>>) = 1
        BY <1>1 DEF Range
      <4> QED BY <4>1, FS_Singleton
    <3>6. its[k].params # {} => k \in Rich(its, {k}) /\ IsLast(k, Rich(its, {k}))
      BY <1>1 DEF Rich, IsLast
    <3>7. its[k].params = {} => Rich(its, {k}) = {}
      BY DEF Rich
    <3>8. all \cup {k} = {k}
      BY <3>1
    <3>9. /\ after[name].params = its[k].params /\ after[name].data = MockData(its[k].params)
          /\ after[name].ids = <<k>>
      BY <3>2, <3>3
    <3> HIDE DEF after, all
    <3> QED BY <3>4, <3>5, <3>6, <3>7, <3>8, <3>9 DEF ToolSaid
  <2> QED BY <2>1, <2>2
<1>7. ASSUME NEW n \in DOMAIN after
      PROVE  ToolSaid(its, Concerning(its, S \cup {k}, n), after[n])
  <2>1. CASE n = name
    BY <1>2, <1>6, <2>1
  <2>2. CASE n # name
    <3>1. n \in DOMAIN specs /\ after[n] = specs[n]
      BY <1>4, <2>2
    <3> HIDE DEF after, all, name
    <3> QED BY <3>1, <2>2, <1>3 DEF ToolsSaid
  <2> QED BY <2>1, <2>2
<1> QED BY <1>5, <1>7 DEF ToolsSaid

\* What build_mock_tool_specs returns for any evidence.
LEMMA MockToolsSay ==
  ASSUME NEW its \in Seq(Item)
  PROVE  ToolsSaid(its, OfKind(its, "tool"), MockTools(its))
<1> DEFINE n == Len(its)
           K == OfKind(its, "tool")
           Seen(k) == {i \in K : i <= k}
<1>1. n \in Nat /\ K \in SUBSET (1..n)
  BY ItemsTyped
<1>2. MockTools(its) = ToolLoop!Fold(its, NoSpecs, K)
  BY DEF MockTools, ForEach, MapThenFoldSet, Max,
         ToolLoop!Fold, ToolLoop!MapThenFoldSet, ToolLoop!Max
<1>3. PICK f : /\ f[0] = NoSpecs /\ f[n] = MockTools(its)
               /\ \A k \in 1..n : f[k] = IF k \in K THEN AddTool(its, f[k - 1], k) ELSE f[k - 1]
  BY <1>1, <1>2, ToolLoop!FoldRun
<1> DEFINE X == {k \in 0..n : ToolsSaid(its, Seen(k), f[k])}
<1>4. 0 \in X
  <2>1. Seen(0) = {} /\ DOMAIN NoSpecs = {} /\ 0 \in 0..n
    BY <1>1 DEF NoSpecs
  <2> QED BY <2>1, <1>3 DEF ToolsSaid
<1>5. ASSUME NEW k \in 1..n, k - 1 \in X PROVE k \in X
  <2>1. ToolsSaid(its, Seen(k - 1), f[k - 1]) /\ k \in 0..n
    BY <1>5
  <2>2. CASE k \in K
    <3>1. Seen(k) = Seen(k - 1) \cup {k} /\ Seen(k - 1) \in SUBSET K /\ \A j \in Seen(k - 1) : j < k
      BY <1>1, <2>2
    <3>2. ToolsSaid(its, Seen(k - 1) \cup {k}, AddTool(its, f[k - 1], k))
      BY <2>1, <2>2, <3>1, AddToolSays
    <3> QED BY <2>1, <2>2, <3>1, <3>2, <1>3
  <2>3. CASE k \notin K
    <3>1. Seen(k) = Seen(k - 1)
      BY <1>1, <2>3
    <3> QED BY <2>1, <2>3, <3>1, <1>3
  <2> QED BY <2>2, <2>3
<1>6. n \in X
  <2> HIDE DEF X, n
  <2>1. n \in 0..n
    BY <1>1
  <2> QED BY <2>1, <1>1, <1>4, <1>5, ToolLoop!IntervalInductive
<1>7. Seen(n) = K
  BY <1>1
<1> QED BY <1>3, <1>6, <1>7

\* There is one last element.
LEMMA LastIsUnique ==
  ASSUME NEW S \in SUBSET Nat, NEW i, IsLast(i, S)
  PROVE  S # {} /\ i = CHOOSE j \in S : \A k \in S : k <= j
<1>1. i \in S /\ (\A j \in S : j <= i) /\ i \in Nat
  BY DEF IsLast
<1>2. \A j \in S : (\A k \in S : k <= j) => j = i
  BY <1>1
<1>3. \E j \in S : \A k \in S : k <= j
  BY <1>1
<1> QED BY <1>1, <1>2, <1>3

\* Mock tools are specified as they should be, for any evidence.
LEMMA ToolsAreFaithful ==
  ASSUME NEW its \in Seq(Item) PROVE ToolsFaithful(its)
<1> DEFINE specs == MockTools(its)
           K     == OfKind(its, "tool")
<1>1. ToolsSaid(its, K, specs)
  BY MockToolsSay
<1>2. DOMAIN specs = Named(its, "tool")
  BY <1>1 DEF ToolsSaid, Named
<1>3. ASSUME NEW n \in DOMAIN specs
      PROVE  LET all  == About(its, "tool", n)
                 rich == {i \in all : its[i].params # {}}
             IN  /\ specs[n].params =
                      IF rich = {} THEN {}
                      ELSE its[CHOOSE i \in rich : \A j \in rich : j <= i].params
                 /\ Range(specs[n].ids) = all /\ Len(specs[n].ids) = Cardinality(all)
  <2> DEFINE all  == About(its, "tool", n)
             rich == {i \in all : its[i].params # {}}
  <2> SUFFICES /\ specs[n].params = IF rich = {} THEN {}
                                    ELSE its[CHOOSE i \in rich : \A j \in rich : j <= i].params
               /\ Range(specs[n].ids) = all /\ Len(specs[n].ids) = Cardinality(all)
    OBVIOUS
  <2>1. all = Concerning(its, K, n) /\ rich = Rich(its, all)
    BY DEF About, Concerning, Rich
  <2>2. ToolSaid(its, all, specs[n])
    BY <1>1, <2>1 DEF ToolsSaid
  <2>3. rich \in SUBSET Nat
    BY ItemsTyped DEF About
  <2>4. CASE rich = {}
    BY <2>1, <2>2, <2>4 DEF ToolSaid
  <2>5. CASE rich # {}
    <3>1. PICK i \in rich : IsLast(i, rich) /\ specs[n].params = its[i].params
      BY <2>1, <2>2, <2>5 DEF ToolSaid
    <3>2. i = CHOOSE j \in rich : \A k \in rich : k <= j
      BY <3>1, <2>3, LastIsUnique
    <3> HIDE DEF rich, all, specs
    <3> QED BY <2>2, <2>5, <3>1, <3>2 DEF ToolSaid
  <2> QED BY <2>4, <2>5
<1> QED BY <1>2, <1>3 DEF ToolsFaithful

\* A parameter that is no unhinted Boolean has a value of its own per variant.
LEMMA ValuesDiffer ==
  ASSUME NEW p, p \notin Booleans \ Hinted, NEW i \in 0..2, NEW j \in 0..2, i # j
  PROVE  SyntheticValue(p, i) # SyntheticValue(p, j)
<1>1. CASE p \in Hinted
  BY <1>1 DEF SyntheticValue
<1>2. CASE p \notin Hinted /\ p \in Numeric
  BY <1>2 DEF SyntheticValue
<1>3. CASE p \notin Hinted /\ p \notin Numeric
  <2>1. \A v \in 0..2 : v = 0 \/ v = 1 \/ v = 2
    OBVIOUS
  <2>2. p \notin Booleans
    BY <1>3
  <2>3. /\ SyntheticValue(p, 0) = "MOCK-VALUE" /\ SyntheticValue(p, 1) = "MOCK-VALUE-EMPTY"
        /\ SyntheticValue(p, 2) = "MOCK-VALUE-ERROR"
    BY <1>3, <2>2 DEF SyntheticValue
  <2> QED BY <2>1, <2>3
<1> QED BY <1>1, <1>2, <1>3

\* The inputs of a tool's variants differ, for any evidence.
LEMMA MocksDiffer ==
  ASSUME NEW its \in Seq(Item) PROVE MocksAreFunctions(its)
<1> DEFINE specs == MockTools(its)
<1>1. ASSUME NEW n \in DOMAIN specs,
             specs[n].params = {} \/ ~(specs[n].params \subseteq Booleans \ Hinted),
             NEW j \in DOMAIN specs[n].data, NEW k \in DOMAIN specs[n].data, j # k
      PROVE  specs[n].data[j].input # specs[n].data[k].input
  <2> DEFINE params == specs[n].params
  <2>1. specs[n].data = MockData(params)
    BY MockToolsSay DEF ToolsSaid, ToolSaid
  <2> HIDE DEF specs, params
  <2>2. CASE params = {}
    <3>1. DOMAIN MockData(params) = {1}
      BY <2>2 DEF MockData
    <3> QED BY <1>1, <2>1, <3>1
  <2>3. CASE params # {}
    <3>1. PICK p \in params : p \notin Booleans \ Hinted
      BY <1>1, <2>3 DEF params
    <3>2. j \in 1..3 /\ k \in 1..3
      BY <2>1, <2>3 DEF MockData
    <3>3. /\ specs[n].data[j].input = [q \in params |-> SyntheticValue(q, j - 1)]
          /\ specs[n].data[k].input = [q \in params |-> SyntheticValue(q, k - 1)]
      BY <2>1, <2>3, <3>2 DEF MockData
    <3>4. SyntheticValue(p, j - 1) # SyntheticValue(p, k - 1)
      <4>1. j - 1 \in 0..2 /\ k - 1 \in 0..2 /\ j - 1 # k - 1
        BY <1>1, <3>2
      <4> QED BY <3>1, <4>1, ValuesDiffer
    <3>5. /\ specs[n].data[j].input[p] = SyntheticValue(p, j - 1)
          /\ specs[n].data[k].input[p] = SyntheticValue(p, k - 1)
      BY <3>1, <3>3
    <3> QED BY <3>4, <3>5
  <2> QED BY <2>2, <2>3
<1> QED BY <1>1 DEF MocksAreFunctions

-----------------------------------------------------------------------------
(* Variables                                                               *)

PromptLoop == INSTANCE InOrder WITH Op <- AddPlaceholder
InputLoop  == INSTANCE InOrder WITH Op <- AddInput

\* Loop invariant of the placeholders: a name's spec is of its last one.
PromptsSaid(its, S, specs) ==
  /\ DOMAIN specs = {its[i].name : i \in S}
  /\ \A n \in DOMAIN specs : \E i \in Nat :
       /\ IsLast(i, Concerning(its, S, n))
       /\ specs[n] = [prompt |-> i, also |-> << >>, ids |-> <<i>>]

\* Loop invariant of the inputs, after the placeholders P.
VariablesSaid(its, P, S, specs) ==
  /\ DOMAIN specs = {its[i].name : i \in P} \cup {its[i].name : i \in S}
  /\ \A n \in DOMAIN specs :
       /\ specs[n] \in [prompt : Nat, also : Seq(Nat), ids : Seq(Nat)]
       /\ IF Concerning(its, P, n) = {} THEN specs[n].prompt = 0
          ELSE IsLast(specs[n].prompt, Concerning(its, P, n))
       /\ Range(specs[n].also) = Concerning(its, S, n)

\* The placeholders of any evidence.
LEMMA PromptsSay ==
  ASSUME NEW its \in Seq(Item)
  PROVE  PromptsSaid(its, OfKind(its, "placeholder"), Prompts(its))
<1> DEFINE n == Len(its)
           K == OfKind(its, "placeholder")
           Seen(k) == {i \in K : i <= k}
<1>1. n \in Nat /\ K \in SUBSET (1..n)
  BY ItemsTyped
<1>2. Prompts(its) = PromptLoop!Fold(its, NoSpecs, K)
  BY DEF Prompts, ForEach, MapThenFoldSet, Max,
         PromptLoop!Fold, PromptLoop!MapThenFoldSet, PromptLoop!Max
<1>3. PICK f : /\ f[0] = NoSpecs /\ f[n] = Prompts(its)
               /\ \A k \in 1..n : f[k] = IF k \in K THEN AddPlaceholder(its, f[k - 1], k) ELSE f[k - 1]
  BY <1>1, <1>2, PromptLoop!FoldRun
<1> DEFINE X == {k \in 0..n : PromptsSaid(its, Seen(k), f[k])}
<1>4. 0 \in X
  <2>1. Seen(0) = {} /\ DOMAIN NoSpecs = {} /\ 0 \in 0..n
    BY <1>1 DEF NoSpecs
  <2> QED BY <2>1, <1>3 DEF PromptsSaid
<1>5. ASSUME NEW k \in 1..n, k - 1 \in X PROVE k \in X
  <2>1. PromptsSaid(its, Seen(k - 1), f[k - 1]) /\ k \in 0..n
    BY <1>5
  <2>2. CASE k \in K
    <3> DEFINE name  == its[k].name
               after == f[k]
    <3>1. Seen(k) = Seen(k - 1) \cup {k} /\ \A j \in Seen(k - 1) : j <= k
      BY <1>1, <2>2
    <3>2. f[k] = Put(f[k - 1], name, [prompt |-> k, also |-> << >>, ids |-> <<k>>])
      BY <1>3, <2>2 DEF AddPlaceholder
    <3>3. DOMAIN f[k] = {its[i].name : i \in Seen(k)}
      BY <2>1, <3>1, <3>2 DEF PromptsSaid, Put
    <3>4. ASSUME NEW m \in DOMAIN f[k]
          PROVE  \E i \in Nat : /\ IsLast(i, Concerning(its, Seen(k), m))
                                /\ f[k][m] = [prompt |-> i, also |-> << >>, ids |-> <<i>>]
      <4>1. CASE m = name
        <5>1. IsLast(k, Concerning(its, Seen(k), m)) /\ k \in Nat
          BY <3>1, <4>1 DEF IsLast, Concerning
        <5>2. f[k][m] = [prompt |-> k, also |-> << >>, ids |-> <<k>>]
          BY <3>2, <4>1 DEF Put
        <5> QED BY <5>1, <5>2
      <4>2. CASE m # name
        <5>1. Concerning(its, Seen(k), m) = Concerning(its, Seen(k - 1), m)
          BY <3>1, <4>2 DEF Concerning
        <5>2. m \in DOMAIN f[k - 1] /\ f[k][m] = f[k - 1][m]
          BY <3>2, <4>2 DEF Put
        <5> HIDE DEF Seen, name
        <5> QED BY <2>1, <5>1, <5>2 DEF PromptsSaid
      <4> QED BY <4>1, <4>2
    <3> HIDE DEF Seen
    <3>5. PromptsSaid(its, Seen(k), f[k])
      BY <3>3, <3>4 DEF PromptsSaid
    <3> QED BY <2>1, <3>5
  <2>3. CASE k \notin K
    <3>1. Seen(k) = Seen(k - 1)
      BY <1>1, <2>3
    <3> QED BY <2>1, <2>3, <3>1, <1>3
  <2> QED BY <2>2, <2>3
<1>6. n \in X
  <2> HIDE DEF X, n
  <2>1. n \in 0..n
    BY <1>1
  <2> QED BY <2>1, <1>1, <1>4, <1>5, PromptLoop!IntervalInductive
<1>7. Seen(n) = K
  BY <1>1
<1> QED BY <1>3, <1>6, <1>7

\* A loop body that looks at a key keeps the loop invariant.
LEMMA AddInputSays ==
  ASSUME NEW its \in Seq(Item), NEW P \in SUBSET OfKind(its, "placeholder"),
         NEW S \in SUBSET OfKind(its, "input"), NEW k \in OfKind(its, "input"), k \notin S,
         NEW specs, VariablesSaid(its, P, S, specs)
  PROVE  VariablesSaid(its, P, S \cup {k}, AddInput(its, specs, k))
<1> DEFINE name  == its[k].name
           after == AddInput(its, specs, k)
           Var   == [prompt : Nat, also : Seq(Nat), ids : Seq(Nat)]
<1>1. k \in Nat
  BY ItemsTyped
<1>2. DOMAIN after = DOMAIN specs \cup {name} /\ \A n \in DOMAIN specs \ {name} : after[n] = specs[n]
  BY DEF AddInput, Put
<1>3. DOMAIN after = {its[i].name : i \in P} \cup {its[i].name : i \in S \cup {k}}
  BY <1>2 DEF VariablesSaid
<1>4. Concerning(its, S \cup {k}, name) = Concerning(its, S, name) \cup {k}
  BY DEF Concerning
<1>5. \A n : n # name => Concerning(its, S \cup {k}, n) = Concerning(its, S, n)
  BY DEF Concerning
<1>6. /\ after[name] \in Var
      /\ IF Concerning(its, P, name) = {} THEN after[name].prompt = 0
         ELSE IsLast(after[name].prompt, Concerning(its, P, name))
      /\ Range(after[name].also) = Concerning(its, S, name) \cup {k}
  <2>1. CASE name \in DOMAIN specs
    <3>1. /\ specs[name] \in Var
          /\ IF Concerning(its, P, name) = {} THEN specs[name].prompt = 0
             ELSE IsLast(specs[name].prompt, Concerning(its, P, name))
          /\ Range(specs[name].also) = Concerning(its, S, name)
      BY <2>1 DEF VariablesSaid
    <3> DEFINE old == specs[name]
    <3>2. after[name] = [prompt |-> old.prompt, also |-> Append(old.also, k), ids |-> Append(old.ids, k)]
      <4>1. old = [prompt |-> old.prompt, also |-> old.also, ids |-> old.ids]
        BY <3>1
      <4>2. after = [specs EXCEPT ![name].also = Append(old.also, k), ![name].ids = Append(old.ids, k)]
        BY <2>1 DEF AddInput
      <4>3. after[name] = [old EXCEPT !.also = Append(old.also, k), !.ids = Append(old.ids, k)]
        BY <2>1, <4>2
      <4> HIDE DEF old, after, name
      <4> QED BY <4>1, <4>3
    <3> HIDE DEF after, name
    <3>3. /\ after[name].prompt = specs[name].prompt /\ after[name].also = Append(specs[name].also, k)
          /\ after[name] \in Var
      BY <3>1, <3>2, <1>1, CiteOne
    <3>4. Range(after[name].also) = Range(specs[name].also) \cup {k}
      BY <3>1, <3>3, <1>1, CiteOne
    <3> QED BY <3>1, <3>3, <3>4
  <2>2. CASE name \notin DOMAIN specs
    <3>1. Concerning(its, P, name) = {} /\ Concerning(its, S, name) = {}
      BY <2>2 DEF Concerning, VariablesSaid
    <3>2. after[name] = [prompt |-> 0, also |-> <<k>>, ids |-> <<k>>]
      BY <2>2 DEF AddInput, Put
    <3>3. Range(<<k>>) = {k} /\ <<k>> \in Seq(Nat)
      BY <1>1 DEF Range
    <3> HIDE DEF after, name
    <3> QED BY <3>1, <3>2, <3>3
  <2> QED BY <2>1, <2>2
<1>7. ASSUME NEW n \in DOMAIN after
      PROVE  /\ after[n] \in Var
             /\ IF Concerning(its, P, n) = {} THEN after[n].prompt = 0
                ELSE IsLast(after[n].prompt, Concerning(its, P, n))
             /\ Range(after[n].also) = Concerning(its, S \cup {k}, n)
  <2>1. CASE n = name
    BY <1>4, <1>6, <2>1
  <2>2. CASE n # name
    <3>1. n \in DOMAIN specs /\ after[n] = specs[n]
      BY <1>2, <2>2
    <3> HIDE DEF after, name
    <3> QED BY <3>1, <2>2, <1>5 DEF VariablesSaid
  <2> QED BY <2>1, <2>2
<1> QED BY <1>3, <1>7 DEF VariablesSaid

\* What build_dynamic_variable_specs returns for any evidence.
LEMMA DynamicVariablesSay ==
  ASSUME NEW its \in Seq(Item)
  PROVE  VariablesSaid(its, OfKind(its, "placeholder"),
                       {i \in OfKind(its, "input") : its[i].name # NoKey}, DynamicVariables(its))
<1> DEFINE n == Len(its)
           P == OfKind(its, "placeholder")
           K == {i \in OfKind(its, "input") : its[i].name # NoKey}
           Seen(k) == {i \in K : i <= k}
<1>1. n \in Nat /\ K \in SUBSET (1..n)
  BY ItemsTyped
<1>2. DynamicVariables(its) = InputLoop!Fold(its, Prompts(its), K)
  BY DEF DynamicVariables, ForEach, MapThenFoldSet, Max,
         InputLoop!Fold, InputLoop!MapThenFoldSet, InputLoop!Max
<1>3. PICK f : /\ f[0] = Prompts(its) /\ f[n] = DynamicVariables(its)
               /\ \A k \in 1..n : f[k] = IF k \in K THEN AddInput(its, f[k - 1], k) ELSE f[k - 1]
  <2> HIDE DEF K, n
  <2> QED BY <1>1, <1>2, InputLoop!FoldRun
<1> DEFINE X == {k \in 0..n : VariablesSaid(its, P, Seen(k), f[k])}
<1>4. 0 \in X
  <2>1. Seen(0) = {} /\ 0 \in 0..n
    BY <1>1
  <2>2. VariablesSaid(its, P, {}, Prompts(its))
    <3>1. DOMAIN Prompts(its) = {its[i].name : i \in P}
      BY PromptsSay DEF PromptsSaid
    <3>2. ASSUME NEW m \in DOMAIN Prompts(its)
          PROVE  /\ Prompts(its)[m] \in [prompt : Nat, also : Seq(Nat), ids : Seq(Nat)]
                 /\ Concerning(its, P, m) # {}
                 /\ IsLast(Prompts(its)[m].prompt, Concerning(its, P, m))
                 /\ Prompts(its)[m].also = << >>
      <4>1. PICK i \in Nat : /\ IsLast(i, Concerning(its, P, m))
                             /\ Prompts(its)[m] = [prompt |-> i, also |-> << >>, ids |-> <<i>>]
        BY PromptsSay DEF PromptsSaid
      <4>2. Concerning(its, P, m) # {}
        BY <4>1 DEF IsLast
      <4> QED BY <4>1, <4>2
    <3>3. \A m : Concerning(its, {}, m) = {}
      BY DEF Concerning
    <3>4. Range(<< >>) = {}
      BY DEF Range
    <3> HIDE DEF P
    <3> QED BY <3>1, <3>2, <3>3, <3>4 DEF VariablesSaid
  <2> QED BY <2>1, <2>2, <1>3
<1>5. ASSUME NEW k \in 1..n, k - 1 \in X PROVE k \in X
  <2>1. VariablesSaid(its, P, Seen(k - 1), f[k - 1]) /\ k \in 0..n
    BY <1>5
  <2>2. CASE k \in K
    <3>1. Seen(k) = Seen(k - 1) \cup {k} /\ k \notin Seen(k - 1)
      BY <1>1, <2>2
    <3>2. Seen(k - 1) \in SUBSET OfKind(its, "input") /\ k \in OfKind(its, "input")
      BY <2>2
    <3>3. VariablesSaid(its, P, Seen(k - 1) \cup {k}, AddInput(its, f[k - 1], k))
      BY <2>1, <3>1, <3>2, AddInputSays
    <3> QED BY <2>1, <2>2, <3>1, <3>3, <1>3
  <2>3. CASE k \notin K
    <3>1. Seen(k) = Seen(k - 1)
      BY <1>1, <2>3
    <3> QED BY <2>1, <2>3, <3>1, <1>3
  <2> QED BY <2>2, <2>3
<1>6. n \in X
  <2> HIDE DEF X, n
  <2>1. n \in 0..n
    BY <1>1
  <2> QED BY <2>1, <1>1, <1>4, <1>5, InputLoop!IntervalInductive
<1>7. Seen(n) = K
  BY <1>1
<1> QED BY <1>3, <1>6, <1>7

\* Variables are specified as they should be, for any evidence.
LEMMA VariablesAreFaithful ==
  ASSUME NEW its \in Seq(Item) PROVE VariablesFaithful(its)
<1> DEFINE specs == DynamicVariables(its)
           P == OfKind(its, "placeholder")
           K == {i \in OfKind(its, "input") : its[i].name # NoKey}
<1>1. VariablesSaid(its, P, K, specs)
  BY DynamicVariablesSay
<1>2. /\ Named(its, "placeholder") = {its[i].name : i \in P}
      /\ Named(its, "input") \ {NoKey} = {its[i].name : i \in K}
  BY DEF Named
<1>3. DOMAIN specs = Named(its, "placeholder") \cup (Named(its, "input") \ {NoKey})
  BY <1>1, <1>2 DEF VariablesSaid
<1>4. ASSUME NEW n \in DOMAIN specs
      PROVE  LET prompts == About(its, "placeholder", n)
             IN  /\ specs[n].prompt = IF prompts = {} THEN 0
                                      ELSE CHOOSE i \in prompts : \A j \in prompts : j <= i
                 /\ Range(specs[n].also) = About(its, "input", n)
  <2> DEFINE prompts == About(its, "placeholder", n)
  <2>1. prompts = Concerning(its, P, n) /\ prompts \in SUBSET Nat
    BY ItemsTyped DEF About, Concerning
  <2>2. n # NoKey
    <3>1. \A i \in P : its[i].name \in Names
      <4>1. \A item \in Item : item.kind = "placeholder" => item.name \in Names
        BY DEF Item
      <4> QED BY <4>1, ItemsTyped
    <3> QED BY <1>1, <3>1, DocsAssumption DEF VariablesSaid
  <2>3. Concerning(its, K, n) = About(its, "input", n)
    BY <2>2 DEF Concerning, About
  <2>4. /\ IF prompts = {} THEN specs[n].prompt = 0 ELSE IsLast(specs[n].prompt, prompts)
        /\ Range(specs[n].also) = About(its, "input", n)
    BY <1>1, <2>1, <2>3 DEF VariablesSaid
  <2>5. prompts # {} => specs[n].prompt = CHOOSE i \in prompts : \A j \in prompts : j <= i
    BY <2>1, <2>4, LastIsUnique
  <2> HIDE DEF specs
  <2> QED BY <2>4, <2>5
<1> QED BY <1>3, <1>4 DEF VariablesFaithful

-----------------------------------------------------------------------------
(* What is uploaded was approved                                           *)

\* What desired.json has as approved is what its owner approved in it.
ApprovalsOwned ==
  desired # NoFile =>
    \A p \in DOMAIN desired.kb :
      desired.kb[p].approved => [path |-> p, sha256 |-> desired.kb[p].sha256] \in owned

UploadInv == ApprovalsOwned /\ UploadedWasApproved

-----------------------------------------------------------------------------
\* A state computed from the repository has nothing approved in it, so that
\* nothing is uploaded for it.
LEMMA FreshSendsNothing ==
  ASSUME NEW agent
  PROVE  /\ \A p \in DOMAIN Desired(agent).kb : ~Desired(agent).kb[p].approved
         /\ \A kb : ToUpload(Desired(agent), kb) = {}
<1>1. Desired(agent).kb = KBManifest(items, docs)
  BY DEF Desired
<1>2. \A p \in DOMAIN Desired(agent).kb : ~Desired(agent).kb[p].approved
  BY <1>1 DEF KBManifest
<1>3. QED
  BY <1>2 DEF ToUpload, Approved

\* Reconciling a state whose approvals are the owner's uploads owned entries.
LEMMA ReconciledUploads ==
  ASSUME NEW STATE command, NEW STATE want, NEW STATE approve, Reconciled(command, want, approve),
         \A p \in DOMAIN want.kb :
           want.kb[p].approved => [path |-> p, sha256 |-> want.kb[p].sha256] \in owned,
         UploadedWasApproved, owned' = owned
  PROVE  UploadedWasApproved'
<1>1. CASE UNCHANGED uploaded
  BY <1>1 DEF UploadedWasApproved
<1>2. CASE uploaded' = uploaded \cup
             {[path |-> p, content |-> docs[p], sha256 |-> want.kb[p].sha256] :
                p \in ToUpload(want, Current(want).kb)}
  <2>1. \A p \in ToUpload(want, Current(want).kb) :
          [path |-> p, sha256 |-> want.kb[p].sha256] \in owned
    BY DEF ToUpload, Approved
  <2>2. SUFFICES ASSUME NEW u \in uploaded'
                 PROVE  [path |-> u.path, sha256 |-> u.sha256] \in owned
    BY DEF UploadedWasApproved
  <2>3. CASE u \in uploaded
    BY <2>3 DEF UploadedWasApproved
  <2>4. CASE u \notin uploaded
    <3>1. PICK p \in ToUpload(want, Current(want).kb) :
            u = [path |-> p, content |-> docs[p], sha256 |-> want.kb[p].sha256]
      BY <1>2, <2>4
    <3>2. u.path = p /\ u.sha256 = want.kb[p].sha256
      BY <3>1
    <3>3. QED
      BY <2>1, <3>2
  <2>5. QED
    BY <2>3, <2>4
<1>3. QED
  BY <1>1, <1>2 DEF Reconciled

\* Every step keeps the approvals the owner's and uploads nothing else.
LEMMA UploadStep == UploadInv /\ [Next]_vars => UploadInv'
<1> SUFFICES ASSUME UploadInv, [Next]_vars PROVE UploadInv'
  OBVIOUS
<1>i. ApprovalsOwned /\ UploadedWasApproved
  BY DEF UploadInv
<1>1. ASSUME NEW agent, PreparePlatform(agent) PROVE UploadInv'
  <2>1. UploadedWasApproved'
    BY <1>i, <1>1 DEF PreparePlatform, observers, UploadedWasApproved
  <2>2. ApprovalsOwned'
    BY <1>1, FreshSendsNothing DEF PreparePlatform, ApprovalsOwned
  <2>3. QED
    BY <2>1, <2>2 DEF UploadInv
<1>2. ASSUME NEW apply, NEW approve, ApplyPlatform(apply, approve) PROVE UploadInv'
  <2>1. ApprovalsOwned'
    BY <1>i, <1>2 DEF ApplyPlatform, ApprovalsOwned
  <2>2. CASE apply
    <3>1. Reconciled("apply", desired, approve) /\ owned' = owned /\ desired # NoFile
      BY <1>2, <2>2 DEF ApplyPlatform
    <3>2. UploadedWasApproved'
      BY <1>i, <3>1, ReconciledUploads DEF ApprovalsOwned
    <3>3. QED
      BY <2>1, <3>2 DEF UploadInv
  <2>3. CASE ~apply
    BY <1>i, <1>2, <2>1, <2>3
    DEF ApplyPlatform, DryReconciled, UploadedWasApproved, UploadInv
  <2>4. QED
    BY <2>2, <2>3
<1>3. ASSUME ApplyBlocked \/ IntegrateBlocked PROVE UploadInv'
  BY <1>i, <1>3
  DEF ApplyBlocked, IntegrateBlocked, Blocked, ApprovalsOwned, UploadedWasApproved, UploadInv
<1>4. ASSUME NEW agent, NEW apply, NEW e2e, IntegrateStaging(agent, apply, e2e) PROVE UploadInv'
  <2>1. ApprovalsOwned' /\ owned' = owned
    BY <1>i, <1>4 DEF IntegrateStaging, ApprovalsOwned
  <2>2. CASE apply /\ e2e
    <3>1. Reconciled("integrate", Desired(agent), FALSE)
      BY <1>4, <2>2 DEF IntegrateStaging
    <3>2. UploadedWasApproved'
      BY <1>i, <2>1, <3>1, FreshSendsNothing, ReconciledUploads
    <3>3. QED
      BY <2>1, <3>2 DEF UploadInv
  <2>3. CASE ~(apply /\ e2e)
    BY <1>i, <1>4, <2>1, <2>3
    DEF IntegrateStaging, DryReconciled, UploadedWasApproved, UploadInv
  <2>4. QED
    BY <2>2, <2>3
<1>5. ASSUME NEW p \in Paths, Approve(p) PROVE UploadInv'
  <2>1. UploadedWasApproved'
    BY <1>i, <1>5 DEF Approve, UploadedWasApproved
  <2>2. ApprovalsOwned'
    <3> SUFFICES ASSUME NEW q \in DOMAIN desired'.kb, desired'.kb[q].approved
                 PROVE  [path |-> q, sha256 |-> desired'.kb[q].sha256] \in owned'
      BY DEF ApprovalsOwned
    <3>1. DOMAIN desired'.kb = DOMAIN desired.kb /\ desired'.kb[q].sha256 = desired.kb[q].sha256
      BY <1>5 DEF Approve
    <3>2. CASE q = p
      BY <3>1, <3>2, <1>5 DEF Approve
    <3>3. CASE q # p
      BY <1>i, <3>1, <3>3, <1>5 DEF Approve, ApprovalsOwned
    <3>4. QED
      BY <3>2, <3>3
  <2>3. QED
    BY <2>1, <2>2 DEF UploadInv
<1>6. ASSUME Edited PROVE UploadInv'
  BY <1>i, <1>6 DEF Edited, observers, ApprovalsOwned, UploadedWasApproved, UploadInv
<1>7. CASE UNCHANGED vars
  BY <1>i, <1>7 DEF vars, observers, ApprovalsOwned, UploadedWasApproved, UploadInv
<1>8. QED
  BY <1>1, <1>2, <1>3, <1>4, <1>5, <1>6, <1>7
  DEF Next, Commands, People, AddItem, RemoveItem, SaveDocument, AddForeignTool

\* UploadInv holds of every execution.
THEOREM UploadInvariant == Spec => []UploadInv
<1>1. Init => UploadInv
  BY DEF Init, UploadInv, ApprovalsOwned, UploadedWasApproved
<1>2. QED
  BY <1>1, UploadStep, PTL DEF Spec

\* Nothing is uploaded that the owner did not approve, with the hash it had in
\* the manifest when it was approved.
THEOREM UploadsAreApproved == Spec => []UploadedWasApproved
<1>1. UploadInv => UploadedWasApproved
  BY DEF UploadInv
<1>2. QED
  BY <1>1, UploadInvariant, PTL

-----------------------------------------------------------------------------
(* Types                                                                   *)

Specs(S) == UNION {[D -> S] : D \in SUBSET Names}
Tools == Specs({<< >>} \cup {MockData(ps) : ps \in SUBSET Params})
Variables == Specs([prompt : Nat, also : Seq(Nat)])
Manifests == UNION {[D -> [sha256 : Contents, approved : BOOLEAN]] : D \in SUBSET Paths}
Files == [name : Range(Base), content : Contents]
Agents == [tools : Tools, vars : Variables, kb : SUBSET Files]

\* States an agent may be brought to, whether or not the platform has it.
Wants == [agent : Nat \cup {NoAgent}, tools : Tools, vars : Variables, kb : Manifests]

\* What a state says is for an agent the platform has, if it names one.
Addressed(want) == want.agent \in AgentIds \cup {NoAgent}

RepositoryTyped == items \in Seq(Item) /\ docs \in [Paths -> Contents \cup {NoDoc}]
DesiredTyped == desired # NoFile => desired \in Wants /\ Addressed(desired)
PlatformTyped == agents \in Seq(Agents) /\ Len(agents) \in 1..MaxAgents
BoundsKept == report.exit \in 0..2 /\ edits \in 0..MaxEdits /\ approvals \in 0..MaxApprovals

Typed == RepositoryTyped /\ DesiredTyped /\ PlatformTyped /\ BoundsKept

\* A set of specs, taken apart.
LEMMA SpecsAre ==
  ASSUME NEW S, NEW s
  PROVE  s \in Specs(S) <=> /\ s = [n \in DOMAIN s |-> s[n]]
                            /\ DOMAIN s \subseteq Names /\ \A n \in DOMAIN s : s[n] \in S
<1>1. ASSUME s \in Specs(S)
      PROVE  /\ s = [n \in DOMAIN s |-> s[n]]
             /\ DOMAIN s \subseteq Names /\ \A n \in DOMAIN s : s[n] \in S
  <2>1. PICK D \in SUBSET Names : s \in [D -> S]
    BY <1>1 DEF Specs
  <2> QED BY <2>1
<1>2. ASSUME s = [n \in DOMAIN s |-> s[n]], DOMAIN s \subseteq Names, \A n \in DOMAIN s : s[n] \in S
      PROVE  s \in Specs(S)
  <2>1. s \in [DOMAIN s -> S]
    BY <1>2
  <2> QED BY <1>2, <2>1 DEF Specs
<1> QED BY <1>1, <1>2

\* Evidence that names a tool, a placeholder or a key names it in Names.
LEMMA NamesAreNames ==
  ASSUME NEW its \in Seq(Item)
  PROVE  /\ Named(its, "tool") \subseteq Names /\ Named(its, "placeholder") \subseteq Names
         /\ Named(its, "input") \ {NoKey} \subseteq Names
<1>1. \A item \in Item : /\ item.kind \in {"tool", "placeholder"} => item.name \in Names
                         /\ item.kind = "input" => item.name \in Names \cup {NoKey}
  BY DEF Item
<1>2. \A kind, i : i \in OfKind(its, kind) => its[i] \in Item /\ its[i].kind = kind
  BY DEF OfKind
<1> QED BY <1>1, <1>2 DEF Named

\* What prepare_platform_state computes is a state.
LEMMA DesiredIsWant ==
  ASSUME NEW agent \in AgentIds \cup {NoAgent}, Typed
  PROVE  Desired(agent) \in Wants /\ Addressed(Desired(agent))
<1>1. items \in Seq(Item) /\ docs \in [Paths -> Contents \cup {NoDoc}] /\ AgentIds \subseteq Nat
  BY DEF Typed, RepositoryTyped, PlatformTyped, AgentIds
<1>2. ToolPayloads(items) \in Tools
  <2> DEFINE specs == MockTools(items)
             s == ToolPayloads(items)
  <2>1. s = [n \in DOMAIN specs |-> specs[n].data]
    BY DEF ToolPayloads
  <2>2. DOMAIN specs \subseteq Names
    BY <1>1, ToolsAreFaithful, NamesAreNames DEF ToolsFaithful
  <2>3. \A n \in DOMAIN specs : specs[n].data \in {MockData(ps) : ps \in SUBSET Params}
    BY <1>1, MockToolsSay DEF ToolsSaid, ToolSaid, ToolSpec
  <2> HIDE DEF s, specs
  <2> QED BY <2>1, <2>2, <2>3, SpecsAre DEF Tools, s
<1>3. VarPayloads(items) \in Variables
  <2> DEFINE specs == DynamicVariables(items)
             s == VarPayloads(items)
  <2>1. s = [n \in DOMAIN specs |-> [prompt |-> specs[n].prompt, also |-> specs[n].also]]
    BY DEF VarPayloads
  <2>2. DOMAIN specs \subseteq Names
    BY <1>1, VariablesAreFaithful, NamesAreNames DEF VariablesFaithful
  <2>3. \A n \in DOMAIN specs : specs[n].prompt \in Nat /\ specs[n].also \in Seq(Nat)
    BY <1>1, DynamicVariablesSay DEF VariablesSaid
  <2> HIDE DEF specs
  <2>4. /\ s = [n \in DOMAIN s |-> s[n]] /\ DOMAIN s \subseteq Names
        /\ \A n \in DOMAIN s : s[n] \in [prompt : Nat, also : Seq(Nat)]
    BY <2>1, <2>2, <2>3
  <2> HIDE DEF s
  <2>5. s \in Specs([prompt : Nat, also : Seq(Nat)])
    BY <2>4, SpecsAre
  <2> QED BY <2>5 DEF Variables, s
<1>4. KBManifest(items, docs) \in Manifests
  <2> DEFINE D == {q \in Paths : docs[q] # NoDoc /\ q \in InKBDir \cup ReadByCode(items)}
  <2>1. KBManifest(items, docs) = [p \in D |-> [sha256 |-> docs[p], approved |-> FALSE]]
    BY DEF KBManifest
  <2>2. \A p \in D : docs[p] \in Contents
    BY <1>1
  <2>3. KBManifest(items, docs) \in [D -> [sha256 : Contents, approved : BOOLEAN]]
    BY <2>1, <2>2
  <2>4. D \in SUBSET Paths
    OBVIOUS
  <2> HIDE DEF D
  <2> QED BY <2>3, <2>4 DEF Manifests
<1> QED BY <1>1, <1>2, <1>3, <1>4 DEF Desired, Wants, Addressed

\* What a state makes of an agent is an agent, unless the run stops before.
LEMMA WrittenIsAgent ==
  ASSUME NEW agent \in Agents, NEW want \in Wants, docs \in [Paths -> Contents \cup {NoDoc}]
  PROVE  Written(agent, want) \in Agents
<1> DEFINE kb == IF Unreadable(want, agent.kb) # {} THEN agent.kb
                 ELSE agent.kb \cup {[name |-> Base[p], content |-> docs[p]] : p \in ToUpload(want, agent.kb)}
<1>1. want.tools \in Tools /\ want.vars \in Variables /\ want.kb \in Manifests
      /\ agent.vars \in Variables /\ agent.kb \in SUBSET Files
  BY DEF Agents, Wants
<1>2. MergeVars(agent.vars, want.vars) \in Variables
  <2> DEFINE s == MergeVars(agent.vars, want.vars)
             V == [prompt : Nat, also : Seq(Nat)]
  <2>1. /\ DOMAIN agent.vars \subseteq Names /\ \A n \in DOMAIN agent.vars : agent.vars[n] \in V
        /\ DOMAIN want.vars \subseteq Names /\ \A n \in DOMAIN want.vars : want.vars[n] \in V
    BY <1>1, SpecsAre DEF Variables
  <2> HIDE DEF V
  <2>2. s = [n \in DOMAIN s |-> s[n]] /\ DOMAIN s \subseteq Names /\ \A n \in DOMAIN s : s[n] \in V
    BY <2>1 DEF MergeVars
  <2> HIDE DEF s
  <2>3. s \in Specs(V)
    BY <2>2, SpecsAre
  <2> QED BY <2>3 DEF Variables, s, V
<1>3. kb \in SUBSET Files
  <2>1. \A p \in ToUpload(want, agent.kb) : p \in Paths /\ Base[p] \in Range(Base)
    BY <1>1, BaseAssumption DEF ToUpload, Approved, Manifests, Range
  <2>2. Unreadable(want, agent.kb) = {} => \A p \in ToUpload(want, agent.kb) : docs[p] \in Contents
    BY <2>1 DEF Unreadable
  <2> QED BY <1>1, <2>1, <2>2 DEF Files
<1>4. Written(agent, want) = [tools |-> want.tools, vars |-> MergeVars(agent.vars, want.vars), kb |-> kb]
  BY DEF Written
<1> HIDE DEF kb
<1> QED BY <1>1, <1>2, <1>3, <1>4 DEF Agents

\* A new agent is one.
LEMMA AgentIsAgent == Agent \in Agents
<1>1. NoSpecs = [n \in {} |-> NoSpecs[n]] /\ DOMAIN NoSpecs = {}
  BY DEF NoSpecs
<1>2. NoSpecs \in Tools /\ NoSpecs \in Variables
  BY <1>1, SpecsAre DEF Tools, Variables
<1> QED BY <1>2 DEF Agent, Agents

\* A run that stores leaves the agents of the platform, the one it is for
\* brought to the state or, without an agent id, made for it.
LEMMA StoreKeepsAgents ==
  ASSUME NEW STATE want, want \in Wants, Addressed(want), PlatformTyped, Store(want),
         want.agent = NoAgent => Len(agents) < MaxAgents,
         docs \in [Paths -> Contents \cup {NoDoc}]
  PROVE  /\ PlatformTyped'
         /\ AgentIds \subseteq AgentIds'
         /\ Target(want) \in AgentIds' /\ (want.agent # NoAgent => Target(want) = want.agent)
         /\ Current(want) \in Agents
         /\ agents'[Target(want)] = Written(Current(want), want)
         /\ \A a \in AgentIds : \/ agents'[a] = agents[a]
                                \/ a = want.agent /\ want.agent # NoAgent
<1>1. agents \in Seq(Agents) /\ Len(agents) \in Nat /\ Len(agents) \in 1..MaxAgents
      /\ AgentIds = 1..Len(agents) /\ MaxAgents \in Nat
  BY BoundsAssumption DEF PlatformTyped, AgentIds
<1>2. CASE want.agent = NoAgent
  <2>1. Target(want) = Len(agents) + 1 /\ Current(want) = Agent
    BY <1>2 DEF Target, Current
  <2>2. agents' = Append(agents, Written(Agent, want))
    BY <1>1, <2>1 DEF Store
  <2>3. Written(Agent, want) \in Agents
    BY WrittenIsAgent, AgentIsAgent
  <2>4. /\ agents' \in Seq(Agents) /\ Len(agents') = Len(agents) + 1
        /\ agents'[Len(agents) + 1] = Written(Agent, want)
        /\ \A a \in 1..Len(agents) : agents'[a] = agents[a]
    BY <1>1, <2>2, <2>3
  <2>5. AgentIds' = 1..(Len(agents) + 1)
    BY <2>4 DEF AgentIds
  <2> QED BY <1>1, <1>2, <2>1, <2>4, <2>5, AgentIsAgent DEF PlatformTyped
<1>3. CASE want.agent # NoAgent
  <2>1. want.agent \in AgentIds /\ Target(want) = want.agent /\ Current(want) = agents[want.agent]
    BY <1>3 DEF Target, Current, Addressed
  <2>2. agents' = [agents EXCEPT ![want.agent] = Written(agents[want.agent], want)]
    BY <2>1 DEF Store
  <2>3. agents[want.agent] \in Agents
    BY <1>1, <2>1
  <2>4. Written(agents[want.agent], want) \in Agents
    BY <2>3, WrittenIsAgent
  <2>5. agents' \in Seq(Agents) /\ Len(agents') = Len(agents) /\ AgentIds' = AgentIds
    BY <1>1, <2>1, <2>2, <2>4 DEF AgentIds
  <2> QED BY <1>1, <1>3, <2>1, <2>2, <2>3, <2>5 DEF PlatformTyped
<1> QED BY <1>2, <1>3

\* What one run of reconcile with --apply does.
Ran(command, want, approve) ==
  \/ report'.status = "NEEDS_HUMAN" /\ report'.exit = 2 /\ agents' = agents
  \/ /\ ~Refuses(want, approve) /\ Store(want)
     /\ want.agent = NoAgent => Len(agents) < MaxAgents
     /\ report'.command = command /\ report'.approve = approve
     /\ report'.want = want /\ report'.agent = Target(want)
     /\ \/ /\ report'.status = "LIVE_VERIFIED" /\ report'.exit = 0
           /\ Unreadable(want, Current(want).kb) = {}
        \/ report'.status = "DOCUMENT" /\ report'.exit \in 1..2

LEMMA ReconciledRan ==
  ASSUME NEW STATE command, NEW STATE want, NEW STATE approve, Reconciled(command, want, approve)
  PROVE  Ran(command, want, approve)
<1> DEFINE ended(status, exit) ==
             report' = [command |-> command, status |-> status, exit |-> exit, approve |-> approve,
                        want |-> want, agent |-> Target(want)]
<1>1. \/ ended("NEEDS_HUMAN", 2) /\ agents' = agents
      \/ /\ ~Refuses(want, approve) /\ Store(want)
         /\ want.agent = NoAgent => Len(agents) < MaxAgents
         /\ \/ Unreadable(want, Current(want).kb) = {} /\ ended("LIVE_VERIFIED", 0)
            \/ \E p \in Unreadable(want, Current(want).kb) : ended("DOCUMENT", IF docs[p] = NoDoc THEN 1 ELSE 2)
  BY DEF Reconciled
<1> QED BY <1>1 DEF Ran

\* Integrate reconciles what the repository holds, with no deletion approved.
Fresh(command, want, approve) ==
  command = "integrate" => ~approve /\ \E agent : want = Desired(agent)

\* Every step is a run of reconcile, a dry run of it, or one that ends in
\* neither way and removes nothing from the platform.
Reconciling ==
  \E command, want, approve :
    /\ want \in Wants /\ Addressed(want) /\ command \in {"apply", "integrate"}
    /\ Ran(command, want, approve) /\ Fresh(command, want, approve)
    /\ UNCHANGED <<items, docs>>
Announcing ==
  \E want :
    /\ want \in Wants /\ Addressed(want)
    /\ report'.status = "NOT_RUN" /\ report'.exit = 0
    /\ report'.want = want /\ report'.diff = DryRun(want)
    /\ UNCHANGED <<items, docs, agents>>
Other ==
  /\ \/ report' = Quiet
     \/ report'.status = "BLOCKED" /\ report'.exit \in 0..1
  /\ \/ agents' = agents
     \/ \E a \in AgentIds, n \in Names :
          agents' = [agents EXCEPT ![a].tools = Put(@, n, << >>)] /\ n \notin DOMAIN agents[a].tools

LEMMA DryAnnounces ==
  ASSUME NEW STATE command, NEW STATE want, DryReconciled(command, want),
         want \in Wants, Addressed(want), UNCHANGED <<items, docs>>
  PROVE  Announcing
<1>1. /\ report'.status = "NOT_RUN" /\ report'.exit = 0 /\ report'.want = want
      /\ report'.diff = DryRun(want) /\ agents' = agents
  BY DEF DryReconciled
<1>2. PICK w : w = want
  OBVIOUS
<1>3. report'.want = w /\ report'.diff = DryRun(w) /\ w \in Wants /\ Addressed(w)
  BY <1>1, <1>2 DEF Addressed, DryRun, Diff, Deletions, ToUpload, Current, Approved, BaseNames
<1> QED BY <1>1, <1>3 DEF Announcing

LEMMA RanReconciles ==
  ASSUME NEW STATE command, NEW STATE want, NEW STATE approve, Reconciled(command, want, approve),
         want \in Wants, Addressed(want), command \in {"apply", "integrate"},
         Fresh(command, want, approve), UNCHANGED <<items, docs>>
  PROVE  Reconciling
<1>1. Ran(command, want, approve)
  BY ReconciledRan
<1>2. PICK c, w, b : c = command /\ w = want /\ b = approve
  OBVIOUS
<1>3. Ran(c, w, b) /\ Fresh(c, w, b) /\ Addressed(w)
  BY <1>1, <1>2 DEF Ran, Fresh, Addressed
<1> QED BY <1>2, <1>3 DEF Reconciling

LEMMA StepIs ==
  ASSUME Typed, Next
  PROVE  Reconciling \/ Announcing \/ Other
<1> USE DEF repository
<1>1. ASSUME NEW agent, PreparePlatform(agent) PROVE Other
  BY <1>1 DEF PreparePlatform, Other
<1>2. ASSUME NEW apply \in BOOLEAN, NEW approve \in BOOLEAN, ApplyPlatform(apply, approve)
      PROVE  Reconciling \/ Announcing
  <2>1. desired \in Wants /\ Addressed(desired) /\ UNCHANGED <<items, docs>>
    BY <1>2 DEF ApplyPlatform, Typed, DesiredTyped
  <2>2. CASE apply
    <3>1. Reconciled("apply", desired, approve) /\ Fresh("apply", desired, approve)
      BY <1>2, <2>2 DEF ApplyPlatform, Fresh
    <3> QED BY <2>1, <3>1, RanReconciles
  <2>3. CASE ~apply
    <3>1. DryReconciled("apply", desired)
      BY <1>2, <2>3 DEF ApplyPlatform
    <3> QED BY <2>1, <3>1, DryAnnounces
  <2> QED BY <2>2, <2>3
<1>3. ASSUME ApplyBlocked \/ IntegrateBlocked PROVE Other
  BY <1>3 DEF ApplyBlocked, IntegrateBlocked, Blocked, Other
<1>4. ASSUME NEW agent \in AgentIds \cup {NoAgent}, NEW apply \in BOOLEAN, NEW e2e \in BOOLEAN,
             IntegrateStaging(agent, apply, e2e)
      PROVE  Reconciling \/ Announcing
  <2>1. Desired(agent) \in Wants /\ Addressed(Desired(agent)) /\ UNCHANGED <<items, docs>>
    BY <1>4, DesiredIsWant DEF IntegrateStaging
  <2>2. CASE apply /\ e2e
    <3>1. Reconciled("integrate", Desired(agent), FALSE) /\ Fresh("integrate", Desired(agent), FALSE)
      BY <1>4, <2>2 DEF IntegrateStaging, Fresh
    <3> QED BY <2>1, <3>1, RanReconciles
  <2>3. CASE ~(apply /\ e2e)
    <3>1. DryReconciled("integrate", Desired(agent))
      BY <1>4, <2>3 DEF IntegrateStaging
    <3> QED BY <2>1, <3>1, DryAnnounces
  <2> QED BY <2>2, <2>3
<1>5. ASSUME People PROVE Other
  BY <1>5 DEF People, Approve, AddItem, RemoveItem, SaveDocument, AddForeignTool, Edited, Other
<1> QED BY <1>1, <1>2, <1>3, <1>4, <1>5 DEF Next, Commands

\* Every step keeps the platform's agents.
LEMMA PlatformStep ==
  ASSUME Typed, Next
  PROVE  PlatformTyped' /\ AgentIds \subseteq AgentIds' /\ report'.exit \in 0..2
<1>1. PlatformTyped /\ docs \in [Paths -> Contents \cup {NoDoc}]
  BY DEF Typed, RepositoryTyped
<1>2. CASE Reconciling
  <2>1. PICK command, want, approve :
          want \in Wants /\ Addressed(want) /\ Ran(command, want, approve)
    BY <1>2 DEF Reconciling
  <2>2. CASE agents' = agents /\ report'.exit = 2
    BY <1>1, <2>2 DEF PlatformTyped, AgentIds
  <2>3. CASE Store(want) /\ (want.agent = NoAgent => Len(agents) < MaxAgents) /\ report'.exit \in 0..2
    <3>1. PlatformTyped' /\ AgentIds \subseteq AgentIds'
      BY <1>1, <2>1, <2>3, StoreKeepsAgents
    <3> QED BY <2>3, <3>1
  <2> QED BY <2>1, <2>2, <2>3 DEF Ran
<1>3. CASE Announcing
  <2>1. agents' = agents /\ report'.exit = 0
    BY <1>3 DEF Announcing
  <2> QED BY <1>1, <2>1 DEF PlatformTyped, AgentIds
<1>4. CASE Other
  <2>1. report'.exit \in 0..2
    BY <1>4 DEF Other, Quiet
  <2>2. CASE agents' = agents
    BY <1>1, <2>1, <2>2 DEF PlatformTyped, AgentIds
  <2>3. CASE \E a \in AgentIds, n \in Names :
               agents' = [agents EXCEPT ![a].tools = Put(@, n, << >>)]
    <3>1. PICK a \in AgentIds, n \in Names : agents' = [agents EXCEPT ![a].tools = Put(@, n, << >>)]
      BY <2>3
    <3>2. agents \in Seq(Agents) /\ a \in 1..Len(agents) /\ agents[a] \in Agents
      BY <1>1 DEF PlatformTyped, AgentIds
    <3> DEFINE s == Put(agents[a].tools, n, << >>)
               T == {<< >>} \cup {MockData(ps) : ps \in SUBSET Params}
    <3>3. s \in Tools
      <4>1. /\ DOMAIN agents[a].tools \subseteq Names
            /\ \A m \in DOMAIN agents[a].tools : agents[a].tools[m] \in T
        BY <3>2, SpecsAre DEF Agents, Tools
      <4>2. << >> \in T
        OBVIOUS
      <4> HIDE DEF T
      <4>3. s = [m \in DOMAIN s |-> s[m]] /\ DOMAIN s \subseteq Names /\ \A m \in DOMAIN s : s[m] \in T
        BY <4>1, <4>2 DEF Put
      <4> HIDE DEF s
      <4>4. s \in Specs(T)
        BY <4>3, SpecsAre
      <4> QED BY <4>4 DEF Tools, T
    <3>4. agents' = [agents EXCEPT ![a] = [agents[a] EXCEPT !.tools = s]]
      BY <3>1, <3>2
    <3> HIDE DEF s
    <3>5. [agents[a] EXCEPT !.tools = s] \in Agents
      BY <3>2, <3>3 DEF Agents
    <3>6. agents' \in Seq(Agents) /\ Len(agents') = Len(agents)
      BY <3>2, <3>4, <3>5
    <3> QED BY <1>1, <2>1, <3>6 DEF PlatformTyped, AgentIds
  <2> QED BY <1>4, <2>2, <2>3 DEF Other
<1> QED BY <1>2, <1>3, <1>4, StepIs

\* Evidence stays evidence when an item comes in or goes out.
LEMMA ItemsEdited ==
  ASSUME NEW its \in Seq(Item)
  PROVE  /\ \A item \in Item, k \in 0..Len(its) :
              SubSeq(its, 1, k) \o <<item>> \o SubSeq(its, k + 1, Len(its)) \in Seq(Item)
         /\ \A k \in DOMAIN its :
              SubSeq(its, 1, k - 1) \o SubSeq(its, k + 1, Len(its)) \in Seq(Item)
<1>1. ASSUME NEW i \in 1..(Len(its) + 1), NEW j \in 0..Len(its)
      PROVE  SubSeq(its, i, j) \in Seq(Item)
  OBVIOUS
<1>2. ASSUME NEW item \in Item, NEW k \in 0..Len(its)
      PROVE  SubSeq(its, 1, k) \o <<item>> \o SubSeq(its, k + 1, Len(its)) \in Seq(Item)
  <2>1. SubSeq(its, 1, k) \in Seq(Item) /\ SubSeq(its, k + 1, Len(its)) \in Seq(Item)
    BY <1>1
  <2>2. <<item>> \in Seq(Item)
    OBVIOUS
  <2> QED BY <2>1, <2>2
<1>3. ASSUME NEW k \in DOMAIN its
      PROVE  SubSeq(its, 1, k - 1) \o SubSeq(its, k + 1, Len(its)) \in Seq(Item)
  <2>1. SubSeq(its, 1, k - 1) \in Seq(Item) /\ SubSeq(its, k + 1, Len(its)) \in Seq(Item)
    BY <1>1
  <2> QED BY <2>1
<1> QED BY <1>2, <1>3

LEMMA TypedStep == Typed /\ [Next]_vars => Typed'
<1> SUFFICES ASSUME Typed, [Next]_vars PROVE Typed'
  OBVIOUS
<1> USE DEF repository, observers
<1>1. CASE UNCHANGED vars
  BY <1>1 DEF vars, Typed, RepositoryTyped, DesiredTyped, PlatformTyped, BoundsKept, Addressed, AgentIds
<1>2. CASE Next
  <2>1. PlatformTyped' /\ AgentIds \subseteq AgentIds' /\ report'.exit \in 0..2
    BY <1>2, PlatformStep
  <2>2. /\ items \in Seq(Item) /\ docs \in [Paths -> Contents \cup {NoDoc}]
        /\ desired # NoFile => desired \in Wants /\ Addressed(desired)
        /\ edits \in 0..MaxEdits /\ approvals \in 0..MaxApprovals
        /\ MaxEdits \in Nat /\ MaxApprovals \in Nat
    BY BoundsAssumption DEF Typed, RepositoryTyped, DesiredTyped, BoundsKept
  <2>3. RepositoryTyped'
    <3>1. ASSUME NEW item \in EditItems, NEW k \in 0..Len(items), AddItem(k, item) PROVE RepositoryTyped'
      <4>1. item \in Item
        BY EvidenceAssumption
      <4> QED BY <2>2, <3>1, <4>1, ItemsEdited DEF AddItem, RepositoryTyped
    <3>2. ASSUME NEW k \in DOMAIN items, RemoveItem(k) PROVE RepositoryTyped'
      BY <2>2, <3>2, ItemsEdited DEF RemoveItem, RepositoryTyped
    <3>3. ASSUME NEW p \in Paths, NEW c \in Contents \cup {NoDoc}, SaveDocument(p, c)
          PROVE  RepositoryTyped'
      BY <2>2, <3>3 DEF SaveDocument, RepositoryTyped
    <3>4. ASSUME UNCHANGED repository PROVE RepositoryTyped'
      BY <2>2, <3>4 DEF RepositoryTyped
    <3> QED BY <1>2, <3>1, <3>2, <3>3, <3>4
      DEF Next, Commands, People, PreparePlatform, ApplyPlatform, ApplyBlocked, IntegrateStaging,
          IntegrateBlocked, Approve, AddForeignTool
  <2>4. DesiredTyped'
    <3>1. ASSUME NEW agent \in AgentIds \cup {NoAgent}, PreparePlatform(agent) PROVE DesiredTyped'
      <4>1. Desired(agent) \in Wants /\ Addressed(Desired(agent))
        BY DesiredIsWant
      <4> QED BY <2>1, <3>1, <4>1 DEF PreparePlatform, DesiredTyped, Addressed
    <3>2. ASSUME NEW p \in Paths, Approve(p) PROVE DesiredTyped'
      <4>1. desired \in Wants /\ Addressed(desired) /\ p \in DOMAIN desired.kb
            /\ desired' = [desired EXCEPT !.kb[p].approved = TRUE]
        BY <2>2, <3>2 DEF Approve
      <4>2. PICK D \in SUBSET Paths : desired.kb \in [D -> [sha256 : Contents, approved : BOOLEAN]]
        BY <4>1 DEF Wants, Manifests
      <4> DEFINE kb == [desired.kb EXCEPT ![p].approved = TRUE]
      <4>3. kb \in [D -> [sha256 : Contents, approved : BOOLEAN]]
        BY <4>1, <4>2
      <4>4. desired' = [desired EXCEPT !.kb = kb]
        BY <4>1
      <4>5. kb \in Manifests
        BY <4>3 DEF Manifests
      <4> HIDE DEF kb
      <4>6. desired' \in Wants /\ desired'.agent = desired.agent
        BY <4>1, <4>4, <4>5 DEF Wants
      <4> QED BY <2>1, <4>1, <4>6 DEF DesiredTyped, Addressed
    <3>3. ASSUME UNCHANGED desired PROVE DesiredTyped'
      BY <2>1, <2>2, <3>3 DEF DesiredTyped, Addressed
    <3> QED BY <1>2, <3>1, <3>2, <3>3
      DEF Next, Commands, People, ApplyPlatform, ApplyBlocked, IntegrateStaging,
          IntegrateBlocked, AddItem, RemoveItem, SaveDocument, AddForeignTool, Edited
  <2>5. edits' \in 0..MaxEdits /\ approvals' \in 0..MaxApprovals
    <3>1. /\ edits' = edits \/ (edits < MaxEdits /\ edits' = edits + 1)
          /\ approvals' = approvals \/ (approvals < MaxApprovals /\ approvals' = approvals + 1)
      BY <1>2
      DEF Next, Commands, People, PreparePlatform, ApplyPlatform, ApplyBlocked, IntegrateStaging,
          IntegrateBlocked, Approve, AddItem, RemoveItem, SaveDocument, AddForeignTool, Edited
    <3> QED BY <2>2, <3>1
  <2> QED BY <2>1, <2>3, <2>4, <2>5 DEF Typed, BoundsKept
<1> QED BY <1>1, <1>2

LEMMA TypedInit == Init => Typed
<1> SUFFICES ASSUME Init PROVE Typed
  OBVIOUS
<1>1. RepositoryTyped /\ DesiredTyped
  BY EvidenceAssumption, InitialDocsAssumption DEF Init, RepositoryTyped, DesiredTyped
<1>2. PlatformTyped
  <2>1. agents = <<Agent>> /\ Agent \in Agents /\ MaxAgents \in Nat \ {0}
    BY AgentIsAgent, BoundsAssumption DEF Init
  <2> QED BY <2>1 DEF PlatformTyped
<1>3. BoundsKept
  BY BoundsAssumption DEF Init, BoundsKept, Quiet
<1> QED BY <1>1, <1>2, <1>3 DEF Typed

\* Every execution keeps to the types, for any evidence and any documents.
THEOREM TypesInvariant == Spec => []Typed
  BY TypedInit, TypedStep, PTL DEF Spec

\* The evidence, the documents, desired.json and the agents stay what they are
\* meant to be.
THEOREM TypeCorrect == Spec => []TypeOK
<1>1. ASSUME Typed PROVE TypeOK
  <2>1. /\ items \in Seq(Item) /\ docs \in [Paths -> Contents \cup {NoDoc}]
        /\ Len(agents) \in 1..MaxAgents /\ report.exit \in 0..2
        /\ edits \in 0..MaxEdits /\ approvals \in 0..MaxApprovals
    BY <1>1 DEF Typed, RepositoryTyped, PlatformTyped, BoundsKept
  <2>2. ASSUME desired # NoFile
        PROVE  /\ desired.agent \in AgentIds \cup {NoAgent}
               /\ DOMAIN desired.tools \subseteq Names /\ DOMAIN desired.vars \subseteq Names
               /\ \A p \in DOMAIN desired.kb :
                    p \in Paths /\ desired.kb[p] \in [sha256 : Contents, approved : BOOLEAN]
    <3>1. desired \in Wants /\ Addressed(desired)
      BY <1>1, <2>2 DEF Typed, DesiredTyped
    <3>2. desired.tools \in Tools /\ desired.vars \in Variables /\ desired.kb \in Manifests
      BY <3>1 DEF Wants
    <3> QED BY <3>1, <3>2, SpecsAre DEF Addressed, Tools, Variables, Manifests
  <2>3. ASSUME NEW a \in AgentIds
        PROVE  /\ DOMAIN agents[a].tools \subseteq Names /\ DOMAIN agents[a].vars \subseteq Names
               /\ agents[a].kb \subseteq [name : Range(Base), content : Contents]
    <3>1. agents[a] \in Agents
      BY <1>1 DEF Typed, PlatformTyped, AgentIds
    <3> QED BY <3>1, SpecsAre DEF Agents, Tools, Variables, Files
  <2> QED BY <2>1, <2>2, <2>3 DEF TypeOK
<1> QED BY <1>1, TypesInvariant, PTL

\* Whatever the scanner found, and in whatever order, the specs say it all, and
\* only that.
THEOREM SpecsAreFaithful == Spec => []SpecsFaithful
<1>1. ASSUME Typed PROVE SpecsFaithful
  BY <1>1, ToolsAreFaithful, VariablesAreFaithful DEF Typed, RepositoryTyped, SpecsFaithful
<1> QED BY <1>1, TypesInvariant, PTL

\* The inputs of a mock tool's variants differ.
THEOREM InputsAreDistinct == Spec => []InputsDistinct
<1>1. ASSUME Typed PROVE InputsDistinct
  BY <1>1, MocksDiffer DEF Typed, RepositoryTyped, InputsDistinct
<1> QED BY <1>1, TypesInvariant, PTL

-----------------------------------------------------------------------------
(* What a command registers, removes and announces                         *)

\* The agent has what the state wants: applying it again would change nothing.
Settled(want, agent) ==
  /\ agent.tools = want.tools
  /\ \A n \in DOMAIN want.vars : n \in DOMAIN agent.vars /\ agent.vars[n] = want.vars[n]
  /\ ToUpload(want, agent.kb) = {}

\* A report of a verified run or of a dry run is true as long as it is the last.
ReportTrue ==
  /\ report.status = "LIVE_VERIFIED" =>
       /\ report.want \in Wants /\ Addressed(report.want)
       /\ report.want.agent # NoAgent => Settled(report.want, agents[report.want.agent])
  /\ report.status = "NOT_RUN" /\ report # Quiet =>
       /\ report.want \in Wants /\ Addressed(report.want)
       /\ report.diff = DryRun(report.want)

\* Reconciling settles an agent, adds to its documents, and removes what it has
\* to remove of its tools.
LEMMA WrittenSettles ==
  ASSUME NEW agent \in Agents, NEW want \in Wants
  PROVE  /\ agent.kb \subseteq Written(agent, want).kb
         /\ Written(agent, want).tools = want.tools
         /\ Unreadable(want, agent.kb) = {} =>
              /\ Settled(want, Written(agent, want))
              /\ \A p \in ToUpload(want, agent.kb) :
                   [name |-> Base[p], content |-> docs[p]] \in Written(agent, want).kb
              /\ Written(agent, want).kb \ agent.kb =
                   {[name |-> Base[p], content |-> docs[p]] : p \in ToUpload(want, agent.kb)}
<1> DEFINE after == Written(agent, want)
           sent == {[name |-> Base[p], content |-> docs[p]] : p \in ToUpload(want, agent.kb)}
<1>1. /\ after.tools = want.tools /\ after.vars = MergeVars(agent.vars, want.vars)
      /\ agent.kb \subseteq after.kb
      /\ Unreadable(want, agent.kb) = {} => after.kb = agent.kb \cup sent
  BY DEF Written
<1> HIDE DEF after
<1>2. \A n \in DOMAIN want.vars : n \in DOMAIN after.vars /\ after.vars[n] = want.vars[n]
  BY <1>1 DEF MergeVars
<1>3. \A f \in sent : f \notin agent.kb
  <2>1. \A p \in ToUpload(want, agent.kb) : Base[p] \notin BaseNames(agent.kb)
    BY DEF ToUpload
  <2>2. \A f \in agent.kb : f.name \in BaseNames(agent.kb)
    BY DEF BaseNames
  <2> QED BY <2>1, <2>2
<1>4. ASSUME Unreadable(want, agent.kb) = {} PROVE ToUpload(want, after.kb) = {}
  <2>1. \A f \in after.kb : f.name \in BaseNames(after.kb)
    BY DEF BaseNames
  <2>2. \A p \in ToUpload(want, agent.kb) : Base[p] \in BaseNames(after.kb)
    <3> SUFFICES ASSUME NEW p \in ToUpload(want, agent.kb) PROVE Base[p] \in BaseNames(after.kb)
      OBVIOUS
    <3>1. [name |-> Base[p], content |-> docs[p]] \in after.kb
      BY <1>1, <1>4
    <3> QED BY <2>1, <3>1
  <2>3. BaseNames(agent.kb) \subseteq BaseNames(after.kb)
    BY <1>1 DEF BaseNames
  <2> QED BY <2>2, <2>3 DEF ToUpload
<1>5. Unreadable(want, agent.kb) = {} => Settled(want, after)
  BY <1>1, <1>2, <1>4 DEF Settled
<1>6. Unreadable(want, agent.kb) = {} =>
        /\ \A p \in ToUpload(want, agent.kb) : [name |-> Base[p], content |-> docs[p]] \in after.kb
        /\ after.kb \ agent.kb = sent
  BY <1>1, <1>3
<1> QED BY <1>1, <1>5, <1>6 DEF after

\* A settled agent is left as it is.
LEMMA SettledStays ==
  ASSUME NEW agent \in Agents, NEW want \in Wants, Settled(want, agent)
  PROVE  Written(agent, want) = agent
<1>1. agent = [tools |-> agent.tools, vars |-> agent.vars, kb |-> agent.kb]
      /\ agent.vars \in Variables
  BY DEF Agents
<1>2. agent.vars = [n \in DOMAIN agent.vars |-> agent.vars[n]]
  BY <1>1, SpecsAre DEF Variables
<1>3. MergeVars(agent.vars, want.vars) = agent.vars
  <2>1. DOMAIN agent.vars \cup DOMAIN want.vars = DOMAIN agent.vars
    BY DEF Settled
  <2>2. \A n \in DOMAIN agent.vars :
          (IF n \in DOMAIN want.vars THEN want.vars[n] ELSE agent.vars[n]) = agent.vars[n]
    BY DEF Settled
  <2> QED BY <1>2, <2>1, <2>2 DEF MergeVars
<1>4. agent.kb \cup {[name |-> Base[p], content |-> docs[p]] : p \in ToUpload(want, agent.kb)} = agent.kb
  BY DEF Settled
<1>5. Written(agent, want) = [tools |-> agent.tools, vars |-> agent.vars, kb |-> agent.kb]
  BY <1>3, <1>4 DEF Written, Settled
<1> QED BY <1>1, <1>5

\* What a run of reconcile did, told from its report.
LEMMA RunDid ==
  ASSUME Typed, Reconciling, report'.status \in {"LIVE_VERIFIED", "DOCUMENT"}
  PROVE  LET want == report'.want
         IN  /\ want \in Wants /\ Addressed(want) /\ UNCHANGED <<items, docs>>
             /\ Ran(report'.command, want, report'.approve)
             /\ Fresh(report'.command, want, report'.approve)
             /\ report'.command \in {"apply", "integrate"}
             /\ ~Refuses(want, report'.approve)
             /\ report'.status = "LIVE_VERIFIED" => Unreadable(want, Current(want).kb) = {}
             /\ Current(want) \in Agents /\ Target(want) = report'.agent
             /\ Target(want) \in AgentIds' /\ AgentIds \subseteq AgentIds'
             /\ want.agent # NoAgent => Target(want) = want.agent
             /\ agents'[report'.agent] = Written(Current(want), want)
             /\ \A a \in AgentIds : \/ agents'[a] = agents[a]
                                    \/ a = want.agent /\ want.agent # NoAgent
<1>1. PICK command, want, approve :
        /\ want \in Wants /\ Addressed(want) /\ command \in {"apply", "integrate"}
        /\ Ran(command, want, approve) /\ Fresh(command, want, approve)
        /\ UNCHANGED <<items, docs>>
  BY DEF Reconciling
<1>2. /\ ~Refuses(want, approve) /\ Store(want)
      /\ want.agent = NoAgent => Len(agents) < MaxAgents
      /\ report'.command = command /\ report'.approve = approve
      /\ report'.want = want /\ report'.agent = Target(want)
      /\ report'.status = "LIVE_VERIFIED" => Unreadable(want, Current(want).kb) = {}
  BY <1>1 DEF Ran
<1>3. /\ AgentIds \subseteq AgentIds'
      /\ Target(want) \in AgentIds' /\ (want.agent # NoAgent => Target(want) = want.agent)
      /\ Current(want) \in Agents
      /\ agents'[Target(want)] = Written(Current(want), want)
      /\ \A a \in AgentIds : agents'[a] = agents[a] \/ (a = want.agent /\ want.agent # NoAgent)
  BY <1>1, <1>2, StoreKeepsAgents DEF Typed, RepositoryTyped
<1> QED BY <1>1, <1>2, <1>3

\* Reports stay true.
LEMMA ReportStep == Typed /\ ReportTrue /\ [Next]_vars => ReportTrue'
<1> SUFFICES ASSUME Typed, ReportTrue, [Next]_vars PROVE ReportTrue'
  OBVIOUS
<1>1. CASE UNCHANGED vars
  <2>1. UNCHANGED <<items, docs, agents, report>>
    BY <1>1 DEF vars, repository
  <2> QED BY <2>1
    DEF ReportTrue, Settled, Addressed, AgentIds, ToUpload, DryRun, Diff, Deletions, Current
<1>2. CASE Next /\ Reconciling
  <2>1. CASE report'.status = "LIVE_VERIFIED"
    <3> DEFINE want == report'.want
    <3>1. /\ want \in Wants /\ Addressed(want) /\ AgentIds \subseteq AgentIds'
          /\ Unreadable(want, Current(want).kb) = {} /\ Current(want) \in Agents
          /\ want.agent # NoAgent => report'.agent = want.agent
          /\ agents'[report'.agent] = Written(Current(want), want)
      BY <1>2, <2>1, RunDid
    <3>2. want.agent # NoAgent => Settled(want, agents'[want.agent])
      BY <3>1, WrittenSettles
    <3>3. (report.want \in Wants /\ Addressed(report.want))'
      BY <3>1 DEF Addressed
    <3> QED BY <2>1, <3>2, <3>3 DEF ReportTrue, Settled, ToUpload, Approved, BaseNames
  <2>2. CASE report'.status # "LIVE_VERIFIED"
    <3>1. report'.status # "NOT_RUN"
      BY <1>2 DEF Reconciling, Ran
    <3> QED BY <2>2, <3>1 DEF ReportTrue
  <2> QED BY <2>1, <2>2
<1>3. CASE Announcing
  <2>1. PICK want : /\ want \in Wants /\ Addressed(want)
                    /\ report'.status = "NOT_RUN" /\ report'.want = want
                    /\ report'.diff = DryRun(want) /\ agents' = agents
    BY <1>3 DEF Announcing
  <2> QED BY <2>1
    DEF ReportTrue, Addressed, AgentIds, DryRun, Diff, Deletions, Current, ToUpload, Approved
<1>4. CASE Other
  BY <1>4 DEF Other, Quiet, ReportTrue
<1> QED BY <1>1, <1>2, <1>3, <1>4, StepIs

\* The last report of every execution is true.
THEOREM ReportsAreTrue == Spec => []ReportTrue
<1>1. Init => ReportTrue
  BY DEF Init, Quiet, ReportTrue
<1> QED BY <1>1, TypesInvariant, ReportStep, PTL DEF Spec

\* A step that ends in a verified run or one stopped half way reconciled.
LEMMA OnlyRunsEndSo ==
  ASSUME Typed, Next, report'.status \in {"LIVE_VERIFIED", "DOCUMENT"}
  PROVE  Reconciling
<1>1. ~Announcing /\ ~Other
  BY DEF Announcing, Other, Quiet
<1> QED BY <1>1, StepIs

\* Whatever a verified run was to register is on its agent, and after integrate
\* that is everything the repository holds.
THEOREM VerifiedRegisters == Spec => VerifiedIsRegistered
<1>1. ASSUME Typed, Next, report'.status = "LIVE_VERIFIED" PROVE Registers
  <2> DEFINE want == report'.want
             agent == agents'[report'.agent]
  <2>1. /\ want \in Wants /\ UNCHANGED <<items, docs>> /\ Fresh(report'.command, want, report'.approve)
        /\ Unreadable(want, Current(want).kb) = {}
        /\ Current(want) \in Agents /\ agent = Written(Current(want), want)
    BY <1>1, OnlyRunsEndSo, RunDid
  <2> HIDE DEF want, agent
  <2>2. Settled(want, agent) /\ \A p \in ToUpload(want, Current(want).kb) :
                                  [name |-> Base[p], content |-> docs[p]] \in agent.kb
    BY <2>1, WrittenSettles
  <2>3. \A p \in Approved(want) : \/ [name |-> Base[p], content |-> docs[p]] \in agent.kb
                                  \/ Base[p] \in BaseNames(Current(want).kb)
    BY <2>2 DEF ToUpload
  <2>4. ASSUME report'.command = "integrate"
        PROVE  /\ DOMAIN agent.tools = Named(items, "tool")
               /\ (Named(items, "placeholder") \cup Named(items, "input")) \ {NoKey}
                     \subseteq DOMAIN agent.vars
    <3>1. PICK a : want = Desired(a)
      BY <2>1, <2>4 DEF Fresh
    <3>2. items \in Seq(Item)
      BY <1>1 DEF Typed, RepositoryTyped
    <3>3. DOMAIN want.tools = Named(items, "tool")
      BY <3>1, <3>2, ToolsAreFaithful DEF Desired, ToolPayloads, ToolsFaithful
    <3>4. DOMAIN want.vars = Named(items, "placeholder") \cup (Named(items, "input") \ {NoKey})
      BY <3>1, <3>2, VariablesAreFaithful DEF Desired, VarPayloads, VariablesFaithful
    <3> QED BY <2>2, <3>3, <3>4 DEF Settled
  <2> QED BY <2>2, <2>3, <2>4 DEF Registers, Settled, want, agent
<1>2. Typed /\ [Next]_vars => [Registers]_vars
  BY <1>1 DEF Registers
<1> QED BY <1>2, TypesInvariant, PTL DEF Spec, VerifiedIsRegistered

\* No command takes a document from the platform, and only an apply with its
\* deletions approved takes a tool.
THEOREM NothingIsRemovedUnapproved == Spec => NothingRemovedUnapproved
<1>1. ASSUME Typed, Next PROVE RemovesApproved
  <2>1. CASE agents' = agents
    BY <2>1 DEF RemovesApproved
  <2>2. CASE Reconciling /\ agents' # agents
    <3>1. report'.status \in {"LIVE_VERIFIED", "DOCUMENT"}
      BY <2>2 DEF Reconciling, Ran
    <3> DEFINE want == report'.want
    <3>2. /\ want \in Wants /\ Fresh(report'.command, want, report'.approve)
          /\ report'.command \in {"apply", "integrate"}
          /\ ~Refuses(want, report'.approve) /\ Current(want) \in Agents
          /\ want.agent # NoAgent => Target(want) = want.agent
          /\ Target(want) = report'.agent
          /\ agents'[report'.agent] = Written(Current(want), want)
          /\ \A a \in AgentIds : \/ agents'[a] = agents[a]
                                 \/ a = want.agent /\ want.agent # NoAgent
      BY <1>1, <2>2, <3>1, RunDid
    <3> HIDE DEF want
    <3> SUFFICES ASSUME NEW a \in AgentIds, a = want.agent, want.agent # NoAgent
                 PROVE  /\ agents[a].kb \subseteq agents'[a].kb
                        /\ \/ DOMAIN agents[a].tools \subseteq DOMAIN agents'[a].tools
                           \/ report'.command = "apply" /\ report'.status # "NOT_RUN" /\ report'.approve
      BY <3>2 DEF RemovesApproved
    <3>3. Current(want) = agents[a] /\ agents'[a] = Written(agents[a], want)
      BY <3>2 DEF Current
    <3>4. agents[a].kb \subseteq agents'[a].kb /\ agents'[a].tools = want.tools
      BY <3>2, <3>3, WrittenSettles
    <3>5. CASE Deletions(agents[a], want) = {}
      BY <3>4, <3>5 DEF Deletions
    <3>6. CASE Deletions(agents[a], want) # {}
      <4>1. report'.approve
        BY <3>2, <3>3, <3>6 DEF Refuses
      <4> QED BY <3>1, <3>2, <3>4, <4>1 DEF Fresh
    <3> QED BY <3>5, <3>6
  <2>3. CASE Other /\ agents' # agents
    <3>1. PICK b \in AgentIds, n \in Names : agents' = [agents EXCEPT ![b].tools = Put(@, n, << >>)]
      BY <2>3 DEF Other
    <3>2. agents \in Seq(Agents) /\ AgentIds = 1..Len(agents)
      BY <1>1 DEF Typed, PlatformTyped, AgentIds
    <3>3. \A a \in AgentIds : agents'[a] = IF a = b THEN [agents[a] EXCEPT !.tools = Put(@, n, << >>)]
                                           ELSE agents[a]
      BY <3>1, <3>2
    <3>4. \A a \in AgentIds : agents[a] \in Agents
      BY <3>2
    <3>5. agents'[b] = [agents[b] EXCEPT !.tools = Put(agents[b].tools, n, << >>)]
      BY <3>3
    <3>6. agents'[b].kb = agents[b].kb /\ agents'[b].tools = Put(agents[b].tools, n, << >>)
      BY <3>4, <3>5 DEF Agents
    <3>7. DOMAIN agents[b].tools \subseteq DOMAIN agents'[b].tools
      BY <3>6 DEF Put
    <3> QED BY <3>3, <3>6, <3>7 DEF RemovesApproved
  <2> QED BY <1>1, <2>1, <2>2, <2>3, StepIs DEF Announcing
<1>2. Typed /\ [Next]_vars => [RemovesApproved]_vars
  BY <1>1
<1> QED BY <1>2, TypesInvariant, PTL DEF Spec, NothingRemovedUnapproved

\* A state that was verified for its agent is a fixed point of reconciling.
THEOREM ReapplyingIsNoop == Spec => ReapplyIsNoop
<1>1. ASSUME Typed, ReportTrue, Next,
             report.status = "LIVE_VERIFIED", report'.status \in {"LIVE_VERIFIED", "DOCUMENT"},
             report'.want = report.want, report.want.agent # NoAgent
      PROVE  agents' = agents
  <2> DEFINE want == report.want
  <2>1. /\ want \in Wants /\ Addressed(want) /\ Settled(want, agents[want.agent])
    BY <1>1 DEF ReportTrue
  <2>2. /\ Ran(report'.command, want, report'.approve)
    BY <1>1, OnlyRunsEndSo, RunDid
  <2> HIDE DEF want
  <2>3. want.agent \in AgentIds /\ Target(want) = want.agent
    BY <1>1, <2>1 DEF Addressed, Target, want
  <2>4. agents \in Seq(Agents) /\ agents[want.agent] \in Agents
    BY <1>1, <2>3 DEF Typed, PlatformTyped, AgentIds
  <2>5. Written(agents[want.agent], want) = agents[want.agent]
    BY <2>1, <2>4, SettledStays
  <2>6. Store(want)
    BY <1>1, <2>2 DEF Ran
  <2>7. agents' = [agents EXCEPT ![want.agent] = Written(@, want)]
    BY <2>3, <2>6 DEF Store
  <2> QED BY <2>4, <2>5, <2>7
<1>2. Typed /\ ReportTrue /\ [Next]_vars => [ReappliesAsNoop]_vars
  BY <1>1 DEF ReappliesAsNoop
<1> QED BY <1>2, TypesInvariant, ReportsAreTrue, PTL DEF Spec, ReapplyIsNoop

\* What a dry run announced is what the run that follows it does.
THEOREM DryRunsForetell == Spec => DryRunForetells
<1>1. ASSUME Typed, ReportTrue, Next,
             report.status = "NOT_RUN" /\ report # Quiet, report'.status = "LIVE_VERIFIED",
             report'.want = report.want
      PROVE  DoesAsForetold
  <2> DEFINE want   == report.want
             before == Current(want)
             after  == agents'[report'.agent]
             changed(old, new) == {n \in DOMAIN new : n \in DOMAIN old => new[n] # old[n]}
  <2>1. want \in Wants /\ report.diff = DryRun(want)
    BY <1>1 DEF ReportTrue
  <2>2. before \in Agents /\ after = Written(before, want) /\ Unreadable(want, before.kb) = {}
    BY <1>1, OnlyRunsEndSo, RunDid
  <2> HIDE DEF want, before, after
  <2>3. /\ after.tools = want.tools /\ after.vars = MergeVars(before.vars, want.vars)
        /\ after.kb \ before.kb =
             {[name |-> Base[p], content |-> docs[p]] : p \in ToUpload(want, before.kb)}
    BY <2>1, <2>2, WrittenSettles DEF Written
  <2>4. /\ report.diff.tools = Diff(before.tools, want.tools)
        /\ report.diff.vars = Diff(before.vars, want.vars)
        /\ report.diff.deletions = DOMAIN before.tools \ DOMAIN want.tools
        /\ report.diff.docs = ToUpload(want, before.kb)
    BY <2>1 DEF DryRun, Deletions, before
  <2>5. changed(before.tools, after.tools) = report.diff.tools
    BY <2>3, <2>4 DEF Diff
  <2>6. changed(before.vars, after.vars) = report.diff.vars
    BY <2>3, <2>4 DEF Diff, MergeVars
  <2> QED BY <2>3, <2>4, <2>5, <2>6 DEF DoesAsForetold, want, before, after
<1>2. Typed /\ ReportTrue /\ [Next]_vars => [DoesAsForetold]_vars
  BY <1>1 DEF DoesAsForetold
<1> QED BY <1>2, TypesInvariant, ReportsAreTrue, PTL DEF Spec, DryRunForetells

-----------------------------------------------------------------------------
(* Only a document that changed, or grew, stops a run half way             *)

\* A run that writes ends verified or at a document it cannot read.
LEMMA WritesEndSo ==
  ASSUME NEW STATE command, NEW STATE want, NEW STATE approve,
         Reconciled(command, want, approve), agents' # agents,
         \A p \in DOMAIN want.kb : want.kb[p].sha256 \in Contents
  PROVE  /\ report'.status \in {"LIVE_VERIFIED", "DOCUMENT"}
         /\ report'.status = "DOCUMENT" =>
              \E p \in Approved(report'.want) :
                docs[p] # report'.want.kb[p].sha256 \/ docs[p] \in TooLarge
<1>1. CASE report' = [command |-> command, status |-> "LIVE_VERIFIED", exit |-> 0,
                      approve |-> approve, want |-> want, agent |-> Target(want)]
  BY <1>1
<1>2. CASE \E p \in Unreadable(want, Current(want).kb) :
             report' = [command |-> command, status |-> "DOCUMENT",
                        exit |-> IF docs[p] = NoDoc THEN 1 ELSE 2,
                        approve |-> approve, want |-> want, agent |-> Target(want)]
  <2>1. PICK p \in Unreadable(want, Current(want).kb) :
               report'.status = "DOCUMENT" /\ report'.want = want
    BY <1>2
  <2>2. p \in Approved(want) /\ p \in DOMAIN want.kb
        /\ (docs[p] = NoDoc \/ docs[p] \in TooLarge)
    BY DEF Unreadable, ToUpload, Approved
  <2>3. docs[p] # want.kb[p].sha256 \/ docs[p] \in TooLarge
    BY <2>2, DocsAssumption
  <2>4. QED
    BY <2>1, <2>2, <2>3
<1>3. QED
  BY <1>1, <1>2 DEF Reconciled

\* A command that is blocked, refused or dry changes nothing on the platform, and
\* a run stops half way only at a document that is gone, changed or too large.
THEOREM WritesAreVerifiedOrHalfway == Spec => OnlyVerifiedOrHalfway
<1>1. ASSUME Typed, [Next]_vars, agents' # agents, edits' = edits
      PROVE  /\ report'.status \in {"LIVE_VERIFIED", "DOCUMENT"}
             /\ report'.status = "DOCUMENT" =>
                  \E p \in Approved(report'.want) :
                    docs[p] # report'.want.kb[p].sha256 \/ docs[p] \in TooLarge
  <2>1. ASSUME NEW apply, NEW approve, ApplyPlatform(apply, approve)
        PROVE  apply /\ Reconciled("apply", desired, approve) /\ desired # NoFile
    BY <1>1, <2>1 DEF ApplyPlatform, DryReconciled
  <2>2. ASSUME NEW agent, NEW apply, NEW e2e, IntegrateStaging(agent, apply, e2e)
        PROVE  Reconciled("integrate", Desired(agent), FALSE)
    BY <1>1, <2>2 DEF IntegrateStaging, DryReconciled
  <2>3. ~Edited
    BY <1>1, BoundsAssumption DEF Edited, Typed, BoundsKept
  <2>4. \/ \E apply, approve \in BOOLEAN : ApplyPlatform(apply, approve)
        \/ \E agent \in AgentIds \cup {NoAgent}, apply, e2e \in BOOLEAN :
             IntegrateStaging(agent, apply, e2e)
    BY <1>1, <2>3
    DEF Next, Commands, People, vars, PreparePlatform, ApplyBlocked, IntegrateBlocked, Blocked,
        Approve, AddItem, RemoveItem, SaveDocument, AddForeignTool
  <2>5. CASE \E apply, approve \in BOOLEAN : ApplyPlatform(apply, approve)
    <3>1. PICK apply \in BOOLEAN, approve \in BOOLEAN : ApplyPlatform(apply, approve)
      BY <2>5
    <3>2. Reconciled("apply", desired, approve) /\ desired # NoFile
      BY <2>1, <3>1
    <3>3. \A p \in DOMAIN desired.kb : desired.kb[p].sha256 \in Contents
      BY <1>1, <3>2 DEF Typed, DesiredTyped, Wants, Manifests
    <3>4. QED
      BY <1>1, <3>2, <3>3, WritesEndSo
  <2>6. CASE \E agent \in AgentIds \cup {NoAgent}, apply, e2e \in BOOLEAN :
               IntegrateStaging(agent, apply, e2e)
    <3>1. PICK agent \in AgentIds \cup {NoAgent}, apply \in BOOLEAN, e2e \in BOOLEAN :
                 IntegrateStaging(agent, apply, e2e)
      BY <2>6
    <3>2. Reconciled("integrate", Desired(agent), FALSE)
      BY <2>2, <3>1
    <3>3. \A p \in DOMAIN Desired(agent).kb : Desired(agent).kb[p].sha256 \in Contents
      BY <1>1, <3>1, DesiredIsWant DEF Wants, Manifests
    <3>4. QED
      BY <1>1, <3>2, <3>3, WritesEndSo
  <2>7. QED
    BY <2>4, <2>5, <2>6
<1>2. Typed /\ [Next]_vars =>
        [agents' # agents /\ edits' = edits =>
           /\ report'.status \in {"LIVE_VERIFIED", "DOCUMENT"}
           /\ report'.status = "DOCUMENT" =>
                \E p \in Approved(report'.want) :
                  docs[p] # report'.want.kb[p].sha256 \/ docs[p] \in TooLarge]_vars
  BY <1>1
<1>3. QED
  BY <1>2, TypesInvariant, PTL DEF Spec, OnlyVerifiedOrHalfway
=============================================================================
