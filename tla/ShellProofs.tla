----------------------------- MODULE ShellProofs -----------------------------
(***************************************************************************)
(* For any words and any lines: the shell is type correct; it is never set *)
(* to a live service whose key it does not have, and runs none without it; *)
(* every line of the one-shot command means the same here; and the shell   *)
(* implements Session.                                                     *)
(*                                                                         *)
(* The first two are inductive.  The others rest on what click reads from  *)
(* a line: Parse is a loop over the tokens (module InOrder), Cited what    *)
(* holds after each of them, and Extended compares the line typed with the *)
(* line the shell makes of it.                                             *)
(***************************************************************************)
EXTENDS Shell, FiniteSetTheorems, TLAPS

ShellInv == TypeOK /\ LiveSettingsHaveKeys

\* What a line's first word makes the session's repository is a directory.
LEMMA StickyRepoIsDir ==
  ASSUME TypeOK, NEW c, NEW args
  PROVE  StickyRepo(c, args) \in Dirs
  BY WordsAssumption DEF StickyRepo, TypeOK

\* However the questions about live services are answered or broken off, a
\* service is set only with its key.
LEMMA ConfigureKeepsInv ==
  ASSUME ShellInv, NEW useModel \in BOOLEAN, NEW usePlatform \in BOOLEAN,
         NEW typed \in SUBSET Keys, Configure(useModel, usePlatform, typed)
  PROVE  /\ LiveSettingsHaveKeys'
         /\ model_mode' \in {"fake", "openrouter"} /\ platform_mode' \in {"offline", "staging"}
         /\ keys' \subseteq Keys
<1> USE DEF ShellInv, TypeOK, LiveSettingsHaveKeys, Configure, Keys
<1>1. keys' \subseteq Keys /\ keys \subseteq keys'
  OBVIOUS
<1>2. model_mode' \in {"fake", "openrouter"}
      /\ (model_mode' = "openrouter" => "OPENROUTER_API_KEY" \in keys')
  <2>1. CASE useModel /\ "OPENROUTER_API_KEY" \in keys \cup typed
    BY <2>1
  <2>2. CASE ~(useModel /\ "OPENROUTER_API_KEY" \in keys \cup typed)
    BY <2>2, <1>1
  <2> QED BY <2>1, <2>2
<1>3. platform_mode' \in {"offline", "staging"}
      /\ (platform_mode' = "staging" => "CEKURA_API_KEY" \in keys')
  <2> DEFINE Asked == /\ useModel => "OPENROUTER_API_KEY" \in keys \cup typed
                      /\ usePlatform
                      /\ "CEKURA_API_KEY" \in keys \cup typed
  <2>1. CASE Asked
    BY <2>1
  <2>2. CASE ~Asked
    BY <2>2, <1>1
  <2> QED BY <2>1, <2>2
<1> QED BY <1>1, <1>2, <1>3

LEMMA ShellInit == Init => ShellInv
  BY WordsAssumption DEF Init, ShellInv, TypeOK, LiveSettingsHaveKeys, Modes, Keys

LEMMA ShellStep == ShellInv /\ [Next]_vars => ShellInv'
<1> SUFFICES ASSUME ShellInv, [Next]_vars PROVE ShellInv'
  OBVIOUS
<1> USE DEF ShellInv, TypeOK
<1>1. CASE Begin
  <2>1. CASE phase' = "prompt" /\ UNCHANGED <<settings, keys, running>>
    BY <1>1, <2>1 DEF Begin, settings, LiveSettingsHaveKeys
  <2>2. ASSUME NEW useModel \in BOOLEAN, NEW usePlatform \in BOOLEAN, NEW typed \in SUBSET Keys,
               Configure(useModel, usePlatform, typed), phase' \in {"prompt", "closed"}
        PROVE  ShellInv'
    <3>1. UNCHANGED <<repo, mode, agent_id, project_id, running>> /\ running = Nothing
      BY <1>1, <2>2 DEF Begin, Configure
    <3> QED BY <3>1, <2>2, ConfigureKeepsInv
  <2> QED BY <1>1, <2>1, <2>2 DEF Begin
<1>2. CASE Finish
  BY <1>2 DEF Finish, settings, LiveSettingsHaveKeys
<1>3. CASE Exit
  BY <1>3 DEF Exit, settings, LiveSettingsHaveKeys
<1>4. CASE Offline
  BY <1>4 DEF Offline, AtPrompt, LiveSettingsHaveKeys
<1>5. ASSUME NEW w \in WordsTyped, Use(w) PROVE ShellInv'
  BY <1>5, WordsAssumption DEF Use, AtPrompt, LiveSettingsHaveKeys
<1>6. ASSUME NEW m \in Modes, SetMode(m) PROVE ShellInv'
  BY <1>6 DEF SetMode, AtPrompt, LiveSettingsHaveKeys
<1>7. ASSUME NEW a \in WordsTyped, NEW p \in WordsTyped \cup {None}, SetAgent(a, p)
      PROVE  ShellInv'
  BY <1>7 DEF SetAgent, AtPrompt, LiveSettingsHaveKeys
<1>8. ASSUME NEW useModel \in BOOLEAN, NEW usePlatform \in BOOLEAN, NEW typed \in SUBSET Keys,
             Online(useModel, usePlatform, typed)
      PROVE  ShellInv'
  <2>1. UNCHANGED <<repo, mode, agent_id, project_id, running, phase>>
        /\ Configure(useModel, usePlatform, typed)
    BY <1>8 DEF Online, AtPrompt, Configure
  <2> QED BY <2>1, ConfigureKeepsInv
<1>9. ASSUME NEW c \in SHELL_COMMANDS, NEW args \in Lines, Submit(c, args) PROVE ShellInv'
  <2>1. repo' \in Dirs
    BY <1>9, StickyRepoIsDir DEF Submit
  <2>2. UNCHANGED <<mode, model_mode, platform_mode, agent_id, project_id>>
    BY <1>9 DEF Submit
  <2>3. keys \subseteq keys' /\ keys' \subseteq Keys
    <3> DEFINE missing == LiveKeys(c, Prepared(c, args)) \ keys
    <3>1. missing \subseteq Keys
      BY DEF LiveKeys
    <3>2. PICK got \in {{}, missing \cap {"OPENROUTER_API_KEY"}, missing} : keys' = keys \cup got
      BY <1>9 DEF Submit
    <3> HIDE DEF missing
    <3> QED BY <3>1, <3>2
  <2>4. \/ phase' = "running"
        \/ UNCHANGED <<phase, running>>
    BY <1>9 DEF Submit
  <2> QED BY <2>1, <2>2, <2>3, <2>4 DEF LiveSettingsHaveKeys
<1>10. CASE UNCHANGED vars
  BY <1>10 DEF vars, settings, LiveSettingsHaveKeys
<1> QED BY <1>1, <1>2, <1>3, <1>4, <1>5, <1>6, <1>7, <1>8, <1>9, <1>10 DEF Next

\* The shell's state keeps its types and keeps live settings with their keys.
THEOREM ShellInvariant == Spec => []ShellInv
  BY ShellInit, ShellStep, PTL DEF Spec

\* TypeOK of the shell, for any words and lines (cli.py:44-51, 181-264).
THEOREM ShellTypeCorrect == Spec => []TypeOK
<1>1. ShellInv => TypeOK
  BY DEF ShellInv
<1> QED BY <1>1, ShellInvariant, PTL

\* Breaking off /online, or the question at the start, never leaves a live
\* setting without its key (cli.py:87-103).
THEOREM LiveSettingsAreKeyed == Spec => []LiveSettingsHaveKeys
<1>1. ShellInv => LiveSettingsHaveKeys
  BY DEF ShellInv
<1> QED BY <1>1, ShellInvariant, PTL

-----------------------------------------------------------------------------
(* What click makes of the arguments                                       *)

TakeAt(line, acc, i) == TakeToken(line.c, acc, line.args[i])
TokenLoop == INSTANCE InOrder WITH Op <- TakeAt

Unread == [options |-> << >>, pending |-> None, ok |-> TRUE]

IsAcc(acc) ==
  /\ acc = [options |-> acc.options, pending |-> acc.pending, ok |-> acc.ok]
  /\ acc.options = [o \in DOMAIN acc.options |-> acc.options[o]]
  /\ acc.ok \in BOOLEAN

\* Options whose values come in the next token.
Valued(c) == (OptionsOf[c] \ {"repo"}) \ Flags

\* A token that is a usage error where it stands.
Misplaced(c, acc, token) ==
  IF token.form = "word" THEN "repo" \notin OptionsOf[c] \ DOMAIN acc.options
  ELSE \/ token.name \notin OptionsOf[c] \ {"repo"}
       \/ token.name \in Flags /\ token.form = "assign"

\* What one token does, field by field.
Taken(c, acc, token, after) ==
  /\ IsAcc(after)
  /\ acc.pending # None =>
       /\ after.options = Set(acc.options, acc.pending, Text(token))
       /\ after.pending = None /\ after.ok = acc.ok
  /\ acc.pending = None /\ Misplaced(c, acc, token) =>
       after.options = acc.options /\ after.pending = None /\ after.ok = FALSE
  /\ acc.pending = None /\ ~Misplaced(c, acc, token) =>
       /\ token.form = "word" =>
            /\ after.options = Set(acc.options, "repo", token.name)
            /\ after.pending = None /\ after.ok = acc.ok
       /\ token.form # "word" /\ token.name \in Flags =>
            /\ after.options = Set(acc.options, token.name, TRUE)
            /\ after.pending = None /\ after.ok = acc.ok
       /\ token.form = "option" /\ token.name \notin Flags =>
            after.options = acc.options /\ after.pending = token.name /\ after.ok = acc.ok
       /\ token.form = "assign" /\ token.name \notin Flags =>
            /\ after.options = Set(acc.options, token.name, token.value)
            /\ after.pending = None /\ after.ok = acc.ok

LEMMA TokenTaken ==
  ASSUME NEW c, NEW acc, NEW token, IsAcc(acc), token.form \in {"word", "option", "assign"}
  PROVE  Taken(c, acc, token, TakeToken(c, acc, token))
<1> DEFINE after == TakeToken(c, acc, token)
           Ended(options, pending, ok) ==
             after = [options |-> options, pending |-> pending, ok |-> ok]
<1>1. \A o, v : Set(acc.options, o, v) = [p \in DOMAIN Set(acc.options, o, v) |-> Set(acc.options, o, v)[p]]
  BY DEF Set
<1>2. acc.pending # None => Ended(Set(acc.options, acc.pending, Text(token)), None, acc.ok)
  <2>1. ASSUME acc.pending # None
        PROVE  after = [acc EXCEPT !.options = Set(acc.options, acc.pending, Text(token)), !.pending = None]
    BY <2>1 DEF TakeToken
  <2> HIDE DEF after
  <2> QED BY <2>1 DEF IsAcc
<1>3. acc.pending = None /\ Misplaced(c, acc, token) => Ended(acc.options, None, FALSE)
  <2>1. ASSUME acc.pending = None, Misplaced(c, acc, token)
        PROVE  after = [acc EXCEPT !.ok = FALSE]
    BY <2>1 DEF TakeToken, Misplaced
  <2> HIDE DEF after
  <2> QED BY <2>1 DEF IsAcc
<1>4. ASSUME acc.pending = None, ~Misplaced(c, acc, token)
      PROVE  /\ token.form = "word" => Ended(Set(acc.options, "repo", token.name), None, acc.ok)
             /\ token.form # "word" /\ token.name \in Flags =>
                  Ended(Set(acc.options, token.name, TRUE), None, acc.ok)
             /\ token.name \notin Flags /\ token.form = "option" =>
                  Ended(acc.options, token.name, acc.ok)
             /\ token.name \notin Flags /\ token.form = "assign" =>
                  Ended(Set(acc.options, token.name, token.value), None, acc.ok)
  <2>1. token.form = "word" => after = [acc EXCEPT !.options = Set(acc.options, "repo", token.name)]
    BY <1>4 DEF TakeToken, Misplaced
  <2>2. token.form # "word" /\ token.name \in Flags =>
          after = [acc EXCEPT !.options = Set(acc.options, token.name, TRUE)]
    BY <1>4 DEF TakeToken, Misplaced
  <2>3. token.name \notin Flags /\ token.form = "option" => after = [acc EXCEPT !.pending = token.name]
    BY <1>4 DEF TakeToken, Misplaced
  <2>4. token.name \notin Flags /\ token.form = "assign" =>
          after = [acc EXCEPT !.options = Set(acc.options, token.name, token.value)]
    BY <1>4 DEF TakeToken, Misplaced
  <2> HIDE DEF after
  <2> QED BY <1>4, <2>1, <2>2, <2>3, <2>4 DEF IsAcc
<1> HIDE DEF after
<1>5. \A options, pending, ok : Ended(options, pending, ok) =>
        /\ after.options = options /\ after.pending = pending /\ after.ok = ok
        /\ options = [o \in DOMAIN options |-> options[o]] /\ ok \in BOOLEAN => IsAcc(after)
  BY DEF IsAcc
<1> HIDE DEF Ended
<1>6. acc.options = [o \in DOMAIN acc.options |-> acc.options[o]] /\ acc.ok \in BOOLEAN
  BY DEF IsAcc
<1>7. IsAcc(after)
  <2>0. \A o, v, pending : Ended(Set(acc.options, o, v), pending, acc.ok) => IsAcc(after)
    <3> SUFFICES ASSUME NEW o, NEW v, NEW pending, Ended(Set(acc.options, o, v), pending, acc.ok)
                 PROVE  IsAcc(after)
      OBVIOUS
    <3> DEFINE s == Set(acc.options, o, v)
    <3>1. s = [p \in DOMAIN s |-> s[p]] /\ Ended(s, pending, acc.ok)
      BY <1>1
    <3> HIDE DEF s
    <3> QED BY <1>5, <1>6, <3>1
  <2>1. CASE acc.pending # None
    BY <1>2, <2>0, <2>1
  <2>2. CASE acc.pending = None /\ Misplaced(c, acc, token)
    BY <1>3, <1>5, <1>6, <2>2
  <2>3. CASE acc.pending = None /\ ~Misplaced(c, acc, token)
    BY <1>4, <1>5, <1>6, <2>0, <2>3
  <2> QED BY <2>1, <2>2, <2>3
<1>8. ASSUME acc.pending = None, ~Misplaced(c, acc, token)
      PROVE  /\ token.form = "word" =>
                  /\ after.options = Set(acc.options, "repo", token.name)
                  /\ after.pending = None /\ after.ok = acc.ok
             /\ token.form # "word" /\ token.name \in Flags =>
                  /\ after.options = Set(acc.options, token.name, TRUE)
                  /\ after.pending = None /\ after.ok = acc.ok
             /\ token.form = "option" /\ token.name \notin Flags =>
                  after.options = acc.options /\ after.pending = token.name /\ after.ok = acc.ok
             /\ token.form = "assign" /\ token.name \notin Flags =>
                  /\ after.options = Set(acc.options, token.name, token.value)
                  /\ after.pending = None /\ after.ok = acc.ok
  <2>1. token.form = "word" => Ended(Set(acc.options, "repo", token.name), None, acc.ok)
    BY <1>4, <1>8
  <2>2. token.form # "word" /\ token.name \in Flags =>
          Ended(Set(acc.options, token.name, TRUE), None, acc.ok)
    BY <1>4, <1>8
  <2>3. token.name \notin Flags /\ token.form = "option" => Ended(acc.options, token.name, acc.ok)
    BY <1>4, <1>8
  <2>4. token.name \notin Flags /\ token.form = "assign" =>
          Ended(Set(acc.options, token.name, token.value), None, acc.ok)
    BY <1>4, <1>8
  <2>5. token.form = "word" =>
          /\ after.options = Set(acc.options, "repo", token.name)
          /\ after.pending = None /\ after.ok = acc.ok
    BY <1>5, <2>1
  <2>6. token.form # "word" /\ token.name \in Flags =>
          /\ after.options = Set(acc.options, token.name, TRUE)
          /\ after.pending = None /\ after.ok = acc.ok
    BY <1>5, <2>2
  <2>7. token.form = "option" /\ token.name \notin Flags =>
          after.options = acc.options /\ after.pending = token.name /\ after.ok = acc.ok
    BY <1>5, <2>3
  <2>8. token.form = "assign" /\ token.name \notin Flags =>
          /\ after.options = Set(acc.options, token.name, token.value)
          /\ after.pending = None /\ after.ok = acc.ok
    BY <1>5, <2>4
  <2> QED BY <2>5, <2>6, <2>7, <2>8
<1>9. /\ acc.pending # None =>
           /\ after.options = Set(acc.options, acc.pending, Text(token))
           /\ after.pending = None /\ after.ok = acc.ok
      /\ acc.pending = None /\ Misplaced(c, acc, token) =>
           after.options = acc.options /\ after.pending = None /\ after.ok = FALSE
  BY <1>2, <1>3, <1>5
<1>10. Taken(c, acc, token, after)
  BY <1>7, <1>8, <1>9 DEF Taken
<1> QED BY <1>10 DEF after

IsLine(args) ==
  \E S : args \in Seq(S) /\ \A token \in S : token.form \in {"word", "option", "assign"}

LEMMA UnreadIs == IsAcc(Unread) /\ DOMAIN Unread.options = {} /\ Unread.pending = None /\ Unread.ok
  BY DEF IsAcc, Unread

\* Tokens are taken one by one.
LEMMA ParseRun ==
  ASSUME NEW c, NEW args, IsLine(args)
  PROVE  /\ Len(args) \in Nat /\ DOMAIN args = 1..Len(args)
         /\ \A k \in 1..Len(args) : args[k].form \in {"word", "option", "assign"}
         /\ \E f : /\ f[0] = Unread /\ f[Len(args)] = Parse(c, args)
                   /\ \A k \in 1..Len(args) : f[k] = TakeToken(c, f[k - 1], args[k])
<1> DEFINE n == Len(args)
           line == [c |-> c, args |-> args]
<1>1. PICK S : args \in Seq(S) /\ \A token \in S : token.form \in {"word", "option", "assign"}
  BY DEF IsLine
<1>2. n \in Nat /\ DOMAIN args = 1..n /\ \A k \in 1..n : args[k] \in S
  BY <1>1
<1>3. Parse(c, args) = TokenLoop!Fold(line, Unread, DOMAIN args)
  BY <1>2 DEF Parse, FoldLeft, MapThenFoldSet, Max, TakeAt, Unread,
              TokenLoop!Fold, TokenLoop!MapThenFoldSet, TokenLoop!Max
<1>4. PICK f : /\ f[0] = Unread /\ f[n] = TokenLoop!Fold(line, Unread, DOMAIN args)
               /\ \A k \in 1..n : f[k] = IF k \in DOMAIN args THEN TakeAt(line, f[k - 1], k)
                                      ELSE f[k - 1]
  <2>1. n \in Nat /\ DOMAIN args \in SUBSET (1..n)
    BY <1>2
  <2> HIDE DEF n, line
  <2> QED BY <2>1, TokenLoop!FoldRun
<1>5. \A k \in 1..n : f[k] = TakeToken(c, f[k - 1], args[k])
  BY <1>2, <1>4 DEF TakeAt
<1> QED BY <1>1, <1>2, <1>3, <1>4, <1>5


\* One more token.
LEMMA ParseSnoc ==
  ASSUME NEW c, NEW args, IsLine(args), NEW token, token.form \in {"word", "option", "assign"}
  PROVE  /\ IsLine(Append(args, token))
         /\ Parse(c, Append(args, token)) = TakeToken(c, Parse(c, args), token)
<1> DEFINE n == Len(args)
           longer == Append(args, token)
<1>1. PICK S : args \in Seq(S) /\ \A t \in S : t.form \in {"word", "option", "assign"}
  BY DEF IsLine
<1>2. longer \in Seq(S \cup {token}) /\ IsLine(longer)
  <2>1. longer \in Seq(S \cup {token})
    BY <1>1
  <2>2. \A t \in S \cup {token} : t.form \in {"word", "option", "assign"}
    BY <1>1
  <2> QED BY <2>1, <2>2 DEF IsLine
<1>3. n \in Nat /\ Len(longer) = n + 1 /\ longer[n + 1] = token
      /\ \A k \in 1..n : longer[k] = args[k]
  BY <1>1
<1> HIDE DEF longer
<1>4. PICK f : /\ f[0] = Unread /\ f[n] = Parse(c, args)
               /\ \A k \in 1..n : f[k] = TakeToken(c, f[k - 1], args[k])
  BY ParseRun
<1>5. PICK g : /\ g[0] = Unread /\ g[n + 1] = Parse(c, longer)
               /\ \A k \in 1..(n + 1) : g[k] = TakeToken(c, g[k - 1], longer[k])
  BY <1>2, <1>3, ParseRun
<1> HIDE DEF n
<1> DEFINE X == {k \in 0..n : g[k] = f[k]}
<1>6. 0 \in X
  BY <1>3, <1>4, <1>5
<1>7. \A k \in 1..n : k - 1 \in X => k \in X
  BY <1>3, <1>4, <1>5
<1>8. n \in X
  <2> HIDE DEF X
  <2>1. n \in 0..n
    BY <1>3
  <2> QED BY <2>1, <1>3, <1>6, <1>7, TokenLoop!IntervalInductive
<1>9. n + 1 \in 1..(n + 1) /\ (n + 1) - 1 = n
  BY <1>3
<1> QED BY <1>2, <1>3, <1>4, <1>5, <1>8, <1>9 DEF longer

LEMMA ParsePair ==
  ASSUME NEW c, NEW args, IsLine(args), NEW s, NEW t,
         s.form \in {"word", "option", "assign"}, t.form \in {"word", "option", "assign"}
  PROVE  /\ IsLine(args \o <<s, t>>)
         /\ Parse(c, args \o <<s, t>>) = TakeToken(c, TakeToken(c, Parse(c, args), s), t)
<1>1. args \o <<s, t>> = Append(Append(args, s), t)
  <2>1. PICK S : args \in Seq(S)
    BY DEF IsLine
  <2> QED BY <2>1
<1>2. IsLine(Append(args, s)) /\ Parse(c, Append(args, s)) = TakeToken(c, Parse(c, args), s)
  BY ParseSnoc
<1>3. IsLine(Append(Append(args, s), t))
      /\ Parse(c, Append(Append(args, s), t)) = TakeToken(c, Parse(c, Append(args, s)), t)
  BY <1>2, ParseSnoc
<1> QED BY <1>1, <1>2, <1>3

Remembered == {"--mode", "--model-mode", "--platform-mode", "--agent-id", "--project-id"}

LEMMA OptionsAre ==
  ASSUME NEW c \in SHELL_COMMANDS
  PROVE  /\ None \notin OptionsOf[c] /\ "repo" \notin Flags
         /\ Remembered \cap Flags = {} /\ "repo" \notin Remembered
         /\ "repo" \in OptionsOf[c] <=> c \in REPO_COMMANDS
         /\ "--model-mode" \in OptionsOf[c] <=> c \in MODEL_COMMANDS
         /\ "--platform-mode" \in OptionsOf[c] <=> c \in PLATFORM_COMMANDS
<1>1. OptionsOf[c] \in Range(OptionsOf)
  BY DEF OptionsOf, Range
<1>2. None \notin OptionsOf[c]
  BY <1>1, NoneAssumption
<1>3. "repo" \notin Flags /\ Remembered \cap Flags = {} /\ "repo" \notin Remembered
  BY DEF Flags, Remembered
<1>4. "repo" \in OptionsOf[c] <=> c \in REPO_COMMANDS
  BY DEF OptionsOf
<1>5. "--model-mode" \in OptionsOf[c] <=> c \in MODEL_COMMANDS
  BY DEF OptionsOf
<1>6. "--platform-mode" \in OptionsOf[c] <=> c \in PLATFORM_COMMANDS
  BY DEF OptionsOf
<1> QED BY <1>2, <1>3, <1>4, <1>5, <1>6

\* Every option read but the repository is one a token names, with the value
\* that is in that token or in the next.
Cited(c, args, k, acc) ==
  /\ IsAcc(acc) /\ DOMAIN acc.options \subseteq OptionsOf[c]
  /\ acc.pending # None =>
       /\ k >= 1 /\ args[k].form = "option" /\ args[k].name = acc.pending
       /\ acc.pending \in Valued(c)
  /\ \A o \in DOMAIN acc.options \ {"repo"} : \E i \in 1..k :
       /\ args[i].form # "word" /\ args[i].name = o
       /\ \/ o \in Flags
          \/ args[i].form = "assign" /\ acc.options[o] = args[i].value
          \/ args[i].form = "option" /\ i < k /\ acc.options[o] = Text(args[i + 1])

LEMMA ParseCites ==
  ASSUME NEW c \in SHELL_COMMANDS, NEW args, IsLine(args)
  PROVE  Cited(c, args, Len(args), Parse(c, args))
<1> DEFINE n == Len(args)
<1>1. /\ n \in Nat
      /\ \A k \in 1..n : args[k].form \in {"word", "option", "assign"}
  BY ParseRun
<1>2. PICK f : /\ f[0] = Unread /\ f[n] = Parse(c, args)
               /\ \A k \in 1..n : f[k] = TakeToken(c, f[k - 1], args[k])
  BY ParseRun
<1> DEFINE X == {k \in 0..n : Cited(c, args, k, f[k])}
<1>3. 0 \in X
  BY <1>1, <1>2, UnreadIs DEF Cited
<1>4. ASSUME NEW k \in 1..n, k - 1 \in X PROVE k \in X
  <2> DEFINE acc == f[k - 1]
             after == f[k]
             token == args[k]
  <2>1. Cited(c, args, k - 1, acc) /\ k \in 0..n
    BY <1>4
  <2>2. after = TakeToken(c, acc, token) /\ token.form \in {"word", "option", "assign"} /\ IsAcc(acc)
    BY <1>1, <1>2, <2>1 DEF Cited
  <2>3. k \in Nat /\ (k - 1) + 1 = k /\ k >= 1 /\ \A i \in 1..(k - 1) : i \in 1..k /\ i < k
    BY <1>1
  <2>a. Taken(c, acc, token, after)
    BY <2>2, TokenTaken
  <2> HIDE DEF acc, after, token
  \* what was said of an option stays said until it is set again
  <2>4. ASSUME NEW o \in DOMAIN acc.options \ {"repo"}
        PROVE  \E i \in 1..k :
                 /\ args[i].form # "word" /\ args[i].name = o
                 /\ \/ o \in Flags
                    \/ args[i].form = "assign" /\ acc.options[o] = args[i].value
                    \/ args[i].form = "option" /\ i < k /\ acc.options[o] = Text(args[i + 1])
    <3>1. PICK i \in 1..(k - 1) :
             /\ args[i].form # "word" /\ args[i].name = o
             /\ \/ o \in Flags
                \/ args[i].form = "assign" /\ acc.options[o] = args[i].value
                \/ args[i].form = "option" /\ acc.options[o] = Text(args[i + 1])
      BY <2>1 DEF Cited
    <3>2. i \in 1..k /\ i < k
      BY <2>3
    <3> QED BY <3>1, <3>2
  <2>5. CASE acc.pending # None
    <3>1. /\ k - 1 \in 1..k /\ k - 1 < k /\ args[k - 1].form = "option"
          /\ args[k - 1].name = acc.pending /\ acc.pending \in Valued(c)
      BY <2>1, <2>3, <2>5 DEF Cited
    <3>2. IsAcc(after) /\ after.pending = None /\ after.options = Set(acc.options, acc.pending, Text(token))
      BY <2>2, <2>5, <2>a DEF Taken
    <3>3. DOMAIN after.options = DOMAIN acc.options \cup {acc.pending}
          /\ after.options[acc.pending] = Text(token)
          /\ \A o \in DOMAIN acc.options : o # acc.pending => after.options[o] = acc.options[o]
      BY <3>2 DEF Set
    <3>4. DOMAIN after.options \subseteq OptionsOf[c]
      BY <2>1, <3>1, <3>3 DEF Cited, Valued
    <3>5. ASSUME NEW o \in DOMAIN after.options \ {"repo"}
          PROVE  \E i \in 1..k :
                   /\ args[i].form # "word" /\ args[i].name = o
                   /\ \/ o \in Flags
                      \/ args[i].form = "assign" /\ after.options[o] = args[i].value
                      \/ args[i].form = "option" /\ i < k /\ after.options[o] = Text(args[i + 1])
      <4>1. CASE o = acc.pending
        BY <3>1, <3>3, <2>3, <4>1 DEF token
      <4>2. CASE o # acc.pending
        BY <3>3, <2>4, <4>2
      <4> QED BY <4>1, <4>2
    <3> QED BY <2>1, <3>2, <3>4, <3>5 DEF Cited, after
  <2>6. CASE acc.pending = None /\ Misplaced(c, acc, token)
    <3>1. IsAcc(after) /\ after.pending = None /\ after.options = acc.options
      BY <2>2, <2>6, <2>a DEF Taken
    <3> QED BY <2>1, <2>4, <3>1 DEF Cited, after
  <2>7. CASE acc.pending = None /\ ~Misplaced(c, acc, token) /\ token.form = "word"
    <3>1. IsAcc(after) /\ after.pending = None /\ after.options = Set(acc.options, "repo", token.name)
      BY <2>2, <2>7, <2>a DEF Taken
    <3>2. "repo" \in OptionsOf[c]
      BY <2>7 DEF Misplaced
    <3>3. DOMAIN after.options = DOMAIN acc.options \cup {"repo"}
          /\ \A o \in DOMAIN acc.options \ {"repo"} : after.options[o] = acc.options[o]
      BY <3>1 DEF Set
    <3>4. DOMAIN after.options \subseteq OptionsOf[c]
      BY <2>1, <3>2, <3>3 DEF Cited
    <3>5. ASSUME NEW o \in DOMAIN after.options \ {"repo"}
          PROVE  \E i \in 1..k :
                   /\ args[i].form # "word" /\ args[i].name = o
                   /\ \/ o \in Flags
                      \/ args[i].form = "assign" /\ after.options[o] = args[i].value
                      \/ args[i].form = "option" /\ i < k /\ after.options[o] = Text(args[i + 1])
      BY <3>3, <2>4
    <3> QED BY <2>1, <3>1, <3>4, <3>5 DEF Cited, after
  <2>8. CASE acc.pending = None /\ ~Misplaced(c, acc, token) /\ token.form = "option"
             /\ token.name \notin Flags
    <3>1. IsAcc(after) /\ after.pending = token.name /\ after.options = acc.options
      BY <2>2, <2>8, <2>a DEF Taken
    <3>2. token.name \in Valued(c)
      BY <2>8 DEF Misplaced, Valued
    <3>3. DOMAIN after.options \subseteq OptionsOf[c]
      BY <2>1, <3>1 DEF Cited
    <3> QED BY <2>1, <2>3, <2>4, <2>8, <3>1, <3>2, <3>3 DEF Cited, after, token
  <2>9. CASE acc.pending = None /\ ~Misplaced(c, acc, token) /\ token.form # "word"
             /\ (token.name \in Flags \/ token.form = "assign")
    <3> DEFINE value == IF token.name \in Flags THEN TRUE ELSE token.value
    <3>1. IsAcc(after) /\ after.pending = None /\ after.options = Set(acc.options, token.name, value)
      BY <2>2, <2>9, <2>a DEF Taken
    <3>2. token.name \in OptionsOf[c] \ {"repo"}
      BY <2>9 DEF Misplaced
    <3>3. DOMAIN after.options = DOMAIN acc.options \cup {token.name}
          /\ after.options[token.name] = value
          /\ \A o \in DOMAIN acc.options : o # token.name => after.options[o] = acc.options[o]
      BY <3>1 DEF Set
    <3>4. DOMAIN after.options \subseteq OptionsOf[c]
      BY <2>1, <3>2, <3>3 DEF Cited
    <3>5. ASSUME NEW o \in DOMAIN after.options \ {"repo"}
          PROVE  \E i \in 1..k :
                   /\ args[i].form # "word" /\ args[i].name = o
                   /\ \/ o \in Flags
                      \/ args[i].form = "assign" /\ after.options[o] = args[i].value
                      \/ args[i].form = "option" /\ i < k /\ after.options[o] = Text(args[i + 1])
      <4>1. CASE o = token.name
        <5>1. k \in 1..k
          BY <2>3
        <5> QED BY <2>9, <3>3, <4>1, <5>1 DEF token
      <4>2. CASE o # token.name
        BY <3>3, <2>4, <4>2
      <4> QED BY <4>1, <4>2
    <3> QED BY <2>1, <3>1, <3>4, <3>5 DEF Cited, after
  <2> QED BY <2>2, <2>5, <2>6, <2>7, <2>8, <2>9
<1>5. n \in X
  <2> HIDE DEF X, n
  <2>1. n \in 0..n
    BY <1>1
  <2> QED BY <2>1, <1>1, <1>3, <1>4, TokenLoop!IntervalInductive
<1> QED BY <1>2, <1>5

-----------------------------------------------------------------------------
(* What the session appends                                                *)

AppendAt(session, args, i) == AppendOption(session.c, args, session.options[i])
OptionLoop == INSTANCE InOrder WITH Op <- AppendAt

\* Only one token of the line names the option.
Once(args, o) ==
  \A i, j \in DOMAIN args :
    args[i].form # "word" /\ args[i].name = o /\ args[j].form # "word" /\ args[j].name = o => i = j

LEMMA SessionOptionsAre ==
  /\ DOMAIN SessionOptions = 1..5 /\ Len(SessionOptions) = 5
  /\ \A i \in 1..5 : SessionOptions[i].name \in Remembered
  /\ \A i, j \in 1..5 : SessionOptions[i].name = SessionOptions[j].name => i = j
  /\ \A o \in Remembered : \E i \in 1..5 : SessionOptions[i].name = o
<1>1. DOMAIN SessionOptions = 1..5 /\ Len(SessionOptions) = 5
  BY DEF SessionOptions
<1>2. /\ SessionOptions[1].name = "--mode" /\ SessionOptions[2].name = "--model-mode"
      /\ SessionOptions[3].name = "--platform-mode" /\ SessionOptions[4].name = "--agent-id"
      /\ SessionOptions[5].name = "--project-id"
  BY DEF SessionOptions
<1>3. \A i \in 1..5 : i = 1 \/ i = 2 \/ i = 3 \/ i = 4 \/ i = 5
  OBVIOUS
<1>4. \A i \in 1..5 : SessionOptions[i].name \in Remembered
  BY <1>2, <1>3 DEF Remembered
<1>5. \A i, j \in 1..5 : SessionOptions[i].name = SessionOptions[j].name => i = j
  BY <1>2, <1>3
<1>6. \A o \in Remembered : \E i \in 1..5 : SessionOptions[i].name = o
  BY <1>2 DEF Remembered
<1> QED BY <1>1, <1>4, <1>5, <1>6

\* The tokens of a line with an option appended.
OptionAppended(args, s, after) ==
  /\ IsLine(after) /\ Len(after) = Len(args) + 2
  /\ \A i \in 1..Len(args) : after[i] = args[i]
  /\ after[Len(args) + 1] = Option(s.name) /\ after[Len(args) + 2] = Word(s.value)

LEMMA AppendedTokens ==
  ASSUME NEW args, IsLine(args), NEW s
  PROVE  OptionAppended(args, s, args \o <<Option(s.name), Word(s.value)>>)
<1> DEFINE after == args \o <<Option(s.name), Word(s.value)>>
<1>1. PICK S : args \in Seq(S) /\ \A token \in S : token.form \in {"word", "option", "assign"}
  BY DEF IsLine
<1>2. /\ after \in Seq(S \cup {Option(s.name), Word(s.value)})
      /\ Len(after) = Len(args) + 2 /\ \A i \in 1..Len(args) : after[i] = args[i]
      /\ after[Len(args) + 1] = Option(s.name) /\ after[Len(args) + 2] = Word(s.value)
  BY <1>1
<1>3. \A token \in S \cup {Option(s.name), Word(s.value)} : token.form \in {"word", "option", "assign"}
  BY <1>1 DEF Option, Word
<1> HIDE DEF after
<1>4. IsLine(after)
  BY <1>2, <1>3 DEF IsLine
<1>5. OptionAppended(args, s, after)
  BY <1>2, <1>4 DEF OptionAppended
<1> QED BY <1>5 DEF after

LEMMA AppendedHas ==
  ASSUME NEW args, IsLine(args), NEW s, NEW after, OptionAppended(args, s, after)
  PROVE  /\ \A i \in DOMAIN after : after[i].form = "word"
                                    \/ (i \in DOMAIN args /\ after[i] = args[i])
                                    \/ (i = Len(args) + 1 /\ after[i].name = s.name)
         /\ \A o : HasOption(after, o) <=> HasOption(args, o) \/ o = s.name
<1> DEFINE n == Len(args)
<1>1. n \in Nat /\ DOMAIN args = 1..n
  BY ParseRun
<1>2. /\ IsLine(after) /\ Len(after) = n + 2
      /\ \A i \in 1..n : after[i] = args[i]
      /\ after[n + 1] = Option(s.name) /\ after[n + 2] = Word(s.value)
  BY DEF OptionAppended
<1>3. DOMAIN after = 1..(n + 2)
  BY <1>2, ParseRun
<1> HIDE DEF n
<1>4. \A i \in DOMAIN after : i \in DOMAIN args \/ i = n + 1 \/ i = n + 2
  BY <1>1, <1>3
<1>5. \A i \in DOMAIN args : i \in DOMAIN after /\ after[i] = args[i]
  BY <1>1, <1>2, <1>3
<1>6. n + 1 \in DOMAIN after /\ after[n + 1].form = "option" /\ after[n + 1].name = s.name
      /\ after[n + 2].form = "word"
  BY <1>1, <1>2, <1>3 DEF Option, Word
<1>7. ASSUME NEW o PROVE HasOption(after, o) <=> HasOption(args, o) \/ o = s.name
  <2>1. HasOption(after, o) => HasOption(args, o) \/ o = s.name
    BY <1>4, <1>5, <1>6 DEF HasOption
  <2>2. HasOption(args, o) => HasOption(after, o)
    BY <1>5 DEF HasOption
  <2>3. o = s.name => HasOption(after, o)
    BY <1>6 DEF HasOption
  <2> QED BY <2>1, <2>2, <2>3
<1>8. \A i \in DOMAIN after : after[i].form = "word" \/ (i \in DOMAIN args /\ after[i] = args[i])
                              \/ (i = n + 1 /\ after[i].name = s.name)
  BY <1>4, <1>5, <1>6
<1> QED BY <1>7, <1>8 DEF n

LEMMA AppendedOnce ==
  ASSUME NEW args, IsLine(args), NEW s, NEW after, OptionAppended(args, s, after),
         ~HasOption(args, s.name), NEW o, Once(args, o)
  PROVE  Once(after, o)
<1>1. ASSUME NEW i \in DOMAIN after, NEW j \in DOMAIN after,
             after[i].form # "word", after[i].name = o, after[j].form # "word", after[j].name = o
      PROVE  i = j
  <2>1. (i \in DOMAIN args /\ after[i] = args[i]) \/ (i = Len(args) + 1 /\ o = s.name)
    BY <1>1, AppendedHas
  <2>2. (j \in DOMAIN args /\ after[j] = args[j]) \/ (j = Len(args) + 1 /\ o = s.name)
    BY <1>1, AppendedHas
  <2>3. CASE o = s.name
    BY <1>1, <2>1, <2>2, <2>3 DEF HasOption
  <2>4. CASE o # s.name
    BY <1>1, <2>1, <2>2, <2>4 DEF Once
  <2> QED BY <2>3, <2>4
<1> QED BY <1>1 DEF Once

\* What click then reads.
ReadsMore(c, before, s, after) ==
  /\ after.ok => before.ok
  /\ before.pending = None => /\ after.pending = None /\ after.ok = before.ok
                              /\ after.options = Set(before.options, s.name, s.value)
  /\ before.pending # None /\ "repo" \notin OptionsOf[c] \ DOMAIN before.options => ~after.ok

LEMMA AppendedRead ==
  ASSUME NEW c \in SHELL_COMMANDS, NEW args, IsLine(args),
         NEW s, s.name \in Remembered, s.name \in OptionsOf[c]
  PROVE  ReadsMore(c, Parse(c, args), s, Parse(c, args \o <<Option(s.name), Word(s.value)>>))
<1> DEFINE before == Parse(c, args)
           option == Option(s.name)
           word   == Word(s.value)
           middle == TakeToken(c, before, option)
           after  == TakeToken(c, middle, word)
<1>1. option.form = "option" /\ option.name = s.name /\ word.form = "word" /\ word.name = s.value
      /\ Text(option) = s.name /\ Text(word) = s.value
  BY DEF Option, Word, Text
<1>2. Parse(c, args \o <<option, word>>) = after
  <2> HIDE DEF option, word
  <2> QED BY <1>1, ParsePair
<1>3. IsAcc(before)
  BY ParseCites DEF Cited
<1> HIDE DEF before, option, word
<1>4. Taken(c, before, option, middle)
  BY <1>1, <1>3, TokenTaken
<1>5. IsAcc(middle)
  BY <1>4 DEF Taken
<1> HIDE DEF middle
<1>6. Taken(c, middle, word, after)
  BY <1>1, <1>5, TokenTaken
<1> HIDE DEF after
<1>7. s.name # "repo" /\ s.name \notin Flags /\ s.name # None
  BY OptionsAre
<1>8. CASE before.pending = None
  <2>1. ~Misplaced(c, before, option)
    BY <1>1, <1>7 DEF Misplaced
  <2>2. middle.options = before.options /\ middle.pending = s.name /\ middle.ok = before.ok
    BY <1>1, <1>4, <1>7, <1>8, <2>1 DEF Taken
  <2>3. after.options = Set(before.options, s.name, s.value) /\ after.pending = None /\ after.ok = before.ok
    BY <1>1, <1>6, <1>7, <2>2 DEF Taken
  <2>4. ReadsMore(c, before, s, after)
    BY <1>8, <2>3 DEF ReadsMore
  <2> QED BY <1>2, <2>4 DEF before, option, word
<1>9. CASE before.pending # None
  <2>1. middle.options = Set(before.options, before.pending, s.name) /\ middle.pending = None
        /\ middle.ok = before.ok
    BY <1>1, <1>4, <1>9 DEF Taken
  <2>2. after.ok => middle.ok
    BY <1>1, <1>6, <2>1 DEF Taken
  <2>3. DOMAIN before.options \subseteq DOMAIN middle.options
    BY <2>1 DEF Set
  <2>4. "repo" \notin OptionsOf[c] \ DOMAIN before.options => ~after.ok
    BY <1>1, <1>6, <2>1, <2>3 DEF Taken, Misplaced
  <2>5. ReadsMore(c, before, s, after)
    BY <1>9, <2>1, <2>2, <2>4 DEF ReadsMore
  <2> QED BY <1>2, <2>5 DEF before, option, word
<1> QED BY <1>8, <1>9

\* The session's option the line lacks, of a command that takes it.
Lacks(c, base, s) == s.name \in OptionsOf[c] /\ s.value # None /\ ~HasOption(base, s.name)

\* The line after the first k options of the session, by what it was before: its
\* own options stay, and are the only ones of their name.
TokensExtended(base, k, args) ==
  /\ IsLine(args)
  /\ \A o : HasOption(base, o) => HasOption(args, o)
  /\ \A j \in (k + 1)..5 : HasOption(args, SessionOptions[j].name) =>
                             HasOption(base, SessionOptions[j].name)
  /\ \A o : Once(base, o) => Once(args, o)

\* And what click reads: as much, and the options the line lacks.
ReadingExtended(c, base, k, P, Q) ==
  /\ Q.pending = None /\ Q.ok = P.ok
  /\ \A o \in DOMAIN P.options : o \in DOMAIN Q.options /\ Q.options[o] = P.options[o]
  /\ \A o \in DOMAIN Q.options \ DOMAIN P.options :
       \E j \in 1..k : /\ Lacks(c, base, SessionOptions[j]) /\ SessionOptions[j].name = o
                       /\ Q.options[o] = SessionOptions[j].value
  /\ \A j \in 1..k : Lacks(c, base, SessionOptions[j]) =>
       SessionOptions[j].name \in DOMAIN Q.options

Extended(c, base, k, args) ==
  LET P == Parse(c, base)
      Q == Parse(c, args)
  IN  /\ TokensExtended(base, k, args)
      /\ Q.ok => P.ok
      /\ P.pending = None => ReadingExtended(c, base, k, P, Q)
      /\ P.pending # None /\ "repo" \notin OptionsOf[c] \ DOMAIN P.options => args = base \/ ~Q.ok

\* A line whose own options are read keeps them: what it lacks is not among them.
LEMMA ReadIsHad ==
  ASSUME NEW c \in SHELL_COMMANDS, NEW args, IsLine(args),
         NEW o \in DOMAIN Parse(c, args).options, o # "repo"
  PROVE  HasOption(args, o)
<1>1. Cited(c, args, Len(args), Parse(c, args))
  BY ParseCites
<1>2. \E i \in 1..Len(args) : args[i].form # "word" /\ args[i].name = o
  BY <1>1 DEF Cited
<1>3. DOMAIN args = 1..Len(args)
  BY ParseRun
<1> QED BY <1>2, <1>3 DEF HasOption

LEMMA ExtendedStep ==
  ASSUME NEW c \in SHELL_COMMANDS, NEW base, IsLine(base), NEW k \in 1..5, NEW args,
         Extended(c, base, k - 1, args)
  PROVE  Extended(c, base, k, AppendOption(c, args, SessionOptions[k]))
<1> DEFINE s == SessionOptions[k]
           after == AppendOption(c, args, s)
           P == Parse(c, base)
           Q == Parse(c, args)
           R == Parse(c, after)
<1>1. /\ TokensExtended(base, k - 1, args)
      /\ Q.ok => P.ok
      /\ P.pending = None => ReadingExtended(c, base, k - 1, P, Q)
      /\ P.pending # None /\ "repo" \notin OptionsOf[c] \ DOMAIN P.options => args = base \/ ~Q.ok
  BY DEF Extended
<1>2. IsLine(args) /\ s.name \in Remembered /\ s.name # "repo"
  BY <1>1, SessionOptionsAre, OptionsAre DEF TokensExtended
<1>3. HasOption(args, s.name) <=> HasOption(base, s.name)
  <2>1. k \in ((k - 1) + 1)..5
    OBVIOUS
  <2> QED BY <1>1, <2>1 DEF TokensExtended
<1>4. \A j \in 1..k : j = k \/ j \in 1..(k - 1)
  OBVIOUS
<1>5. \A j \in (k + 1)..5 : j \in ((k - 1) + 1)..5 /\ j # k /\ j \in 1..5
  OBVIOUS
<1>6. \A j \in 1..(k - 1) : j \in 1..k
  OBVIOUS
<1>7. k \in 1..k
  OBVIOUS
<1>8. CASE ~Lacks(c, base, s)
  <2>1. after = args
    BY <1>3, <1>8 DEF Lacks, AppendOption
  <2>2. TokensExtended(base, k, args)
    BY <1>1, <1>5 DEF TokensExtended
  <2> HIDE DEF s, P, Q, after
  <2>3. P.pending = None => ReadingExtended(c, base, k, P, Q)
    BY <1>1, <1>4, <1>6, <1>8 DEF ReadingExtended, s
  <2> QED BY <1>1, <2>1, <2>2, <2>3 DEF Extended, P, Q, after, s
<1>9. CASE Lacks(c, base, s)
  <2>1. after = args \o <<Option(s.name), Word(s.value)>> /\ ~HasOption(args, s.name)
        /\ s.name \in OptionsOf[c]
    BY <1>3, <1>9 DEF Lacks, AppendOption
  <2>2. OptionAppended(args, s, after)
    BY <1>2, <2>1, AppendedTokens
  <2>3. ReadsMore(c, Q, s, R)
    BY <1>2, <2>1, AppendedRead
  <2> HIDE DEF after
  <2>4. /\ \A o : HasOption(after, o) <=> HasOption(args, o) \/ o = s.name
        /\ \A o : Once(args, o) => Once(after, o)
    <3> HIDE DEF s
    <3>1. \A o : HasOption(after, o) <=> HasOption(args, o) \/ o = s.name
      BY <1>2, <2>2, AppendedHas, Zenon
    <3>2. ASSUME NEW o, Once(args, o) PROVE Once(after, o)
      BY <1>2, <2>1, <2>2, <3>2, AppendedOnce
    <3> QED BY <3>1, <3>2
  <2>5. \A j \in (k + 1)..5 : SessionOptions[j].name # s.name
    BY <1>5, SessionOptionsAre
  <2>6. IsLine(after)
    BY <2>2 DEF OptionAppended
  <2>7. TokensExtended(base, k, after)
    BY <1>1, <1>5, <2>4, <2>5, <2>6 DEF TokensExtended
  <2>8. R.ok => P.ok
    BY <1>1, <2>3 DEF ReadsMore
  <2>9. ASSUME P.pending = None PROVE ReadingExtended(c, base, k, P, R)
    <3>1. ReadingExtended(c, base, k - 1, P, Q)
      BY <1>1, <2>9
    <3>2. R.pending = None /\ R.ok = Q.ok /\ R.options = Set(Q.options, s.name, s.value)
      BY <2>3, <3>1 DEF ReadsMore, ReadingExtended
    <3>3. /\ DOMAIN R.options = DOMAIN Q.options \cup {s.name}
          /\ R.options[s.name] = s.value
          /\ \A o \in DOMAIN Q.options : o # s.name => R.options[o] = Q.options[o]
      <4> HIDE DEF Q, R, s
      <4> QED BY <3>2 DEF Set
    <3>4. s.name \notin DOMAIN P.options
      BY <1>2, <1>9, ReadIsHad DEF Lacks
    <3> HIDE DEF P, Q, R, s
    <3>5. R.pending = None /\ R.ok = P.ok
      BY <3>1, <3>2 DEF ReadingExtended
    <3>6. \A o \in DOMAIN P.options : o \in DOMAIN R.options /\ R.options[o] = P.options[o]
      BY <3>1, <3>3, <3>4 DEF ReadingExtended
    <3>7. ASSUME NEW o \in DOMAIN R.options \ DOMAIN P.options
          PROVE  \E j \in 1..k : /\ Lacks(c, base, SessionOptions[j]) /\ SessionOptions[j].name = o
                                 /\ R.options[o] = SessionOptions[j].value
      <4>1. CASE o = s.name
        BY <1>7, <1>9, <3>3, <4>1 DEF s
      <4>2. CASE o # s.name
        BY <1>6, <3>1, <3>3, <4>2 DEF ReadingExtended
      <4> QED BY <4>1, <4>2
    <3>8. \A j \in 1..k : Lacks(c, base, SessionOptions[j]) => SessionOptions[j].name \in DOMAIN R.options
      BY <1>4, <3>1, <3>3 DEF ReadingExtended, s
    <3> QED BY <3>5, <3>6, <3>7, <3>8 DEF ReadingExtended
  <2>10. ASSUME P.pending # None, "repo" \notin OptionsOf[c] \ DOMAIN P.options PROVE ~R.ok
    <3>1. CASE args = base
      BY <2>3, <2>10, <3>1 DEF ReadsMore
    <3>2. CASE ~Q.ok
      BY <2>3, <3>2 DEF ReadsMore
    <3> QED BY <1>1, <2>10, <3>1, <3>2
  <2> HIDE DEF P, R, s
  <2> QED BY <2>7, <2>8, <2>9, <2>10 DEF Extended, P, R, after, s
<1> QED BY <1>8, <1>9

\* The repository in front adds no option and keeps a line one.
LEMMA WithRepoIs ==
  ASSUME NEW c, NEW args, IsLine(args)
  PROVE  /\ IsLine(WithRepo(c, args))
         /\ \A o : HasOption(WithRepo(c, args), o) <=> HasOption(args, o)
         /\ \A o : Once(args, o) => Once(WithRepo(c, args), o)
<1> DEFINE base == WithRepo(c, args)
<1>1. CASE base = args
  BY <1>1
<1>2. CASE base # args
  <2>1. base = <<Word(repo)>> \o args
    BY <1>2 DEF WithRepo
  <2>2. PICK S : args \in Seq(S) /\ \A token \in S : token.form \in {"word", "option", "assign"}
    BY DEF IsLine
  <2>3. /\ base \in Seq(S \cup {Word(repo)}) /\ DOMAIN base = 1..(Len(args) + 1)
        /\ DOMAIN args = 1..Len(args) /\ Len(args) \in Nat
        /\ base[1] = Word(repo) /\ \A i \in 1..Len(args) : base[i + 1] = args[i]
    BY <2>1, <2>2
  <2>4. \A token \in S \cup {Word(repo)} : token.form \in {"word", "option", "assign"}
    BY <2>2 DEF Word
  <2> HIDE DEF base
  <2>5. IsLine(base)
    BY <2>3, <2>4 DEF IsLine
  <2>6. /\ \A i \in DOMAIN args : i + 1 \in DOMAIN base /\ base[i + 1] = args[i]
        /\ \A i \in DOMAIN base : base[i].form # "word" =>
             i - 1 \in DOMAIN args /\ base[i] = args[i - 1]
    <3>1. base[1].form = "word"
      BY <2>3 DEF Word
    <3>2. \A i \in DOMAIN base : i = 1 \/ (i - 1 \in 1..Len(args) /\ (i - 1) + 1 = i)
      BY <2>3
    <3>3. \A i \in DOMAIN args : i + 1 \in DOMAIN base
      BY <2>3
    <3> QED BY <2>3, <3>1, <3>2, <3>3
  <2>7. ASSUME NEW o PROVE HasOption(base, o) <=> HasOption(args, o)
    BY <2>6 DEF HasOption
  <2>8. ASSUME NEW o, Once(args, o) PROVE Once(base, o)
    <3>1. ASSUME NEW i \in DOMAIN base, NEW j \in DOMAIN base,
                 base[i].form # "word", base[i].name = o, base[j].form # "word", base[j].name = o
          PROVE  i = j
      <4>1. i - 1 \in DOMAIN args /\ j - 1 \in DOMAIN args
            /\ base[i] = args[i - 1] /\ base[j] = args[j - 1]
        BY <2>6, <3>1
      <4>2. i - 1 = j - 1
        BY <2>8, <3>1, <4>1 DEF Once
      <4> QED BY <2>3, <4>2
    <3> QED BY <3>1 DEF Once
  <2> QED BY <2>5, <2>7, <2>8 DEF base
<1> QED BY <1>1, <1>2

LEMMA OptionsRun ==
  ASSUME NEW session, NEW base
  PROVE  \E f : /\ f[0] = base /\ f[5] = OptionLoop!Fold(session, base, 1..5)
                /\ \A k \in 1..5 : f[k] = AppendAt(session, f[k - 1], k)
<1> DEFINE n == 5
           S == 1..n
<1>1. n \in Nat /\ S \in SUBSET (1..n)
  OBVIOUS
<1> HIDE DEF n, S
<1>2. \E f : /\ f[0] = base /\ f[n] = OptionLoop!Fold(session, base, S)
             /\ \A k \in 1..n : f[k] = IF k \in S THEN AppendAt(session, f[k - 1], k) ELSE f[k - 1]
  BY <1>1, OptionLoop!FoldRun
<1> QED BY <1>2 DEF n, S

LEMMA PreparedExtends ==
  ASSUME NEW c \in SHELL_COMMANDS, NEW args, IsLine(args)
  PROVE  Extended(c, WithRepo(c, args), 5, Prepared(c, args))
<1> DEFINE base == WithRepo(c, args)
           session == [c |-> c, options |-> SessionOptions]
<1>1. IsLine(base)
  BY WithRepoIs
<1>2. Prepared(c, args) = OptionLoop!Fold(session, base, DOMAIN SessionOptions)
  BY DEF Prepared, FoldLeft, MapThenFoldSet, Max, AppendAt,
         OptionLoop!Fold, OptionLoop!MapThenFoldSet, OptionLoop!Max
<1>3. DOMAIN SessionOptions = 1..5
  BY SessionOptionsAre
<1> HIDE DEF base, session
<1>4. PICK f : /\ f[0] = base /\ f[5] = OptionLoop!Fold(session, base, 1..5)
               /\ \A k \in 1..5 : f[k] = AppendAt(session, f[k - 1], k)
  BY OptionsRun
<1>5. \A k \in 1..5 : f[k] = AppendOption(c, f[k - 1], SessionOptions[k])
  BY <1>4 DEF AppendAt, session
<1> DEFINE X == {k \in 0..5 : Extended(c, base, k, f[k])}
<1>6. 0 \in X
  <2>1. TokensExtended(base, 0, base)
    BY <1>1 DEF TokensExtended
  <2>2. Parse(c, base).pending = None => ReadingExtended(c, base, 0, Parse(c, base), Parse(c, base))
    BY DEF ReadingExtended
  <2>3. Extended(c, base, 0, base)
    BY <2>1, <2>2 DEF Extended
  <2> QED BY <2>3, <1>4
<1>7. ASSUME NEW k \in 1..5, k - 1 \in X PROVE k \in X
  <2>1. Extended(c, base, k - 1, f[k - 1])
    BY <1>7
  <2>2. Extended(c, base, k, AppendOption(c, f[k - 1], SessionOptions[k]))
    BY <2>1, <1>1, ExtendedStep
  <2> QED BY <2>2, <1>5
<1>8. 5 \in X
  <2> HIDE DEF X
  <2>1. 5 \in Nat /\ 5 \in 0..5
    OBVIOUS
  <2> QED BY <2>1, <1>6, <1>7, OptionLoop!IntervalInductive
<1> QED BY <1>2, <1>3, <1>4, <1>8 DEF base

-----------------------------------------------------------------------------
(* A line the one-shot command accepts                                     *)

LEMMA LinesAreLines == \A args \in Lines : IsLine(args)
  BY LinesAssumption DEF IsLine

LEMMA EmptyIsUnread ==
  ASSUME NEW c, NEW args, IsLine(args), args = << >>
  PROVE  Parse(c, args) = Unread
<1>1. Len(args) = 0
  OBVIOUS
<1> QED BY <1>1, ParseRun

LEMMA SessionValuesAreValid ==
  ASSUME TypeOK, NEW j \in 1..5, SessionOptions[j].value # None
  PROVE  Valid(SessionOptions[j].name, SessionOptions[j].value)
<1>1. j = 1 \/ j = 2 \/ j = 3 \/ j = 4 \/ j = 5
  OBVIOUS
<1>2. CASE j = 1
  BY <1>2 DEF SessionOptions, Valid, TypeOK
<1>3. CASE j = 2
  BY <1>3 DEF SessionOptions, Valid, TypeOK
<1>4. CASE j = 3
  BY <1>4 DEF SessionOptions, Valid, TypeOK
<1>5. CASE j = 4
  BY <1>5 DEF SessionOptions, Valid, TypeOK
<1>6. CASE j = 5
  BY <1>6 DEF SessionOptions, Valid, TypeOK
<1> QED BY <1>1, <1>2, <1>3, <1>4, <1>5, <1>6

LEMMA OneShotKept ==
  ASSUME TypeOK, NEW c \in SHELL_COMMANDS, NEW args \in Lines, Accepts(c, args),
         ~("repo" \in DOMAIN Given(c, args) /\ OptionsFirst(args))
  PROVE  /\ Accepts(c, Prepared(c, args))
         /\ \A o \in DOMAIN Given(c, args) : Given(c, Prepared(c, args))[o] = Given(c, args)[o]
<1> DEFINE prepared == Prepared(c, args)
           P == Parse(c, args)
           Q == Parse(c, prepared)
<1>1. IsLine(args)
  BY LinesAreLines
<1>2. /\ P.ok /\ P.pending = None
      /\ Required(c) \subseteq DOMAIN P.options
      /\ \A o \in DOMAIN P.options : Valid(o, P.options[o])
  BY DEF Accepts
<1>3. DOMAIN Given(c, args) = DOMAIN P.options
  BY DEF Given
<1>4. WithRepo(c, args) = args
  <2>1. CASE c \in REPO_COMMANDS
    <3>1. "repo" \in DOMAIN P.options
      <4>1. "repo" \in Required(c)
        BY <2>1, OptionsAre DEF Required
      <4> QED BY <4>1, <1>2
    <3>2. args # << >>
      <4>1. args = << >> => DOMAIN P.options = {}
        BY <1>1, EmptyIsUnread, UnreadIs
      <4> QED BY <3>1, <4>1
    <3>3. ~OptionsFirst(args)
      BY <1>3, <3>1
    <3> QED BY <3>2, <3>3 DEF WithRepo
  <2> QED BY <2>1 DEF WithRepo
<1>5. Extended(c, args, 5, prepared)
  BY <1>1, <1>4, PreparedExtends
<1>6. ReadingExtended(c, args, 5, P, Q)
  BY <1>2, <1>5 DEF Extended
<1> HIDE DEF P, Q, prepared
<1>7. \A o \in DOMAIN P.options : o \in DOMAIN Q.options /\ Q.options[o] = P.options[o]
  BY <1>6 DEF ReadingExtended
<1>8. ASSUME NEW o \in DOMAIN Q.options PROVE Valid(o, Q.options[o])
  <2>1. CASE o \in DOMAIN P.options
    BY <1>2, <1>7, <2>1
  <2>2. CASE o \notin DOMAIN P.options
    <3>1. PICK j \in 1..5 : /\ Lacks(c, args, SessionOptions[j]) /\ SessionOptions[j].name = o
                            /\ Q.options[o] = SessionOptions[j].value
      BY <1>6, <2>2 DEF ReadingExtended
    <3>2. SessionOptions[j].value # None
      BY <3>1 DEF Lacks
    <3> QED BY <3>1, <3>2, SessionValuesAreValid
  <2> QED BY <2>1, <2>2
<1>9. Accepts(c, prepared)
  <2>1. Q.ok /\ Q.pending = None
    BY <1>2, <1>6 DEF ReadingExtended
  <2>2. Required(c) \subseteq DOMAIN Q.options
    BY <1>2, <1>7
  <2> QED BY <2>1, <2>2, <1>8 DEF Accepts, Q
<1>10. ASSUME NEW o \in DOMAIN P.options PROVE Given(c, prepared)[o] = Given(c, args)[o]
  <2>1. o \in DOMAIN Q.options /\ Q.options[o] = P.options[o]
    BY <1>7
  <2>2. Given(c, prepared)[o] = IF o = "repo" /\ Q.options[o] \in Dirs THEN Resolve[Q.options[o]]
                                ELSE Q.options[o]
    BY <2>1 DEF Given, Q
  <2>3. Given(c, args)[o] = IF o = "repo" /\ P.options[o] \in Dirs THEN Resolve[P.options[o]]
                            ELSE P.options[o]
    BY DEF Given, P
  <2> QED BY <2>1, <2>2, <2>3
<1> QED BY <1>3, <1>9, <1>10 DEF prepared

LEMMA TypedLinesMatch == TypeOK => LinesMatchOneShot
<1> SUFFICES ASSUME TypeOK, NEW c \in SHELL_COMMANDS, NEW args \in {a \in Lines : Accepts(c, a)}
             PROVE  \/ "repo" \in DOMAIN Given(c, args) /\ OptionsFirst(args)
                    \/ /\ Accepts(c, Prepared(c, args))
                       /\ \A o \in DOMAIN Given(c, args) :
                            Given(c, Prepared(c, args))[o] = Given(c, args)[o]
  BY DEF LinesMatchOneShot
<1> QED BY OneShotKept

\* Every line the one-shot command accepts is accepted in the shell, whatever the
\* session remembers, and keeps every option it gives, unless the shell's
\* repository comes before the line's own (cli.py:73, 119-142).
THEOREM LinesMatch == Spec => []LinesMatchOneShot
  BY ShellTypeCorrect, TypedLinesMatch, PTL

-----------------------------------------------------------------------------
(* Keys before live services                                               *)

\* The value the shell looks at is the value click reads, of an option that the
\* line has once.
Says(args, i, o, v) ==
  /\ args[i].name = o
  /\ \/ args[i].form = "assign" /\ v = args[i].value
     \/ args[i].form = "option" /\ i < Len(args) /\ v = Text(args[i + 1])

LEMMA OptionValueIs ==
  ASSUME NEW args, IsLine(args), NEW o, Once(args, o), NEW default, NEW v,
         NEW i \in 1..Len(args), Says(args, i, o, v)
  PROVE  OptionValue(args, o, default) = v
<1> DEFINE bare    == {j \in DOMAIN args : args[j].form = "option" /\ args[j].name = o}
           assigns == {j \in DOMAIN args : args[j].form = "assign" /\ args[j].name = o}
<1>1. DOMAIN args = 1..Len(args) /\ Len(args) \in Nat /\ i \in Nat
  BY ParseRun
<1>2. \A j \in DOMAIN args : args[j].form # "word" /\ args[j].name = o => j = i
  BY <1>1 DEF Once, Says
<1>3. Min({i}) = i
  <2>1. \A x \in {i} : (\A y \in {i} : x <= y) <=> x = i
    BY <1>1
  <2> QED BY <2>1 DEF Min
<1>4. CASE args[i].form = "assign"
  <2>1. bare = {} /\ assigns = {i}
    BY <1>1, <1>2, <1>4 DEF Says
  <2> QED BY <1>3, <1>4, <2>1 DEF OptionValue, Says
<1>5. CASE args[i].form = "option"
  <2>1. bare = {i}
    BY <1>1, <1>2, <1>5 DEF Says
  <2> QED BY <1>3, <1>5, <2>1 DEF OptionValue, Says
<1> QED BY <1>4, <1>5 DEF Says

\* A line that says so once has each option once, also with what is put before
\* and after it.
LEMMA PreparedOnce ==
  ASSUME NEW c \in SHELL_COMMANDS, NEW args, IsLine(args), NEW o,
         ~(Cardinality({i \in DOMAIN args : args[i].name = o}) > 1)
  PROVE  Once(Prepared(c, args), o)
<1>1. Once(args, o)
  <2> DEFINE T == {i \in DOMAIN args : args[i].name = o}
  <2>1. DOMAIN args = 1..Len(args) /\ Len(args) \in Nat
    BY ParseRun
  <2>2. IsFiniteSet(T)
    <3>1. T \subseteq 1..Len(args)
      BY <2>1
    <3>2. IsFiniteSet(1..Len(args))
      BY <2>1, FS_Interval
    <3> QED BY <3>1, <3>2, FS_Subset
  <2>3. Cardinality(T) \in Nat
    BY <2>2, FS_CardinalityType
  <2>4. ASSUME NEW i \in T, NEW j \in T PROVE i = j
    <3> SUFFICES ASSUME i # j PROVE FALSE
      OBVIOUS
    <3>1. {i, j} \subseteq T
      OBVIOUS
    <3>2. Cardinality({i, j}) <= Cardinality(T)
      BY <2>2, <3>1, FS_Subset
    <3>3. Cardinality({i, j}) = 2
      <4>1. IsFiniteSet({i}) /\ Cardinality({i}) = 1
        BY FS_Singleton
      <4>2. {i, j} = {i} \cup {j} /\ j \notin {i}
        OBVIOUS
      <4>3. Cardinality({i} \cup {j}) = Cardinality({i}) + 1
        BY <4>1, <4>2, FS_AddElement
      <4> QED BY <4>1, <4>2, <4>3
    <3> HIDE DEF T
    <3>4. ~(Cardinality(T) > 1)
      BY DEF T
    <3> QED BY <2>3, <3>2, <3>3, <3>4
  <2> QED BY <2>4 DEF Once
<1>2. Once(WithRepo(c, args), o)
  BY <1>1, WithRepoIs
<1> QED BY <1>2, PreparedExtends DEF Extended, TokensExtended

\* What a command runs with, of an option no word is.
LEMMA ReadIsAsked ==
  ASSUME NEW c \in SHELL_COMMANDS, NEW args, IsLine(args),
         NEW o \in Remembered, o \in DOMAIN Parse(c, Prepared(c, args)).options,
         ~(Cardinality({i \in DOMAIN args : args[i].name = o}) > 1), NEW default
  PROVE  OptionValue(Prepared(c, args), o, default) = Parse(c, Prepared(c, args)).options[o]
<1> DEFINE prepared == Prepared(c, args)
           Q == Parse(c, prepared)
<1>1. IsLine(prepared)
  BY PreparedExtends DEF Extended, TokensExtended
<1>2. Once(prepared, o)
  BY PreparedOnce
<1> HIDE DEF prepared
<1>3. Cited(c, prepared, Len(prepared), Q)
  BY <1>1, ParseCites
<1>4. o # "repo" /\ o \notin Flags
  BY OptionsAre
<1>5. PICK i \in 1..Len(prepared) : Says(prepared, i, o, Q.options[o])
  <2> HIDE DEF Q
  <2>1. o \in DOMAIN Q.options \ {"repo"}
    BY <1>4 DEF Q, prepared
  <2> QED BY <1>3, <1>4, <2>1 DEF Cited, Says
<1> HIDE DEF Q
<1>6. OptionValue(prepared, o, default) = Q.options[o]
  BY <1>1, <1>2, <1>5, OptionValueIs
<1> QED BY <1>6 DEF Q, prepared

\* The options a command runs with.
FinalOptions(c, args) ==
  [o \in OptionsOf[c] |-> IF o \in DOMAIN Given(c, Prepared(c, args))
                          THEN Given(c, Prepared(c, args))[o] ELSE Default[o]]

LEMMA LiveIsAsked ==
  ASSUME NEW c \in SHELL_COMMANDS, NEW args \in Lines, NEW o \in Remembered, o \in OptionsOf[c],
         ~(Cardinality({i \in DOMAIN args : args[i].name = o}) > 1),
         NEW v, FinalOptions(c, args)[o] = v, v # Default[o], NEW default
  PROVE  OptionValue(Prepared(c, args), o, default) = v
<1> DEFINE prepared == Prepared(c, args)
           Q == Parse(c, prepared)
<1>1. IsLine(args) /\ o # "repo"
  BY LinesAreLines, OptionsAre
<1> HIDE DEF prepared
<1>2. o \in DOMAIN Given(c, prepared) /\ Given(c, prepared)[o] = v
  BY DEF FinalOptions, prepared
<1>3. o \in DOMAIN Q.options /\ Q.options[o] = v
  BY <1>1, <1>2 DEF Given
<1>4. OptionValue(prepared, o, default) = Q.options[o]
  BY <1>1, <1>3, ReadIsAsked DEF prepared
<1> QED BY <1>3, <1>4 DEF prepared

LEMMA SubmitRuns ==
  ASSUME NEW c \in SHELL_COMMANDS, NEW args \in Lines, Submit(c, args), phase' = "running"
  PROVE  /\ LiveKeys(c, Prepared(c, args)) \subseteq keys'
         /\ Accepts(c, Prepared(c, args))
         /\ running' = [command |-> c, given |-> Given(c, args), options |-> FinalOptions(c, args),
                        repeats |-> {o \in OptionsOf[c] :
                          Cardinality({i \in DOMAIN args : args[i].name = o}) > 1}]
<1> DEFINE missing == LiveKeys(c, Prepared(c, args)) \ keys
<1>1. phase # "running"
  BY DEF Submit
<1>2. PICK got \in {{}, missing \cap {"OPENROUTER_API_KEY"}, missing} :
        /\ keys' = keys \cup got
        /\ IF got = missing /\ Accepts(c, Prepared(c, args))
           THEN /\ phase' = "running"
                /\ running' = [command |-> c, given |-> Given(c, args), options |-> FinalOptions(c, args),
                               repeats |-> {o \in OptionsOf[c] :
                                 Cardinality({i \in DOMAIN args : args[i].name = o}) > 1}]
           ELSE UNCHANGED <<phase, running>>
  BY DEF Submit, FinalOptions
<1> HIDE DEF missing
<1>3. got = missing /\ Accepts(c, Prepared(c, args))
  BY <1>1, <1>2
<1>4. LiveKeys(c, Prepared(c, args)) \subseteq keys'
  BY <1>2, <1>3 DEF missing
<1> QED BY <1>2, <1>3, <1>4

LEMMA SubmitAsks ==
  ASSUME NEW c \in SHELL_COMMANDS, NEW args \in Lines, Submit(c, args), phase' = "running"
  PROVE  KeyBeforeLive'
<1> DEFINE prepared == Prepared(c, args)
           once(o) == ~(Cardinality({i \in DOMAIN args : args[i].name = o}) > 1)
<1>1. /\ LiveKeys(c, prepared) \subseteq keys'
      /\ running'.options = FinalOptions(c, args)
      /\ running'.repeats = {o \in OptionsOf[c] :
           Cardinality({i \in DOMAIN args : args[i].name = o}) > 1}
  BY SubmitRuns
<1>2. DOMAIN FinalOptions(c, args) = OptionsOf[c]
  BY DEF FinalOptions
<1>3. \A o \in OptionsOf[c] : o \notin running'.repeats => once(o)
  BY <1>1
<1>4. ASSUME "--model-mode" \in OptionsOf[c], FinalOptions(c, args)["--model-mode"] = "openrouter",
             once("--model-mode")
      PROVE  "OPENROUTER_API_KEY" \in keys'
  <2>1. "openrouter" # Default["--model-mode"] /\ "--model-mode" \in Remembered
    <3>1. "--model-mode" \in UNION Range(OptionsOf)
      BY <1>4 DEF OptionsOf, Range
    <3>2. Default["--model-mode"] = "fake"
      BY <3>1 DEF Default, Flags
    <3>3. "--model-mode" \in Remembered
      BY DEF Remembered
    <3> QED BY <3>2, <3>3
  <2>2. OptionValue(prepared, "--model-mode", model_mode) = "openrouter"
    BY <1>4, <2>1, LiveIsAsked
  <2>3. c \in MODEL_COMMANDS
    BY <1>4, OptionsAre
  <2> HIDE DEF prepared
  <2>4. "OPENROUTER_API_KEY" \in LiveKeys(c, prepared)
    BY <2>2, <2>3 DEF LiveKeys, Keys
  <2> QED BY <1>1, <2>4
<1>5. ASSUME "--platform-mode" \in OptionsOf[c], FinalOptions(c, args)["--platform-mode"] = "staging",
             once("--platform-mode")
      PROVE  "CEKURA_API_KEY" \in keys'
  <2>1. "staging" # Default["--platform-mode"] /\ "--platform-mode" \in Remembered
    <3>1. "--platform-mode" \in UNION Range(OptionsOf)
      BY <1>5 DEF OptionsOf, Range
    <3>2. Default["--platform-mode"] = "offline"
      BY <3>1 DEF Default, Flags
    <3>3. "--platform-mode" \in Remembered
      BY DEF Remembered
    <3> QED BY <3>2, <3>3
  <2>2. OptionValue(prepared, "--platform-mode", platform_mode) = "staging"
    BY <1>5, <2>1, LiveIsAsked
  <2>3. c \in PLATFORM_COMMANDS
    BY <1>5, OptionsAre
  <2> HIDE DEF prepared
  <2>4. "CEKURA_API_KEY" \in LiveKeys(c, prepared)
    BY <2>2, <2>3 DEF LiveKeys, Keys
  <2> QED BY <1>1, <2>4
<1> HIDE DEF prepared, once
<1> QED BY <1>1, <1>2, <1>3, <1>4, <1>5 DEF KeyBeforeLive

LEMMA KeyBeforeLiveStep == KeyBeforeLive /\ [Next]_vars => KeyBeforeLive'
<1> SUFFICES ASSUME KeyBeforeLive, [Next]_vars PROVE KeyBeforeLive'
  OBVIOUS
<1>0. phase' # "running" => KeyBeforeLive'
  BY DEF KeyBeforeLive
<1>1. CASE Begin
  BY <1>0, <1>1 DEF Begin
<1>2. CASE Finish
  BY <1>0, <1>2 DEF Finish
<1>3. CASE Exit
  BY <1>0, <1>3 DEF Exit
<1>4. CASE Offline
  BY <1>0, <1>4 DEF Offline, AtPrompt
<1>5. ASSUME NEW w \in WordsTyped, Use(w) PROVE KeyBeforeLive'
  BY <1>0, <1>5 DEF Use, AtPrompt
<1>6. ASSUME NEW m \in Modes, SetMode(m) PROVE KeyBeforeLive'
  BY <1>0, <1>6 DEF SetMode, AtPrompt
<1>7. ASSUME NEW a \in WordsTyped, NEW p \in WordsTyped \cup {None}, SetAgent(a, p)
      PROVE  KeyBeforeLive'
  BY <1>0, <1>7 DEF SetAgent, AtPrompt
<1>8. ASSUME NEW useModel \in BOOLEAN, NEW usePlatform \in BOOLEAN, NEW typed \in SUBSET Keys,
             Online(useModel, usePlatform, typed)
      PROVE  KeyBeforeLive'
  BY <1>0, <1>8 DEF Online, AtPrompt
<1>9. ASSUME NEW c \in SHELL_COMMANDS, NEW args \in Lines, Submit(c, args) PROVE KeyBeforeLive'
  BY <1>0, <1>9, SubmitAsks
<1>10. CASE UNCHANGED vars
  BY <1>10 DEF vars, KeyBeforeLive
<1> QED BY <1>1, <1>2, <1>3, <1>4, <1>5, <1>6, <1>7, <1>8, <1>9, <1>10 DEF Next

\* No command runs with a live service whose key was not asked for, in any form
\* the line may give it, unless the line gives the option twice (cli.py:145-151).
THEOREM KeysComeBeforeLiveRuns == Spec => []KeyBeforeLive
<1>1. Init => KeyBeforeLive
  BY DEF Init, KeyBeforeLive
<1> QED BY <1>1, KeyBeforeLiveStep, PTL DEF Spec

-----------------------------------------------------------------------------
(* What a command runs with, by Session's promise                          *)

\* An option that takes a value is followed by a word, if by anything: none takes
\* another option for its value.
NothingSwallowed(args) ==
  \A i \in 1..Len(args) : i < Len(args) /\ args[i].form = "option" /\ args[i].name \notin Flags =>
    args[i + 1].form = "word"

LEMMA TakenKeeps ==
  ASSUME NEW c, NEW acc, NEW token, NEW after, Taken(c, acc, token, after),
         token.form \in {"word", "option", "assign"}
  PROVE  /\ after.ok => acc.ok
         /\ DOMAIN acc.options \subseteq DOMAIN after.options
         /\ after.pending # None =>
              token.form = "option" /\ token.name = after.pending /\ after.pending \in Valued(c)
<1>1. CASE acc.pending # None
  BY <1>1 DEF Taken, Set
<1>2. CASE acc.pending = None /\ Misplaced(c, acc, token)
  BY <1>2 DEF Taken
<1>3. CASE acc.pending = None /\ ~Misplaced(c, acc, token)
  <2>1. CASE token.form = "word"
    BY <1>3, <2>1 DEF Taken, Set
  <2>2. CASE token.form # "word" /\ token.name \in Flags
    BY <1>3, <2>2 DEF Taken, Set
  <2>3. CASE token.form = "option" /\ token.name \notin Flags
    <3>1. token.name \in Valued(c)
      BY <1>3, <2>3 DEF Misplaced, Valued
    <3> QED BY <1>3, <2>3, <3>1 DEF Taken
  <2>4. CASE token.form = "assign" /\ token.name \notin Flags
    BY <1>3, <2>4 DEF Taken, Set
  <2> QED BY <2>1, <2>2, <2>3, <2>4
<1> QED BY <1>1, <1>2, <1>3

\* A repository that stands first is the one read.
LEMMA RepoFirst ==
  ASSUME NEW c \in REPO_COMMANDS, NEW args, IsLine(args), args # << >>, args[1].form = "word"
  PROVE  /\ "repo" \in DOMAIN Parse(c, args).options
         /\ Parse(c, args).ok => Parse(c, args).options["repo"] = args[1].name
<1> DEFINE n == Len(args)
           Read(acc) == /\ IsAcc(acc) /\ acc.pending # "repo" /\ "repo" \in DOMAIN acc.options
                        /\ acc.ok => acc.options["repo"] = args[1].name
<1>1. n \in Nat /\ n # 0 /\ \A k \in 1..n : args[k].form \in {"word", "option", "assign"}
  <2>1. \A S : args \in Seq(S) /\ Len(args) = 0 => args = << >>
    OBVIOUS
  <2>2. n # 0
    BY <2>1 DEF IsLine
  <2> QED BY <2>2, ParseRun
<1>2. PICK f : /\ f[0] = Unread /\ f[n] = Parse(c, args)
               /\ \A k \in 1..n : f[k] = TakeToken(c, f[k - 1], args[k])
  BY ParseRun
<1>3. c \in SHELL_COMMANDS /\ "repo" \in OptionsOf[c] /\ "repo" \notin Flags /\ "repo" \notin Valued(c)
      /\ "repo" # None
  <2>1. c \in SHELL_COMMANDS
    BY DEF REPO_COMMANDS
  <2> QED BY <2>1, OptionsAre DEF Valued
<1> HIDE DEF n
<1> DEFINE X == {k \in 0..n : k = 0 \/ Read(f[k])}
<1>4. 0 \in X
  BY <1>1
<1>5. ASSUME NEW k \in 1..n, k - 1 \in X PROVE k \in X
  <2> DEFINE acc == f[k - 1]
             after == f[k]
             token == args[k]
  <2>1. IsAcc(acc)
    <3>1. CASE k - 1 = 0
      BY <1>2, <3>1, UnreadIs
    <3>2. CASE k - 1 # 0
      BY <1>5, <3>2
    <3> QED BY <3>1, <3>2
  <2>2. token.form \in {"word", "option", "assign"} /\ after = TakeToken(c, acc, token)
    BY <1>1, <1>2
  <2> HIDE DEF acc, after, token
  <2>3. Taken(c, acc, token, after)
    BY <2>1, <2>2, TokenTaken
  <2>4. IsAcc(after) /\ after.pending # "repo" /\ (after.ok => acc.ok)
        /\ DOMAIN acc.options \subseteq DOMAIN after.options
    <3>1. IsAcc(after)
      BY <2>3 DEF Taken
    <3> QED BY <1>3, <2>2, <2>3, <3>1, TakenKeeps
  <2>5. CASE k - 1 = 0
    <3>1. acc = Unread /\ token = args[1] /\ ~Misplaced(c, acc, token)
      BY <1>2, <1>3, <2>5, UnreadIs DEF acc, token, Misplaced
    <3>2. after.options = Set(acc.options, "repo", token.name)
      BY <2>3, <3>1, UnreadIs DEF Taken
    <3>3. Read(after)
      BY <2>4, <3>1, <3>2 DEF Set
    <3> QED BY <3>3 DEF after
  <2>6. CASE k - 1 # 0
    <3>1. Read(acc)
      BY <1>5, <2>6 DEF acc
    <3>2. after.ok => after.options["repo"] = acc.options["repo"]
      <4>1. CASE acc.pending # None
        BY <2>3, <3>1, <4>1 DEF Taken, Set
      <4>2. CASE acc.pending = None /\ Misplaced(c, acc, token)
        BY <2>3, <4>2 DEF Taken
      <4>3. CASE acc.pending = None /\ ~Misplaced(c, acc, token)
        <5>1. token.form # "word" /\ token.name # "repo"
          BY <3>1, <4>3 DEF Misplaced
        <5>2. CASE token.name \in Flags
          BY <2>2, <2>3, <3>1, <4>3, <5>1, <5>2 DEF Taken, Set
        <5>3. CASE token.name \notin Flags /\ token.form = "option"
          BY <2>3, <4>3, <5>3 DEF Taken
        <5>4. CASE token.name \notin Flags /\ token.form = "assign"
          <6>1. after.options = Set(acc.options, token.name, token.value)
            BY <2>3, <4>3, <5>4 DEF Taken
          <6> QED BY <3>1, <5>1, <6>1 DEF Set
        <5> QED BY <2>2, <5>1, <5>2, <5>3, <5>4
      <4> QED BY <4>1, <4>2, <4>3
    <3>3. Read(after)
      BY <2>4, <3>1, <3>2
    <3> QED BY <3>3 DEF after
  <2> QED BY <2>5, <2>6
<1>6. n \in X
  <2> HIDE DEF X
  <2>1. n \in 0..n
    BY <1>1
  <2> QED BY <2>1, <1>1, <1>4, <1>5, TokenLoop!IntervalInductive
<1> QED BY <1>1, <1>2, <1>6

LEMMA SetCommutes ==
  ASSUME NEW f, NEW o, NEW p, o # p, NEW v, NEW w
  PROVE  Set(Set(f, o, v), p, w) = Set(Set(f, p, w), o, v)
<1>1. DOMAIN Set(Set(f, o, v), p, w) = (DOMAIN f \cup {o}) \cup {p}
      /\ DOMAIN Set(Set(f, p, w), o, v) = (DOMAIN f \cup {p}) \cup {o}
  BY DEF Set
<1>2. (DOMAIN f \cup {o}) \cup {p} = (DOMAIN f \cup {p}) \cup {o}
  OBVIOUS
<1>3. \A q \in (DOMAIN f \cup {o}) \cup {p} :
        Set(Set(f, o, v), p, w)[q] = Set(Set(f, p, w), o, v)[q]
  BY DEF Set
<1>4. Set(Set(f, o, v), p, w) = [q \in (DOMAIN f \cup {o}) \cup {p} |-> Set(Set(f, o, v), p, w)[q]]
  BY DEF Set
<1>5. Set(Set(f, p, w), o, v) = [q \in (DOMAIN f \cup {o}) \cup {p} |-> Set(Set(f, p, w), o, v)[q]]
  BY <1>2 DEF Set
<1> QED BY <1>3, <1>4, <1>5

\* A repository in front is read apart from the rest of the line.
ReadApart(w, b, g) ==
  b.ok => /\ g.ok /\ g.pending = b.pending /\ b.pending # "repo"
          /\ "repo" \notin DOMAIN g.options /\ b.options = Set(g.options, "repo", w)

LEMMA TokenReadApart ==
  ASSUME NEW c, NEW w, NEW b, NEW g, IsAcc(b), IsAcc(g), ReadApart(w, b, g),
         "repo" \notin Flags, "repo" # None,
         NEW token, token.form \in {"word", "option", "assign"}
  PROVE  ReadApart(w, TakeToken(c, b, token), TakeToken(c, g, token))
<1> DEFINE bb == TakeToken(c, b, token)
           gg == TakeToken(c, g, token)
<1>1. Taken(c, b, token, bb) /\ Taken(c, g, token, gg)
  BY TokenTaken
<1> HIDE DEF bb, gg
<1>2. SUFFICES ASSUME bb.ok PROVE ReadApart(w, bb, gg)
  BY DEF ReadApart, bb, gg
<1>3. b.ok
  BY <1>1, <1>2, TakenKeeps
<1>4. /\ g.ok /\ g.pending = b.pending /\ b.pending # "repo"
      /\ "repo" \notin DOMAIN g.options /\ b.options = Set(g.options, "repo", w)
  BY <1>3 DEF ReadApart
<1>5. bb.pending # "repo"
  BY <1>1, TakenKeeps DEF Valued
<1>6. "repo" \in DOMAIN b.options
  BY <1>4 DEF Set
<1>7. \A o, v : o # "repo" => /\ Set(b.options, o, v) = Set(Set(g.options, o, v), "repo", w)
                              /\ "repo" \notin DOMAIN Set(g.options, o, v)
  <2>1. \A o, v : o # "repo" => Set(Set(g.options, "repo", w), o, v) = Set(Set(g.options, o, v), "repo", w)
    BY SetCommutes
  <2>2. \A o, v : o # "repo" => "repo" \notin DOMAIN Set(g.options, o, v)
    BY <1>4 DEF Set
  <2> QED BY <1>4, <2>1, <2>2
<1>8. CASE b.pending # None
  <2>1. /\ bb.options = Set(b.options, b.pending, Text(token)) /\ bb.pending = None
        /\ gg.options = Set(g.options, b.pending, Text(token)) /\ gg.pending = None /\ gg.ok = g.ok
    BY <1>1, <1>4, <1>8 DEF Taken
  <2> QED BY <1>4, <1>5, <1>7, <2>1 DEF ReadApart
<1>9. CASE b.pending = None
  <2>1. ~Misplaced(c, b, token)
    BY <1>1, <1>2, <1>9 DEF Taken
  <2>2. token.form # "word" /\ token.name # "repo" /\ ~Misplaced(c, g, token)
    BY <1>6, <2>1 DEF Misplaced
  <2>3. CASE token.name \in Flags
    <3>1. PICK v : v = TRUE
      OBVIOUS
    <3>2. /\ bb.options = Set(b.options, token.name, v) /\ bb.pending = None
          /\ gg.options = Set(g.options, token.name, v) /\ gg.pending = None /\ gg.ok = g.ok
      BY <1>1, <1>4, <1>9, <2>1, <2>2, <2>3, <3>1 DEF Taken
    <3> QED BY <1>4, <1>5, <1>7, <2>2, <3>2 DEF ReadApart
  <2>4. CASE token.name \notin Flags /\ token.form = "option"
    <3>1. /\ bb.options = b.options /\ bb.pending = token.name
          /\ gg.options = g.options /\ gg.pending = token.name /\ gg.ok = g.ok
      BY <1>1, <1>4, <1>9, <2>1, <2>2, <2>4 DEF Taken
    <3> QED BY <1>4, <1>5, <3>1 DEF ReadApart
  <2>5. CASE token.name \notin Flags /\ token.form = "assign"
    <3>1. /\ bb.options = Set(b.options, token.name, token.value) /\ bb.pending = None
          /\ gg.options = Set(g.options, token.name, token.value) /\ gg.pending = None /\ gg.ok = g.ok
      BY <1>1, <1>4, <1>9, <2>1, <2>2, <2>5 DEF Taken
    <3> QED BY <1>4, <1>5, <1>7, <2>2, <3>1 DEF ReadApart
  <2> QED BY <2>2, <2>3, <2>4, <2>5
<1> QED BY <1>8, <1>9

InFront(w, args, base) ==
  /\ IsLine(base) /\ Len(base) = Len(args) + 1 /\ base[1] = Word(w)
  /\ \A i \in 1..Len(args) : base[i + 1] = args[i]

LEMMA ParseRepoFirst ==
  ASSUME NEW c \in REPO_COMMANDS, NEW args, IsLine(args), NEW w, NEW base, InFront(w, args, base)
  PROVE  ReadApart(w, Parse(c, base), Parse(c, args))
<1> DEFINE n == Len(args)
<1>1. n \in Nat /\ \A k \in 1..n : args[k].form \in {"word", "option", "assign"}
  BY ParseRun
<1>2. PICK g : /\ g[0] = Unread /\ g[n] = Parse(c, args)
               /\ \A k \in 1..n : g[k] = TakeToken(c, g[k - 1], args[k])
  BY ParseRun
<1>3. PICK f : /\ f[0] = Unread /\ f[n + 1] = Parse(c, base)
               /\ \A k \in 1..(n + 1) : f[k] = TakeToken(c, f[k - 1], base[k])
  <2>0. IsLine(base)
    BY DEF InFront
  <2>1. PICK f : /\ f[0] = Unread /\ f[Len(base)] = Parse(c, base)
                 /\ \A k \in 1..Len(base) : f[k] = TakeToken(c, f[k - 1], base[k])
    BY <2>0, ParseRun
  <2>2. Len(base) = n + 1
    BY DEF InFront
  <2> HIDE DEF n
  <2> QED BY <2>1, <2>2
<1> HIDE DEF n
<1>4. "repo" \in OptionsOf[c] /\ "repo" \notin Flags /\ "repo" # None
  <2>1. c \in SHELL_COMMANDS
    BY DEF REPO_COMMANDS
  <2> QED BY <2>1, OptionsAre
<1> DEFINE X == {k \in 0..n : IsAcc(f[k + 1]) /\ IsAcc(g[k]) /\ ReadApart(w, f[k + 1], g[k])}
<1>5. 0 \in X
  <2>1. f[1] = TakeToken(c, Unread, Word(w))
    <3>1. 1 \in 1..(n + 1) /\ 1 - 1 = 0
      BY <1>1
    <3> QED BY <1>3, <3>1 DEF InFront
  <2>2. Word(w).form = "word" /\ Word(w).name = w
    BY DEF Word
  <2>3. Taken(c, Unread, Word(w), f[1])
    BY <2>1, <2>2, UnreadIs, TokenTaken
  <2>4. ~Misplaced(c, Unread, Word(w))
    BY <1>4, <2>2, UnreadIs DEF Misplaced
  <2>5. f[1].options = Set(Unread.options, "repo", w) /\ f[1].pending = None /\ f[1].ok = Unread.ok
        /\ IsAcc(f[1])
    BY <2>2, <2>3, <2>4, UnreadIs DEF Taken
  <2>6. ReadApart(w, f[1], Unread)
    BY <1>4, <2>5, UnreadIs DEF ReadApart
  <2>7. 0 + 1 = 1 /\ 0 \in 0..n
    BY <1>1
  <2> QED BY <1>2, <2>5, <2>6, <2>7, UnreadIs
<1>6. ASSUME NEW k \in 1..n, k - 1 \in X PROVE k \in X
  <2>1. k \in 0..n /\ (k - 1) + 1 = k /\ k + 1 \in 1..(n + 1) /\ (k + 1) - 1 = k
    BY <1>1
  <2>2. IsAcc(f[k]) /\ IsAcc(g[k - 1]) /\ ReadApart(w, f[k], g[k - 1])
    BY <1>6, <2>1
  <2>3. f[k + 1] = TakeToken(c, f[k], args[k]) /\ g[k] = TakeToken(c, g[k - 1], args[k])
        /\ args[k].form \in {"word", "option", "assign"}
    BY <1>1, <1>2, <1>3, <2>1 DEF n, InFront
  <2>4. ReadApart(w, f[k + 1], g[k])
    BY <1>4, <2>2, <2>3, TokenReadApart
  <2>5. IsAcc(f[k + 1]) /\ IsAcc(g[k])
    <3>1. Taken(c, f[k], args[k], f[k + 1])
      BY <2>2, <2>3, TokenTaken
    <3>2. Taken(c, g[k - 1], args[k], g[k])
      BY <2>2, <2>3, TokenTaken
    <3> QED BY <3>1, <3>2 DEF Taken
  <2> QED BY <2>1, <2>4, <2>5
<1>7. n \in X
  <2> HIDE DEF X
  <2>1. n \in 0..n
    BY <1>1
  <2> QED BY <2>1, <1>1, <1>5, <1>6, TokenLoop!IntervalInductive
<1> QED BY <1>2, <1>3, <1>7

\* Where nothing is swallowed, every option of a line that click reads to the end
\* is read.
LEMMA HadIsRead ==
  ASSUME NEW c \in SHELL_COMMANDS, NEW args, IsLine(args), NothingSwallowed(args),
         Parse(c, args).ok, Parse(c, args).pending = None, NEW o, HasOption(args, o)
  PROVE  o \in DOMAIN Parse(c, args).options
<1> DEFINE n == Len(args)
           LastTaken(k, acc) == acc.pending # None =>
             /\ k \in 1..n /\ args[k].form = "option" /\ args[k].name = acc.pending
             /\ acc.pending \in Valued(c)
           Read(k, acc) == acc.ok => \A i \in 1..k : args[i].form # "word" =>
             \/ args[i].name \in DOMAIN acc.options
             \/ acc.pending # None /\ args[i].name = acc.pending
<1>1. n \in Nat /\ DOMAIN args = 1..n /\ \A k \in 1..n : args[k].form \in {"word", "option", "assign"}
  BY ParseRun
<1>2. PICK f : /\ f[0] = Unread /\ f[n] = Parse(c, args)
               /\ \A k \in 1..n : f[k] = TakeToken(c, f[k - 1], args[k])
  BY ParseRun
<1>3. \A i \in 1..n : i < n /\ args[i].form = "option" /\ args[i].name \notin Flags =>
        args[i + 1].form = "word"
  BY DEF NothingSwallowed
<1> HIDE DEF n
<1> DEFINE X == {k \in 0..n : IsAcc(f[k]) /\ LastTaken(k, f[k]) /\ Read(k, f[k])}
<1>4. 0 \in X
  BY <1>1, <1>2, UnreadIs
<1>5. ASSUME NEW k \in 1..n, k - 1 \in X PROVE k \in X
  <2> DEFINE acc == f[k - 1]
             after == f[k]
             token == args[k]
  <2>1. IsAcc(acc) /\ LastTaken(k - 1, acc) /\ Read(k - 1, acc)
    BY <1>5
  <2>2. token.form \in {"word", "option", "assign"} /\ after = TakeToken(c, acc, token)
    BY <1>1, <1>2
  <2>3. (k - 1) + 1 = k /\ k \in 0..n /\ \A i \in 1..k : i = k \/ i \in 1..(k - 1)
    BY <1>1
  <2>4. acc.pending # None => token.form = "word"
    <3>1. k - 1 \in 1..n => k - 1 < n
      BY <1>1
    <3> QED BY <1>3, <2>1, <2>3, <3>1 DEF Valued
  <2> HIDE DEF acc, after, token
  <2>5. Taken(c, acc, token, after)
    BY <2>1, <2>2, TokenTaken
  <2>6. /\ IsAcc(after) /\ (after.ok => acc.ok)
        /\ DOMAIN acc.options \subseteq DOMAIN after.options
        /\ after.pending # None =>
             token.form = "option" /\ token.name = after.pending /\ after.pending \in Valued(c)
    <3>1. IsAcc(after)
      BY <2>5 DEF Taken
    <3> QED BY <2>2, <2>5, <3>1, TakenKeeps
  <2>7. LastTaken(k, after)
    BY <2>6 DEF token
  <2>8. ASSUME after.ok, acc.pending # None PROVE acc.pending \in DOMAIN after.options
    BY <2>5, <2>8 DEF Taken, Set
  <2>9. ASSUME after.ok, token.form # "word"
        PROVE  token.name \in DOMAIN after.options \/ (after.pending # None /\ token.name = after.pending)
    <3>1. acc.pending = None /\ ~Misplaced(c, acc, token)
      BY <2>4, <2>5, <2>9 DEF Taken
    <3>2. token.name # None
      BY <2>9, <3>1, OptionsAre DEF Misplaced
    <3>3. CASE token.name \in Flags
      BY <2>5, <2>9, <3>1, <3>3 DEF Taken, Set
    <3>4. CASE token.name \notin Flags /\ token.form = "option"
      BY <2>5, <3>1, <3>2, <3>4 DEF Taken
    <3>5. CASE token.name \notin Flags /\ token.form = "assign"
      BY <2>5, <3>1, <3>5 DEF Taken, Set
    <3> QED BY <2>2, <2>9, <3>3, <3>4, <3>5
  <2>10. Read(k, after)
    <3> SUFFICES ASSUME after.ok, NEW i \in 1..k, args[i].form # "word"
                 PROVE  \/ args[i].name \in DOMAIN after.options
                        \/ after.pending # None /\ args[i].name = after.pending
      OBVIOUS
    <3>1. CASE i = k
      BY <2>9, <3>1 DEF token
    <3>2. CASE i \in 1..(k - 1)
      BY <2>1, <2>6, <2>8, <3>2
    <3> QED BY <2>3, <3>1, <3>2
  <2> QED BY <2>3, <2>6, <2>7, <2>10 DEF after
<1>6. n \in X
  <2> HIDE DEF X
  <2>1. n \in 0..n
    BY <1>1
  <2> QED BY <2>1, <1>1, <1>4, <1>5, TokenLoop!IntervalInductive
<1>7. Read(n, Parse(c, args))
  BY <1>2, <1>6
<1> QED BY <1>1, <1>7 DEF HasOption

\* The session's repository is in front, or the line's own first word is.
LEMMA WithRepoInFront ==
  ASSUME NEW c, NEW args, IsLine(args)
  PROVE  \/ WithRepo(c, args) = args /\ (c \in REPO_COMMANDS => args # << >> /\ ~OptionsFirst(args))
         \/ /\ c \in REPO_COMMANDS /\ (args = << >> \/ OptionsFirst(args))
            /\ InFront(repo, args, WithRepo(c, args))
<1> DEFINE base == WithRepo(c, args)
<1>1. CASE c \in REPO_COMMANDS /\ (args = << >> \/ OptionsFirst(args))
  <2>1. base = <<Word(repo)>> \o args
    BY <1>1 DEF WithRepo
  <2>2. PICK S : args \in Seq(S)
    BY DEF IsLine
  <2>3. /\ Len(base) = Len(args) + 1 /\ base[1] = Word(repo)
        /\ \A i \in 1..Len(args) : base[i + 1] = args[i]
    BY <2>1, <2>2
  <2>4. IsLine(base)
    BY WithRepoIs
  <2> HIDE DEF base
  <2>5. InFront(repo, args, base)
    BY <2>3, <2>4 DEF InFront
  <2> QED BY <1>1, <2>5 DEF base
<1>2. CASE ~(c \in REPO_COMMANDS /\ (args = << >> \/ OptionsFirst(args)))
  BY <1>2 DEF WithRepo
<1> QED BY <1>1, <1>2

LEMMA InFrontSwallowsNothing ==
  ASSUME NEW args, IsLine(args), NEW base, NEW w, InFront(w, args, base), NothingSwallowed(args)
  PROVE  NothingSwallowed(base)
<1>1. Len(args) \in Nat
  BY ParseRun
<1>2. /\ Len(base) = Len(args) + 1 /\ base[1] = Word(w)
      /\ \A i \in 1..Len(args) : base[i + 1] = args[i]
  BY DEF InFront
<1>3. ASSUME NEW i \in 1..Len(base), i < Len(base), base[i].form = "option", base[i].name \notin Flags
      PROVE  base[i + 1].form = "word"
  <2>1. i # 1
    BY <1>2, <1>3 DEF Word
  <2>2. i - 1 \in 1..Len(args) /\ i - 1 < Len(args) /\ (i - 1) + 1 = i /\ i \in 1..Len(args)
    BY <1>1, <1>2, <1>3, <2>1
  <2>3. base[i] = args[i - 1] /\ base[i + 1] = args[i]
    BY <1>2, <2>2
  <2> QED BY <1>3, <2>2, <2>3 DEF NothingSwallowed
<1> QED BY <1>3 DEF NothingSwallowed

\* What the session has for an option.
LEMMA SettingsAre ==
  /\ DOMAIN SessionSettings = Remembered \cup {"repo"}
  /\ SessionSettings["repo"] = repo
  /\ \A j \in 1..5 : SessionSettings[SessionOptions[j].name] = SessionOptions[j].value
<1>1. DOMAIN SessionSettings = Remembered \cup {"repo"}
  BY DEF SessionSettings, Remembered
<1>2. SessionSettings["repo"] = repo
  BY DEF SessionSettings
<1>3. \A j \in 1..5 : j = 1 \/ j = 2 \/ j = 3 \/ j = 4 \/ j = 5
  OBVIOUS
<1>4. \A j \in 1..5 : SessionSettings[SessionOptions[j].name] = SessionOptions[j].value
  <2>1. SessionSettings[SessionOptions[1].name] = SessionOptions[1].value
    BY DEF SessionSettings, SessionOptions
  <2>2. SessionSettings[SessionOptions[2].name] = SessionOptions[2].value
    BY DEF SessionSettings, SessionOptions
  <2>3. SessionSettings[SessionOptions[3].name] = SessionOptions[3].value
    BY DEF SessionSettings, SessionOptions
  <2>4. SessionSettings[SessionOptions[4].name] = SessionOptions[4].value
    BY DEF SessionSettings, SessionOptions
  <2>5. SessionSettings[SessionOptions[5].name] = SessionOptions[5].value
    BY DEF SessionSettings, SessionOptions
  <2> QED BY <1>3, <2>1, <2>2, <2>3, <2>4, <2>5
<1> QED BY <1>1, <1>2, <1>4

\* A setting nobody has given is an option's default.
LEMMA UnsetIsDefault ==
  ASSUME TypeOK, NEW c \in SHELL_COMMANDS, NEW j \in 1..5, SessionOptions[j].name \in OptionsOf[c],
         SessionOptions[j].value = None
  PROVE  Default[SessionOptions[j].name] = None
<1>1. j = 1 \/ j = 2 \/ j = 3 \/ j = 4 \/ j = 5
  OBVIOUS
<1>2. None \notin Modes /\ None \notin {"fake", "openrouter", "offline", "staging"}
  BY NoneAssumption
<1>3. SessionOptions[j].name \in UNION Range(OptionsOf)
  BY DEF OptionsOf, Range
<1>4. j # 1 /\ j # 2 /\ j # 3
  BY <1>2 DEF SessionOptions, TypeOK
<1>5. SessionOptions[j].name = "--agent-id" \/ SessionOptions[j].name = "--project-id"
  BY <1>1, <1>4 DEF SessionOptions
<1> HIDE DEF Range
<1> QED BY <1>3, <1>5 DEF Default, Flags

\* What is accepted with the session's options was read without them.
LEMMA AcceptedReading ==
  ASSUME NEW c \in SHELL_COMMANDS, NEW args, IsLine(args), NEW base, base = WithRepo(c, args),
         Accepts(c, Prepared(c, args))
  PROVE  /\ Parse(c, base).ok /\ Parse(c, base).pending = None
         /\ ReadingExtended(c, base, 5, Parse(c, base), Parse(c, Prepared(c, args)))
         /\ "repo" \in OptionsOf[c] => /\ "repo" \in DOMAIN Parse(c, base).options
                                       /\ Parse(c, base).options["repo"] = base[1].name
<1> DEFINE prepared == Prepared(c, args)
           B == Parse(c, base)
           Q == Parse(c, prepared)
<1>1. Extended(c, base, 5, prepared)
  BY PreparedExtends
<1>2. Q.ok /\ Q.pending = None
  BY DEF Accepts
<1>3. IsLine(base)
  BY WithRepoIs
<1>4. ASSUME "repo" \in OptionsOf[c]
      PROVE  "repo" \in DOMAIN B.options /\ (B.ok => B.options["repo"] = base[1].name)
  <2>1. c \in REPO_COMMANDS
    BY <1>4, OptionsAre
  <2>2. base # << >> /\ base[1].form = "word"
    <3>1. CASE base = args /\ args # << >> /\ ~OptionsFirst(args)
      BY <3>1 DEF OptionsFirst
    <3>2. CASE InFront(repo, args, base)
      <4>1. base[1].form = "word"
        BY <3>2 DEF InFront, Word
      <4>2. Len(base) # 0
        <5>1. Len(args) \in Nat /\ Len(base) = Len(args) + 1
          BY <3>2, ParseRun DEF InFront
        <5> QED BY <5>1
      <4> QED BY <4>1, <4>2
    <3>3. (base = args /\ args # << >> /\ ~OptionsFirst(args)) \/ InFront(repo, args, base)
      BY <2>1, WithRepoInFront
    <3> QED BY <3>1, <3>2, <3>3
  <2> QED BY <1>3, <2>1, <2>2, RepoFirst
<1>5. B.pending = None
  <2>1. SUFFICES ASSUME B.pending # None PROVE FALSE
    OBVIOUS
  <2>2. prepared = base \/ ~Q.ok
    BY <1>1, <1>4, <2>1 DEF Extended
  <2> QED BY <1>2, <2>1, <2>2
<1>6. ReadingExtended(c, base, 5, B, Q) /\ (Q.ok => B.ok)
  BY <1>1, <1>5 DEF Extended
<1> QED BY <1>2, <1>4, <1>5, <1>6

\* The options of a line, read with and without the session's repository.
LEMMA ReadAlone ==
  ASSUME NEW c \in SHELL_COMMANDS, NEW args, IsLine(args), NEW base, base = WithRepo(c, args),
         Parse(c, base).ok
  PROVE  /\ \A o : o # "repo" => /\ o \in DOMAIN Parse(c, args).options <=> o \in DOMAIN Parse(c, base).options
                                 /\ o \in DOMAIN Parse(c, args).options =>
                                      Parse(c, args).options[o] = Parse(c, base).options[o]
         /\ base # args => /\ "repo" \notin DOMAIN Parse(c, args).options
                           /\ Parse(c, base).options["repo"] = repo
<1> DEFINE B == Parse(c, base)
           G == Parse(c, args)
<1>1. CASE base = args
  BY <1>1
<1>2. CASE base # args
  <2>1. c \in REPO_COMMANDS /\ InFront(repo, args, base)
    BY <1>2, WithRepoInFront
  <2>2. ReadApart(repo, B, G)
    BY <2>1, ParseRepoFirst
  <2> HIDE DEF B, G
  <2>3. "repo" \notin DOMAIN G.options /\ B.options = Set(G.options, "repo", repo)
    BY <2>2 DEF ReadApart, B
  <2>4. DOMAIN B.options = DOMAIN G.options \cup {"repo"} /\ B.options["repo"] = repo
        /\ \A o \in DOMAIN G.options : o # "repo" => B.options[o] = G.options[o]
    BY <2>3 DEF Set
  <2>5. \A o : o # "repo" => /\ o \in DOMAIN G.options <=> o \in DOMAIN B.options
                             /\ o \in DOMAIN G.options => G.options[o] = B.options[o]
    BY <2>4
  <2> QED BY <2>3, <2>4, <2>5 DEF B, G
<1> QED BY <1>1, <1>2

\* What is in force for an option.
Effective(c, args, o) ==
  IF o \in DOMAIN Given(c, args) THEN Given(c, args)[o]
  ELSE IF o \in DOMAIN SessionSettings THEN SessionSettings[o] ELSE Default[o]

LEMMA RunsWithEffective ==
  ASSUME TypeOK, Resolve[repo] = repo, NEW c \in SHELL_COMMANDS, NEW args, IsLine(args),
         NothingSwallowed(args), Accepts(c, Prepared(c, args)), NEW o \in OptionsOf[c]
  PROVE  FinalOptions(c, args)[o] = Effective(c, args, o)
<1> DEFINE base == WithRepo(c, args)
           prepared == Prepared(c, args)
           B == Parse(c, base)
           G == Parse(c, args)
           Q == Parse(c, prepared)
<1>1. /\ B.ok /\ B.pending = None
      /\ ReadingExtended(c, base, 5, B, Q)
      /\ "repo" \in OptionsOf[c] => "repo" \in DOMAIN B.options
  BY AcceptedReading
<1>2. /\ \A p : p # "repo" => /\ p \in DOMAIN G.options <=> p \in DOMAIN B.options
                              /\ p \in DOMAIN G.options => G.options[p] = B.options[p]
      /\ base # args => "repo" \notin DOMAIN G.options /\ B.options["repo"] = repo
  BY <1>1, ReadAlone
<1>3. IsLine(base) /\ NothingSwallowed(base)
  <2>1. IsLine(base)
    BY WithRepoIs
  <2> HIDE DEF base
  <2>2. base = args \/ InFront(repo, args, base)
    BY WithRepoInFront DEF base
  <2>3. NothingSwallowed(base)
    BY <2>2, InFrontSwallowsNothing
  <2> QED BY <2>1, <2>3
<1>4. \A p : HasOption(base, p) => p \in DOMAIN B.options
  BY <1>1, <1>3, HadIsRead
<1>5. /\ DOMAIN Given(c, args) = DOMAIN G.options /\ DOMAIN Given(c, prepared) = DOMAIN Q.options
      /\ \A p \in DOMAIN G.options : p # "repo" => Given(c, args)[p] = G.options[p]
      /\ \A p \in DOMAIN Q.options : p # "repo" => Given(c, prepared)[p] = Q.options[p]
      /\ "repo" \in DOMAIN Q.options /\ Q.options["repo"] = repo => Given(c, prepared)["repo"] = repo
      /\ "repo" \in DOMAIN Q.options /\ "repo" \in DOMAIN G.options
         /\ Q.options["repo"] = G.options["repo"] => Given(c, prepared)["repo"] = Given(c, args)["repo"]
  BY DEF Given, TypeOK
<1>6. FinalOptions(c, args)[o] = IF o \in DOMAIN Given(c, prepared) THEN Given(c, prepared)[o]
                                 ELSE Default[o]
  BY DEF FinalOptions
<1>7. base = args => B = G
  OBVIOUS
<1> HIDE DEF base, prepared, B, G, Q
<1>8. \A p \in DOMAIN B.options : p \in DOMAIN Q.options /\ Q.options[p] = B.options[p]
  BY <1>1 DEF ReadingExtended
<1>9. CASE o = "repo"
  <2>1. "repo" \in DOMAIN Q.options /\ Q.options["repo"] = B.options["repo"]
    BY <1>1, <1>8, <1>9
  <2>2. CASE base = args
    <3>1. "repo" \in DOMAIN G.options /\ B.options["repo"] = G.options["repo"]
      BY <1>1, <1>7, <1>9, <2>2
    <3> QED BY <1>5, <1>6, <1>9, <2>1, <3>1 DEF Effective
  <2>3. CASE base # args
    <3>1. "repo" \notin DOMAIN G.options /\ Given(c, prepared)["repo"] = repo
      BY <1>2, <1>5, <2>1, <2>3
    <3>2. "repo" \in DOMAIN SessionSettings /\ SessionSettings["repo"] = repo
      BY SettingsAre
    <3> QED BY <1>5, <1>6, <1>9, <2>1, <3>1, <3>2 DEF Effective
  <2> QED BY <2>2, <2>3
<1>10. CASE o # "repo" /\ o \in DOMAIN B.options
  <2>1. o \in DOMAIN G.options /\ o \in DOMAIN Q.options /\ Q.options[o] = G.options[o]
    BY <1>2, <1>8, <1>10
  <2> QED BY <1>5, <1>6, <1>10, <2>1 DEF Effective
<1>11. CASE o # "repo" /\ o \notin DOMAIN B.options
  <2>1. o \notin DOMAIN Given(c, args)
    BY <1>2, <1>5, <1>11
  <2>2. \A j \in 1..5 : SessionOptions[j].name = o /\ SessionOptions[j].value # None =>
          Lacks(c, base, SessionOptions[j])
    BY <1>4, <1>11 DEF Lacks
  <2>3. o \in DOMAIN Q.options =>
          \E j \in 1..5 : /\ Lacks(c, base, SessionOptions[j]) /\ SessionOptions[j].name = o
                          /\ Q.options[o] = SessionOptions[j].value
    BY <1>1, <1>11 DEF ReadingExtended
  <2>4. \A j \in 1..5 : Lacks(c, base, SessionOptions[j]) => SessionOptions[j].name \in DOMAIN Q.options
    BY <1>1 DEF ReadingExtended
  <2>5. CASE o \in Remembered
    <3>1. PICK j \in 1..5 : SessionOptions[j].name = o
      BY <2>5, SessionOptionsAre
    <3>2. o \in DOMAIN SessionSettings /\ SessionSettings[o] = SessionOptions[j].value
      BY <2>5, <3>1, SettingsAre
    <3>3. CASE SessionOptions[j].value # None
      <4>1. o \in DOMAIN Q.options
        BY <2>2, <2>4, <3>1, <3>3
      <4>2. PICK i \in 1..5 : SessionOptions[i].name = o /\ Q.options[o] = SessionOptions[i].value
        BY <2>3, <4>1
      <4>3. i = j
        BY <3>1, <4>2, SessionOptionsAre
      <4> QED BY <1>5, <1>6, <1>11, <2>1, <3>2, <4>1, <4>2, <4>3 DEF Effective
    <3>4. CASE SessionOptions[j].value = None
      <4>1. o \notin DOMAIN Q.options
        <5>1. ASSUME NEW i \in 1..5, SessionOptions[i].name = o PROVE ~Lacks(c, base, SessionOptions[i])
          <6>1. i = j
            BY <3>1, <5>1, SessionOptionsAre
          <6> QED BY <3>4, <6>1 DEF Lacks
        <5> QED BY <2>3, <5>1
      <4>2. Default[o] = None
        BY <3>1, <3>4, UnsetIsDefault
      <4> QED BY <1>5, <1>6, <2>1, <3>2, <3>4, <4>1, <4>2 DEF Effective
    <3> QED BY <3>3, <3>4
  <2>6. CASE o \notin Remembered
    <3>1. o \notin DOMAIN Q.options
      BY <2>3, <2>6, SessionOptionsAre
    <3>2. o \notin DOMAIN SessionSettings
      BY <1>11, <2>6, SettingsAre
    <3> QED BY <1>5, <1>6, <2>1, <3>1, <3>2 DEF Effective
  <2> QED BY <2>5, <2>6
<1> QED BY <1>9, <1>10, <1>11

\* The repository that sticks is the one the line gives.
LEMMA SticksAsGiven ==
  ASSUME NEW c \in SHELL_COMMANDS, NEW args, IsLine(args), Accepts(c, Prepared(c, args))
  PROVE  StickyRepo(c, args) = IF "repo" \in DOMAIN Given(c, args) THEN Given(c, args)["repo"] ELSE repo
<1> DEFINE base == WithRepo(c, args)
           prepared == Prepared(c, args)
           B == Parse(c, base)
           G == Parse(c, args)
           Q == Parse(c, prepared)
<1>1. DOMAIN Given(c, args) = DOMAIN G.options
  BY DEF Given
<1>2. CASE c \notin REPO_COMMANDS
  <2>1. "repo" \notin DOMAIN G.options
    <3>1. Cited(c, args, Len(args), G)
      BY ParseCites
    <3>2. "repo" \notin OptionsOf[c]
      BY <1>2, OptionsAre
    <3> QED BY <3>1, <3>2 DEF Cited
  <2> QED BY <1>1, <1>2, <2>1 DEF StickyRepo
<1>3. CASE c \in REPO_COMMANDS /\ base # args
  <2>1. args = << >> \/ OptionsFirst(args)
    BY <1>3, WithRepoInFront
  <2>2. "repo" \notin DOMAIN G.options
    BY <1>3, AcceptedReading, ReadAlone
  <2> QED BY <1>1, <2>1, <2>2 DEF StickyRepo, OptionsFirst
<1>4. CASE c \in REPO_COMMANDS /\ base = args
  <2>1. args # << >> /\ args[1].form = "word"
    <3>1. args # << >> /\ ~OptionsFirst(args)
      <4>1. CASE args # << >> /\ ~OptionsFirst(args)
        BY <4>1
      <4>2. CASE InFront(repo, args, base)
        <5>1. Len(args) \in Nat /\ Len(base) = Len(args) + 1
          BY <4>2, ParseRun DEF InFront
        <5> QED BY <1>4, <5>1
      <4> QED BY <1>4, <4>1, <4>2, WithRepoInFront
    <3> QED BY <3>1 DEF OptionsFirst
  <2>2. "repo" \in OptionsOf[c]
    BY <1>4, OptionsAre
  <2>3. /\ "repo" \in DOMAIN G.options /\ G.options["repo"] = args[1].name
        /\ ReadingExtended(c, base, 5, G, Q)
    BY <1>4, <2>2, AcceptedReading
  <2>4. "repo" \in DOMAIN Q.options /\ Q.options["repo"] = args[1].name
    BY <2>3 DEF ReadingExtended
  <2>5. args[1].name \in Dirs
    BY <2>4 DEF Accepts, Valid
  <2>6. Given(c, args)["repo"] = Resolve[args[1].name]
    BY <2>3, <2>5 DEF Given
  <2>7. StickyRepo(c, args) = Resolve[args[1].name]
    BY <1>4, <2>1, <2>5 DEF StickyRepo
  <2> QED BY <1>1, <2>3, <2>6, <2>7
<1> QED BY <1>2, <1>3, <1>4

\* A command started has the settings it will be seen to run with.
ResolvedInv == /\ TypeOK /\ Resolve[repo] = repo
               /\ phase = "running" => running # Nothing

LEMMA RecordIsSomething ==
  ASSUME NEW c, NEW given, NEW options, NEW repeats
  PROVE  [command |-> c, given |-> given, options |-> options, repeats |-> repeats] # Nothing
<1> DEFINE r == [command |-> c, given |-> given, options |-> options, repeats |-> repeats]
<1>1. "command" \in DOMAIN r
  OBVIOUS
<1>2. DOMAIN Nothing = {}
  BY DEF Nothing
<1> QED BY <1>1, <1>2

LEMMA ResolvedStep == ResolvedInv /\ LiveSettingsHaveKeys /\ [Next]_vars => ResolvedInv'
<1> SUFFICES ASSUME ResolvedInv, LiveSettingsHaveKeys, [Next]_vars PROVE ResolvedInv'
  OBVIOUS
<1>1. TypeOK'
  BY ShellStep DEF ShellInv, ResolvedInv
<1>2. repo' = repo \/ \E w \in Dirs \cup HomeDirs : repo' = Resolve[w]
  <2>1. ASSUME NEW c \in SHELL_COMMANDS, NEW args \in Lines, Submit(c, args)
        PROVE  repo' = repo \/ \E w \in Dirs \cup HomeDirs : repo' = Resolve[w]
    BY <2>1 DEF Submit, StickyRepo
  <2> QED BY <2>1 DEF Next, vars, settings, Begin, Finish, Exit, Offline, Use, SetMode, SetAgent,
                      Online, Configure
<1>3. Resolve[repo'] = repo'
  BY <1>2, WordsAssumption DEF ResolvedInv
<1>4. phase' = "running" => running' # Nothing
  <2>1. ASSUME NEW c \in SHELL_COMMANDS, NEW args \in Lines, Submit(c, args), phase' = "running"
        PROVE  running' # Nothing
    BY <2>1, SubmitRuns, RecordIsSomething
  <2> QED BY <2>1 DEF Next, vars, settings, Begin, Finish, Exit, Offline, Use, SetMode, SetAgent,
                      Online, Configure, AtPrompt, ResolvedInv
<1> QED BY <1>1, <1>3, <1>4 DEF ResolvedInv

-----------------------------------------------------------------------------
(* Session's steps                                                         *)

\* A setting command's step.
Changes(group) ==
  /\ phase # "closed" /\ running = Nothing /\ running' = Nothing
  /\ \A s \in (Remembered \cup {"repo"}) \ group : SessionSettings'[s] = SessionSettings[s]

LEMMA ChangesAreSteps ==
  ASSUME NEW group, Changes(group),
         group \in {{"repo"}, {"--mode"}, {"--agent-id", "--project-id"},
                    {"--model-mode", "--platform-mode"}}
  PROVE  Promise!Next
<1>1. DOMAIN SessionSettings = Remembered \cup {"repo"} /\ DOMAIN SessionSettings' = DOMAIN SessionSettings
  BY DEF SessionSettings, Remembered
<1>2. (phase # "closed") = TRUE /\ (phase # "closed")' \in BOOLEAN
  BY DEF Changes
<1> HIDE DEF SessionSettings
<1>3. Promise!Change(group)
  BY <1>1, <1>2 DEF Promise!Change, Changes, Promise!Nothing, Nothing
<1> QED BY <1>3 DEF Promise!Next

LEMMA SettingsChange ==
  /\ mode' = mode => SessionSettings'["--mode"] = SessionSettings["--mode"]
  /\ model_mode' = model_mode => SessionSettings'["--model-mode"] = SessionSettings["--model-mode"]
  /\ platform_mode' = platform_mode =>
       SessionSettings'["--platform-mode"] = SessionSettings["--platform-mode"]
  /\ agent_id' = agent_id => SessionSettings'["--agent-id"] = SessionSettings["--agent-id"]
  /\ project_id' = project_id => SessionSettings'["--project-id"] = SessionSettings["--project-id"]
  /\ repo' = repo => SessionSettings'["repo"] = SessionSettings["repo"]
  BY DEF SessionSettings

\* An accepted line starts a command with what is in force.
LEMMA SubmitStarts ==
  ASSUME ResolvedInv, NEW c \in SHELL_COMMANDS, NEW args \in Lines, NothingSwallowed(args),
         Submit(c, args), phase' = "running"
  PROVE  Promise!Next
<1>1. /\ Accepts(c, Prepared(c, args))
      /\ running' = [command |-> c, given |-> Given(c, args), options |-> FinalOptions(c, args),
                     repeats |-> {o \in OptionsOf[c] :
                       Cardinality({i \in DOMAIN args : args[i].name = o}) > 1}]
  BY SubmitRuns
<1>2. running'.command = c /\ running'.given = Given(c, args) /\ running'.options = FinalOptions(c, args)
  BY <1>1
<1>3. running' # Nothing
  BY <1>1, RecordIsSomething
<1>4. running = Nothing /\ phase # "closed" /\ phase' # "closed"
  BY DEF ResolvedInv, TypeOK, Submit
<1>5. IsLine(args)
  BY LinesAreLines
<1>6. FinalOptions(c, args) = Promise!Effective(c, Given(c, args))
  <2>1. ASSUME NEW o \in OptionsOf[c] PROVE FinalOptions(c, args)[o] = Effective(c, args, o)
    BY <1>1, <1>5, RunsWithEffective DEF ResolvedInv
  <2>2. FinalOptions(c, args) = [o \in OptionsOf[c] |-> FinalOptions(c, args)[o]]
    BY DEF FinalOptions
  <2>3. FinalOptions(c, args) = [o \in OptionsOf[c] |-> Effective(c, args, o)]
    BY <2>1, <2>2
  <2> QED BY <2>3 DEF Effective, Promise!Effective
<1>7. SessionSettings' = IF "repo" \in DOMAIN Given(c, args)
                         THEN [SessionSettings EXCEPT !["repo"] = Given(c, args)["repo"]]
                         ELSE SessionSettings
  <2>1. repo' = IF "repo" \in DOMAIN Given(c, args) THEN Given(c, args)["repo"] ELSE repo
    BY <1>1, <1>5, SticksAsGiven DEF Submit
  <2>2. UNCHANGED <<mode, model_mode, platform_mode, agent_id, project_id>>
    BY DEF Submit
  <2>3. SessionSettings' = [SessionSettings EXCEPT !["repo"] = repo']
    BY <2>2 DEF SessionSettings
  <2>4. [SessionSettings EXCEPT !["repo"] = repo] = SessionSettings
    BY DEF SessionSettings
  <2> QED BY <2>1, <2>3, <2>4
<1>8. (phase # "closed") = TRUE /\ (phase # "closed")' = TRUE
  BY <1>4
<1>9. Promise!Start(c)
  BY <1>2, <1>3, <1>4, <1>6, <1>7, <1>8 DEF Promise!Start, Promise!Nothing, Nothing
<1> QED BY <1>9 DEF Promise!Next

LEMMA SessionInit == Init => Promise!Init
<1> SUFFICES ASSUME Init PROVE Promise!Init
  OBVIOUS
<1>1. running = Nothing /\ (phase # "closed") = TRUE
  BY DEF Init
<1> QED BY <1>1 DEF Promise!Init, Promise!Nothing, Nothing

LEMMA SessionStep ==
  ASSUME \A args \in Lines : NothingSwallowed(args), ResolvedInv, [Next]_vars
  PROVE  [Promise!Next]_<<SessionSettings, running, phase # "closed">>
<1> DEFINE Goal == [Promise!Next]_<<SessionSettings, running, phase # "closed">>
<1> SUFFICES Goal
  OBVIOUS
<1>1. ASSUME UNCHANGED settings, running' = running, phase # "closed", phase' # "closed" PROVE Goal
  <2>1. SessionSettings' = SessionSettings
    BY <1>1 DEF settings, SessionSettings
  <2>2. (phase # "closed")' = (phase # "closed")
    BY <1>1
  <2> QED BY <1>1, <2>1, <2>2
<1>2. Promise!Next => Goal
  OBVIOUS
<1> HIDE DEF Goal
<1>3. phase # "running" => running = Nothing
  BY DEF ResolvedInv, TypeOK
\* a configuration changes only the live settings
<1>4. ASSUME NEW useModel, NEW usePlatform, NEW typed, Configure(useModel, usePlatform, typed),
             phase # "closed", phase # "running"
      PROVE  Goal
  <2>1. UNCHANGED <<repo, mode, agent_id, project_id, running>>
    BY <1>4 DEF Configure
  <2>2. Changes({"--model-mode", "--platform-mode"})
    BY <1>3, <1>4, <2>1, SettingsChange DEF Changes, Remembered
  <2> QED BY <1>2, <2>2, ChangesAreSteps
<1>5. CASE Begin
  <2>1. CASE phase' = "prompt" /\ UNCHANGED <<settings, keys, running>>
    <3>1. UNCHANGED settings /\ running' = running /\ phase # "closed" /\ phase' # "closed"
      BY <1>5, <2>1 DEF Begin
    <3> QED BY <1>1, <3>1
  <2>2. ASSUME NEW useModel, NEW usePlatform, NEW typed, Configure(useModel, usePlatform, typed)
        PROVE  Goal
    <3>1. phase # "closed" /\ phase # "running"
      BY <1>5 DEF Begin
    <3> QED BY <1>4, <2>2, <3>1
  <2>3. \/ phase' = "prompt" /\ UNCHANGED <<settings, keys, running>>
        \/ \E useModel, usePlatform \in BOOLEAN, typed \in SUBSET Keys :
             Configure(useModel, usePlatform, typed)
    BY <1>5 DEF Begin
  <2> QED BY <2>1, <2>2, <2>3
<1>6. CASE Finish
  <2>1. running # Nothing /\ running' = Nothing /\ SessionSettings' = SessionSettings
    BY <1>6 DEF Finish, ResolvedInv, settings, SessionSettings
  <2>2. (phase # "closed")' \in BOOLEAN
    OBVIOUS
  <2>3. Promise!Finish
    BY <2>1, <2>2 DEF Promise!Finish, Promise!Nothing, Nothing
  <2> QED BY <1>2, <2>3 DEF Promise!Next
<1>7. CASE Exit
  <2>1. UNCHANGED <<repo, mode, model_mode, platform_mode, agent_id, project_id, running>>
        /\ phase = "prompt"
    BY <1>7 DEF Exit, settings
  <2>2. Changes({"repo"})
    BY <1>3, <2>1, SettingsChange DEF Changes, Remembered
  <2> QED BY <1>2, <2>2, ChangesAreSteps
<1>8. CASE Offline
  <2>1. UNCHANGED <<repo, mode, agent_id, project_id, running>> /\ phase = "prompt"
    BY <1>8 DEF Offline, AtPrompt
  <2>2. Changes({"--model-mode", "--platform-mode"})
    BY <1>3, <2>1, SettingsChange DEF Changes, Remembered
  <2> QED BY <1>2, <2>2, ChangesAreSteps
<1>9. ASSUME NEW w \in WordsTyped, Use(w) PROVE Goal
  <2>1. UNCHANGED <<mode, model_mode, platform_mode, agent_id, project_id, running>> /\ phase = "prompt"
    BY <1>9 DEF Use, AtPrompt
  <2>2. Changes({"repo"})
    BY <1>3, <2>1, SettingsChange DEF Changes, Remembered
  <2> QED BY <1>2, <2>2, ChangesAreSteps
<1>10. ASSUME NEW m \in Modes, SetMode(m) PROVE Goal
  <2>1. UNCHANGED <<repo, model_mode, platform_mode, agent_id, project_id, running>> /\ phase = "prompt"
    BY <1>10 DEF SetMode, AtPrompt
  <2>2. Changes({"--mode"})
    BY <1>3, <2>1, SettingsChange DEF Changes, Remembered
  <2> QED BY <1>2, <2>2, ChangesAreSteps
<1>11. ASSUME NEW a \in WordsTyped, NEW p \in WordsTyped \cup {None}, SetAgent(a, p) PROVE Goal
  <2>1. UNCHANGED <<repo, mode, model_mode, platform_mode, running>> /\ phase = "prompt"
    BY <1>11 DEF SetAgent, AtPrompt
  <2>2. Changes({"--agent-id", "--project-id"})
    BY <1>3, <2>1, SettingsChange DEF Changes, Remembered
  <2> QED BY <1>2, <2>2, ChangesAreSteps
<1>12. ASSUME NEW useModel \in BOOLEAN, NEW usePlatform \in BOOLEAN, NEW typed \in SUBSET Keys,
              Online(useModel, usePlatform, typed)
       PROVE  Goal
  BY <1>4, <1>12 DEF Online, AtPrompt
<1>13. ASSUME NEW c \in SHELL_COMMANDS, NEW args \in Lines, Submit(c, args) PROVE Goal
  <2>1. CASE phase' = "running"
    BY <1>2, <1>13, <2>1, SubmitStarts
  <2>2. CASE phase' # "running"
    <3>1. UNCHANGED <<mode, model_mode, platform_mode, agent_id, project_id, running>> /\ phase = "prompt"
      BY <1>13, <2>2 DEF Submit
    <3>2. Changes({"repo"})
      BY <1>3, <3>1, SettingsChange DEF Changes, Remembered
    <3> QED BY <1>2, <3>2, ChangesAreSteps
  <2> QED BY <2>1, <2>2
<1>14. CASE UNCHANGED vars
  <2>1. SessionSettings' = SessionSettings /\ running' = running /\ phase' = phase
    BY <1>14 DEF vars, settings, SessionSettings
  <2> QED BY <2>1 DEF Goal
<1>15. CASE Next
  BY <1>5, <1>6, <1>7, <1>8, <1>9, <1>10, <1>11, <1>12, <1>13, <1>15 DEF Next
<1> QED BY <1>14, <1>15

\* The shell implements Session: what a command runs with is what its line gives,
\* over what the session remembers, over the defaults, and only the repository of
\* a line outlives its command (cli.py:119-142, 181-264), for all lines in which
\* no option takes another option for its value.
THEOREM ShellKeepsSession ==
  ASSUME \A args \in Lines : NothingSwallowed(args)
  PROVE  Spec => SessionKept
<1>1. Init => ResolvedInv
  BY WordsAssumption, ShellInit DEF Init, ResolvedInv, ShellInv
<1>2. ResolvedInv /\ LiveSettingsHaveKeys /\ [Next]_vars => ResolvedInv'
  BY ResolvedStep
<1>3. ResolvedInv /\ [Next]_vars => [Promise!Next]_<<SessionSettings, running, phase # "closed">>
  BY SessionStep
<1>4. Init => Promise!Init
  BY SessionInit
<1> QED BY <1>1, <1>2, <1>3, <1>4, LiveSettingsAreKeyed, PTL DEF Spec, SessionKept, Promise!Spec
=============================================================================
