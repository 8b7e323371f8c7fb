------------------------------- MODULE Session -------------------------------
(***************************************************************************)
(* What an interactive session promises: it remembers settings, and a      *)
(* command runs with what its line gives and, for what the line does not   *)
(* give, with the settings remembered, no matter in which form either is   *)
(* written down.  Options of one command do not stick; a repository does.  *)
(***************************************************************************)

CONSTANTS
  Commands,
  Takes,     \* command |-> the arguments and options it takes
  Default,   \* option |-> what it is without line and session
  Groups     \* the sets of settings one setting command may change

VARIABLES
  settings,  \* the repository and the options remembered
  running,   \* the command under way: its name, what its line gave, its options
  open       \* the session has not ended

Nothing == << >>   \* no command under way

Effective(c, given) ==
  [o \in Takes[c] |-> IF o \in DOMAIN given THEN given[o]
                      ELSE IF o \in DOMAIN settings THEN settings[o] ELSE Default[o]]

Init == running = Nothing /\ open = TRUE

Start(c) ==
  /\ open = TRUE /\ open' = TRUE
  /\ running = Nothing /\ running' # Nothing
  /\ running'.command = c
  /\ running'.options = Effective(c, running'.given)
  /\ settings' = IF "repo" \in DOMAIN running'.given
                 THEN [settings EXCEPT !["repo"] = running'.given["repo"]] ELSE settings

\* A command that raises ends the session.
Finish ==
  /\ running # Nothing /\ running' = Nothing
  /\ open' \in BOOLEAN
  /\ UNCHANGED settings

\* A setting command changes its own settings only.  A line that is refused may
\* have set the repository too.
Change(group) ==
  /\ open = TRUE /\ running = Nothing
  /\ DOMAIN settings' = DOMAIN settings
  /\ \A s \in DOMAIN settings \ group : settings'[s] = settings[s]
  /\ UNCHANGED running /\ open' \in BOOLEAN

Next == (\E c \in Commands : Start(c)) \/ Finish \/ \E g \in Groups : Change(g)

Spec == Init /\ [][Next]_<<settings, running, open>>
=============================================================================
