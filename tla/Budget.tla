------------------------------- MODULE Budget -------------------------------
(***************************************************************************)
(* The model budget: BudgetLedger (budget.py) and the planner call it      *)
(* guards, OpenRouterPlanner.plan (planner/client.py).  Every command that *)
(* plans loads the ledger, checks the caps, posts with up to three         *)
(* attempts, parses, records the cost and rewrites the file.  Several      *)
(* commands may run at once; nothing locks the ledger.                     *)
(*                                                                         *)
(* Amounts are micro-dollars (the ledger keeps six decimals).  The model   *)
(* provider is external: it charges for every completion it produces, and  *)
(* a call never costs more than estimate_cost said.                        *)
(***************************************************************************)
EXTENDS Integers

CONSTANTS
  Procs,         \* processes running a command that plans
  Estimates,     \* what estimate_cost may give
  RunCap,        \* per_run_cost_cap_usd
  TotalCap,      \* cumulative_cost_cap_usd
  Unreadable,    \* a ledger.json that is missing or truncated
  Faults,        \* answers other than a priced, valid plan that may come
  CrashAt,       \* points at which a command may be killed
  MaxCommands    \* bound: commands started

Answers == {"plan", "timeout", "retryable", "refused", "garbled", "invalid", "unmetered"}
MaxAttempts == 3
PCs == {"idle", "check", "post", "record", "save", "writing"}

ASSUME CapAssumption ==
  /\ RunCap \in Nat /\ TotalCap \in Nat
  /\ Estimates \subseteq Nat
  /\ Unreadable \notin Nat
ASSUME MaxCommandsAssumption == MaxCommands \in Nat

VARIABLES
  ledger,      \* ledger.json
  pc, run,     \* of each process: where it is; run_spend_usd
  cumulative,  \* _cumulative, read when the ledger object is made
  est, cost,   \* projected cost; cost computed from the answer's usage
  attempt,
  \* observers
  spent,       \* what the provider charged for this command so far
  charged,     \* what the provider charged in all
  commands,
  orderly      \* commands followed one another, none was killed, and every
               \* completion charged for was a priced plan that was accepted

local == <<pc, run, cumulative, est, cost, attempt, spent>>
vars  == <<ledger, local, charged, commands, orderly>>

TypeOK ==
  /\ ledger \in Nat \cup {Unreadable}
  /\ pc \in [Procs -> PCs]
  /\ run \in [Procs -> Nat] /\ cumulative \in [Procs -> Nat]
  /\ est \in [Procs -> Nat] /\ cost \in [Procs -> Nat]
  /\ attempt \in [Procs -> 0..MaxAttempts]
  /\ spent \in [Procs -> Nat] /\ charged \in Nat
  /\ commands \in 0..MaxCommands /\ orderly \in BOOLEAN

Zero == [p \in Procs |-> 0]

Init ==
  /\ ledger = Unreadable
  /\ pc = [p \in Procs |-> "idle"]
  /\ run = Zero /\ cumulative = Zero /\ est = Zero /\ cost = Zero
  /\ attempt = Zero /\ spent = Zero
  /\ charged = 0 /\ commands = 0 /\ orderly = TRUE

-----------------------------------------------------------------------------
Goto(p, label) == pc' = [pc EXCEPT ![p] = label]
Charge(p, c) ==
  /\ spent' = [spent EXCEPT ![p] = @ + c]
  /\ charged' = charged + c

\* _load: a file it cannot read counts as nothing spent.
Recorded == IF ledger = Unreadable THEN 0 ELSE ledger

\* BudgetLedger(settings), made anew by every command that plans.
Load(p) ==
  /\ pc[p] = "idle" /\ commands < MaxCommands
  /\ commands' = commands + 1
  /\ orderly' = (orderly /\ \A q \in Procs : pc[q] = "idle")
  /\ run' = [run EXCEPT ![p] = 0]
  /\ cumulative' = [cumulative EXCEPT ![p] = Recorded]
  /\ est' \in {[est EXCEPT ![p] = e] : e \in Estimates}
  /\ cost' = [cost EXCEPT ![p] = 0]
  /\ attempt' = [attempt EXCEPT ![p] = 0]
  /\ spent' = [spent EXCEPT ![p] = 0]
  /\ Goto(p, "check")
  /\ UNCHANGED <<ledger, charged>>

\* Mutant: the cumulative cap is not looked at.
PrecheckRunOnly(p) ==
  /\ pc[p] = "check"
  /\ Goto(p, IF run[p] + est[p] > RunCap THEN "idle" ELSE "post")
  /\ UNCHANGED <<ledger, run, cumulative, est, cost, attempt, spent, charged, commands, orderly>>

\* Mutant: the per-run cap is not looked at.
PrecheckTotalOnly(p) ==
  /\ pc[p] = "check"
  /\ Goto(p, IF cumulative[p] + est[p] > TotalCap THEN "idle" ELSE "post")
  /\ UNCHANGED <<ledger, run, cumulative, est, cost, attempt, spent, charged, commands, orderly>>

\* precheck: BudgetExceeded ends the command.
Precheck(p) ==
  /\ pc[p] = "check"
  /\ Goto(p, IF run[p] + est[p] > RunCap \/ cumulative[p] + est[p] > TotalCap
             THEN "idle" ELSE "post")
  /\ UNCHANGED <<ledger, run, cumulative, est, cost, attempt, spent, charged, commands, orderly>>

\* One attempt of _post_with_retries, and _parse of its answer.
\*   timeout    the client gave up, the provider charges what it produced
\*   retryable  429 or 5xx before anything was produced
\*   refused    401, 403 or another status: the command ends
\*   garbled    200 without JSON: AgentError
\*   invalid    a completion that is no plan: PlanRejected, before record
\*   unmetered  a plan whose answer has no usage: its cost is taken for 0
Post(p, answer, c) ==
  /\ pc[p] = "post"
  /\ answer = "plan" \/ answer \in Faults
  /\ c \in 0..est[p] /\ (answer \in {"retryable", "refused"} => c = 0)
  /\ attempt' = [attempt EXCEPT ![p] = @ + 1]
  /\ Charge(p, c)
  /\ orderly' = (orderly /\ (answer = "plan" \/ c = 0))
  /\ cost' = [cost EXCEPT ![p] = IF answer = "plan" THEN c ELSE 0]
  /\ Goto(p, CASE answer \in {"plan", "unmetered"}    -> "record"
               [] answer \in {"timeout", "retryable"} ->
                    IF attempt[p] + 1 < MaxAttempts THEN "post" ELSE "idle"
               [] OTHER                               -> "idle")
  /\ UNCHANGED <<ledger, run, cumulative, est, commands>>

\* record, up to its _save.
Record(p) ==
  /\ pc[p] = "record"
  /\ run' = [run EXCEPT ![p] = @ + cost[p]]
  /\ cumulative' = [cumulative EXCEPT ![p] = @ + cost[p]]
  /\ Goto(p, "save")
  /\ UNCHANGED <<ledger, est, cost, attempt, spent, charged, commands, orderly>>

\* _save: write_text opens the file, which empties it ...
OpenLedger(p) ==
  /\ pc[p] = "save"
  /\ ledger' = Unreadable
  /\ Goto(p, "writing")
  /\ UNCHANGED <<run, cumulative, est, cost, attempt, spent, charged, commands, orderly>>

\* Mutant: what this run spent is written, not the cumulative amount.
WriteRunSpend(p) ==
  /\ pc[p] = "writing"
  /\ ledger' = run[p]
  /\ Goto(p, "idle")
  /\ UNCHANGED <<run, cumulative, est, cost, attempt, spent, charged, commands, orderly>>

\* ... and then writes it.
WriteLedger(p) ==
  /\ pc[p] = "writing"
  /\ ledger' = cumulative[p]
  /\ Goto(p, "idle")
  /\ UNCHANGED <<run, cumulative, est, cost, attempt, spent, charged, commands, orderly>>

\* The process is killed, or a write fails.
Crash(p) ==
  /\ pc[p] # "idle" /\ pc[p] \in CrashAt
  /\ Goto(p, "idle")
  /\ orderly' = FALSE
  /\ UNCHANGED <<ledger, run, cumulative, est, cost, attempt, spent, charged, commands>>

-----------------------------------------------------------------------------
Next ==
  \E p \in Procs :
    \/ Load(p) \/ Precheck(p) \/ Record(p) \/ OpenLedger(p) \/ WriteLedger(p) \/ Crash(p)
    \/ \E answer \in Answers, c \in 0..est[p] : Post(p, answer, c)

Spec == Init /\ [][Next]_vars

-----------------------------------------------------------------------------
(* Properties                                                              *)

\* The provider is never owed more than the cumulative cap (budget.py:1, 29).
TotalSpendCapped == charged <= TotalCap

\* It is not as long as commands follow one another, unkilled, and every
\* completion charged for reaches record (planner/client.py:78 parses before 83 records).
OrderlySpendCapped == orderly => charged <= TotalCap

\* A command never spends more than the per-run cap (budget.py:1, 29); what
\* can break that are its own attempts, each checked for once and billed each
\* time, and there are at most three of them (planner/client.py:103-128).
RunSpendCapped ==
  \A p \in Procs : spent[p] <= RunCap * (IF orderly THEN 1 ELSE MaxAttempts)

\* Whatever races, fails or is lost, the amount in the ledger stays within the
\* cumulative cap: precheck looked at what record adds to.
LedgerWithinCap == ledger # Unreadable => ledger <= TotalCap

\* As long as commands are orderly the ledger accounts for every charge as soon
\* as no command runs.
LedgerTruthful ==
  orderly /\ (\A p \in Procs : pc[p] = "idle") => Recorded = charged
=============================================================================
