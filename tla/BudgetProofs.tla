---------------------------- MODULE BudgetProofs ----------------------------
(***************************************************************************)
(* Theorems about Budget for every set of processes, estimates and caps.   *)
(*                                                                         *)
(* However commands race, fail or are killed, what ledger.json says stays  *)
(* within the cumulative cap, and a command costs at most what its three   *)
(* attempts may.  That the ledger also is what the provider charged, and   *)
(* so that the caps bound the real spending, holds as long as commands     *)
(* have been orderly: until the first overlap, kill or completion that is  *)
(* billed and not recorded.                                                *)
(***************************************************************************)
EXTENDS Budget, TLAPS

-----------------------------------------------------------------------------
(* Inductive invariants                                                    *)

\* Another attempt is made only while there is one left.
AttemptsLeft == \A p \in Procs : pc[p] \in {"check", "post"} => attempt[p] < MaxAttempts

\* What precheck established still bounds what record will add to.
RoomLeft ==
  \A p \in Procs :
    /\ pc[p] \in {"post", "record"} => cumulative[p] + est[p] <= TotalCap
    /\ cost[p] <= est[p]
    /\ pc[p] \in {"save", "writing"} => cumulative[p] <= TotalCap

LedgerInv == TypeOK /\ AttemptsLeft /\ RoomLeft /\ LedgerWithinCap

\* Each attempt made was within the per-run cap.
SpentSoFar ==
  \A p \in Procs :
    /\ pc[p] \in {"post", "record"} => est[p] <= RunCap
    /\ pc[p] = "check" => attempt[p] = 0 /\ run[p] = 0 /\ spent[p] = 0
    /\ spent[p] <= RunCap * attempt[p]
    /\ orderly => spent[p] <= RunCap
    /\ orderly /\ pc[p] = "post" => spent[p] = 0

SpendInv == LedgerInv /\ SpentSoFar

Busy(p) == pc[p] # "idle"

\* Where the charged amount is, at each point of the only command.
Accounted ==
  orderly =>
    /\ \A p, q \in Procs : Busy(p) /\ Busy(q) => p = q
    /\ (\A p \in Procs : ~Busy(p)) => charged = Recorded
    /\ \A p \in Procs :
         /\ pc[p] \in {"check", "post"} => charged = Recorded
         /\ pc[p] \in {"check", "post", "record"} => cumulative[p] = Recorded
         /\ pc[p] = "record" => charged = Recorded + cost[p]
         /\ pc[p] \in {"save", "writing"} => charged = cumulative[p]

AccountInv == LedgerInv /\ Accounted

-----------------------------------------------------------------------------
\* The ledger holds an amount after each step, and the processes stay typed.
LEMMA TypeStep == TypeOK /\ AttemptsLeft /\ [Next]_vars => TypeOK'
<1> USE CapAssumption, MaxCommandsAssumption DEF MaxAttempts, PCs
<1> SUFFICES ASSUME TypeOK, AttemptsLeft, [Next]_vars PROVE TypeOK'
  OBVIOUS
<1>1. ASSUME NEW p \in Procs, Load(p) PROVE TypeOK'
  BY <1>1 DEF TypeOK, Load, Goto, Recorded
<1>2. ASSUME NEW p \in Procs, Precheck(p) PROVE TypeOK'
  BY <1>2 DEF TypeOK, Precheck, Goto
<1>3. ASSUME NEW p \in Procs, Record(p) PROVE TypeOK'
  BY <1>3 DEF TypeOK, Record, Goto
<1>4. ASSUME NEW p \in Procs, OpenLedger(p) PROVE TypeOK'
  BY <1>4 DEF TypeOK, OpenLedger, Goto
<1>5. ASSUME NEW p \in Procs, WriteLedger(p) PROVE TypeOK'
  BY <1>5 DEF TypeOK, WriteLedger, Goto
<1>6. ASSUME NEW p \in Procs, Crash(p) PROVE TypeOK'
  BY <1>6 DEF TypeOK, Crash, Goto
<1>7. ASSUME NEW p \in Procs, NEW answer \in Answers, NEW c \in 0..est[p], Post(p, answer, c)
      PROVE TypeOK'
  <2>1. attempt[p] < MaxAttempts
    BY <1>7 DEF AttemptsLeft, Post
  <2>2. attempt' \in [Procs -> 0..MaxAttempts]
    BY <2>1, <1>7 DEF TypeOK, Post
  <2>3. est[p] \in Nat /\ c \in Nat
    BY DEF TypeOK
  <2>4. spent' \in [Procs -> Nat] /\ charged' \in Nat /\ cost' \in [Procs -> Nat]
    BY <2>3, <1>7 DEF TypeOK, Post, Charge
  <2>5. pc' \in [Procs -> PCs]
    BY <1>7 DEF TypeOK, Post, Goto
  <2>6. QED
    BY <2>2, <2>4, <2>5, <1>7 DEF TypeOK, Post
<1>8. CASE UNCHANGED vars
  BY <1>8 DEF TypeOK, vars, local
<1>9. QED
  BY <1>1, <1>2, <1>3, <1>4, <1>5, <1>6, <1>7, <1>8 DEF Next

\* A fourth attempt is never begun.
LEMMA AttemptsStep == TypeOK /\ AttemptsLeft /\ [Next]_vars => AttemptsLeft'
<1> USE DEF TypeOK, AttemptsLeft, MaxAttempts
<1> SUFFICES ASSUME TypeOK, AttemptsLeft, [Next]_vars PROVE AttemptsLeft'
  OBVIOUS
<1>1. ASSUME NEW p \in Procs, Load(p) PROVE AttemptsLeft'
  BY <1>1 DEF Load, Goto
<1>2. ASSUME NEW p \in Procs, Precheck(p) PROVE AttemptsLeft'
  BY <1>2 DEF Precheck, Goto
<1>3. ASSUME NEW p \in Procs, Record(p) \/ OpenLedger(p) \/ WriteLedger(p) \/ Crash(p)
      PROVE AttemptsLeft'
  BY <1>3 DEF Record, OpenLedger, WriteLedger, Crash, Goto
<1>4. ASSUME NEW p \in Procs, NEW answer \in Answers, NEW c \in 0..est[p], Post(p, answer, c)
      PROVE AttemptsLeft'
  <2>1. CASE answer \in {"timeout", "retryable"}
    BY <2>1, <1>4 DEF Post, Goto
  <2>2. CASE answer \notin {"timeout", "retryable"}
    <3>1. pc'[p] \in {"record", "idle"}
      BY <2>2, <1>4 DEF Post, Goto
    <3>2. QED
      BY <3>1, <1>4 DEF Post, Goto
  <2>3. QED
    BY <2>1, <2>2
<1>5. CASE UNCHANGED vars
  BY <1>5 DEF vars, local
<1>6. QED
  BY <1>1, <1>2, <1>3, <1>4, <1>5 DEF Next

\* precheck leaves room for the estimate, a call costs no more than that.
LEMMA LedgerStep == LedgerInv /\ [Next]_vars => LedgerInv'
<1> USE CapAssumption DEF TypeOK, RoomLeft, LedgerWithinCap
<1> SUFFICES ASSUME LedgerInv, [Next]_vars PROVE (RoomLeft /\ LedgerWithinCap)'
  BY TypeStep, AttemptsStep DEF LedgerInv
<1>t. TypeOK /\ RoomLeft /\ LedgerWithinCap
  BY DEF LedgerInv
<1>1. ASSUME NEW p \in Procs, Load(p) PROVE (RoomLeft /\ LedgerWithinCap)'
  BY <1>1, <1>t DEF Load, Goto
<1>2. ASSUME NEW p \in Procs, Precheck(p) PROVE (RoomLeft /\ LedgerWithinCap)'
  BY <1>2, <1>t DEF Precheck, Goto
<1>3. ASSUME NEW p \in Procs, Record(p) PROVE (RoomLeft /\ LedgerWithinCap)'
  BY <1>3, <1>t DEF Record, Goto
<1>4. ASSUME NEW p \in Procs, OpenLedger(p) PROVE (RoomLeft /\ LedgerWithinCap)'
  BY <1>4, <1>t DEF OpenLedger, Goto
<1>5. ASSUME NEW p \in Procs, WriteLedger(p) PROVE (RoomLeft /\ LedgerWithinCap)'
  BY <1>5, <1>t DEF WriteLedger, Goto
<1>6. ASSUME NEW p \in Procs, Crash(p) PROVE (RoomLeft /\ LedgerWithinCap)'
  BY <1>6, <1>t DEF Crash, Goto
<1>7. ASSUME NEW p \in Procs, NEW answer \in Answers, NEW c \in 0..est[p], Post(p, answer, c)
      PROVE (RoomLeft /\ LedgerWithinCap)'
  BY <1>7, <1>t DEF Post, Charge, Goto
<1>8. CASE UNCHANGED vars
  BY <1>8, <1>t DEF vars, local
<1>9. QED
  BY <1>1, <1>2, <1>3, <1>4, <1>5, <1>6, <1>7, <1>8 DEF Next

\* Nothing is spent, and no ledger exists, at the start.
LEMMA LedgerInit == Init => LedgerInv
  BY CapAssumption, MaxCommandsAssumption
  DEF Init, Zero, LedgerInv, TypeOK, AttemptsLeft, RoomLeft, LedgerWithinCap, PCs, MaxAttempts

\* LedgerInv holds of every execution.
THEOREM LedgerInvariant == Spec => []LedgerInv
  BY LedgerInit, LedgerStep, PTL DEF Spec

\* Every variable of the budget keeps its type, for any number of commands.
THEOREM BudgetTypeCorrect == Spec => []TypeOK
<1>1. LedgerInv => TypeOK
  BY DEF LedgerInv
<1>2. QED
  BY <1>1, LedgerInvariant, PTL

\* However commands race, fail or are killed, the amount in ledger.json never
\* exceeds the cumulative cap.
THEOREM LedgerStaysWithinCap == Spec => []LedgerWithinCap
<1>1. LedgerInv => LedgerWithinCap
  BY DEF LedgerInv
<1>2. QED
  BY <1>1, LedgerInvariant, PTL

-----------------------------------------------------------------------------
\* precheck bounds an attempt by the per-run cap, and at most three are made.
LEMMA SpendStep == SpendInv /\ [Next]_vars => SpendInv'
<1> USE CapAssumption DEF TypeOK, SpentSoFar, MaxAttempts
<1> SUFFICES ASSUME SpendInv, [Next]_vars PROVE SpentSoFar'
  BY LedgerStep DEF SpendInv
<1>t. TypeOK /\ SpentSoFar
  BY DEF SpendInv, LedgerInv
<1>1. ASSUME NEW p \in Procs, Load(p) PROVE SpentSoFar'
  <2>1. RunCap * attempt'[p] = 0
    BY <1>1, <1>t DEF Load
  <2>2. QED
    BY <2>1, <1>1, <1>t DEF Load, Goto
<1>2. ASSUME NEW p \in Procs, Precheck(p) PROVE SpentSoFar'
  BY <1>2, <1>t DEF Precheck, Goto
<1>3. ASSUME NEW p \in Procs, Record(p) PROVE SpentSoFar'
  BY <1>3, <1>t DEF Record, Goto
<1>4. ASSUME NEW p \in Procs, OpenLedger(p) PROVE SpentSoFar'
  BY <1>4, <1>t DEF OpenLedger, Goto
<1>5. ASSUME NEW p \in Procs, WriteLedger(p) PROVE SpentSoFar'
  BY <1>5, <1>t DEF WriteLedger, Goto
<1>6. ASSUME NEW p \in Procs, Crash(p) PROVE SpentSoFar'
  BY <1>6, <1>t DEF Crash, Goto
<1>7. ASSUME NEW p \in Procs, NEW answer \in Answers, NEW c \in 0..est[p], Post(p, answer, c)
      PROVE SpentSoFar'
  <2>1. c \in Nat /\ c <= RunCap /\ est[p] <= RunCap
    BY <1>7, <1>t DEF Post
  <2>2. attempt'[p] = attempt[p] + 1 /\ attempt[p] \in Nat
    BY <1>7, <1>t DEF Post
  <2>3. RunCap * (attempt[p] + 1) = RunCap * attempt[p] + RunCap
    BY <2>2
  <2>4. spent[p] \in Nat /\ spent'[p] = spent[p] + c
    BY <1>7, <1>t DEF Post, Charge
  <2>5. RunCap * attempt[p] \in Nat
    BY <2>2
  <2>6. spent'[p] <= RunCap * attempt'[p]
    BY <2>1, <2>2, <2>3, <2>4, <2>5, <1>t
  <2>7. orderly' => spent'[p] <= RunCap
    BY <2>1, <2>4, <1>7, <1>t DEF Post
  <2>8. orderly' /\ pc'[p] = "post" => spent'[p] = 0
    <3>1. orderly' /\ pc'[p] = "post" => c = 0
      BY <1>7, <1>t DEF Post, Goto
    <3>2. QED
      BY <3>1, <2>4, <1>7, <1>t DEF Post
  <2>9. pc'[p] # "check"
    BY <1>7, <1>t DEF Post, Goto
  <2>10. QED
    BY <2>1, <2>6, <2>7, <2>8, <2>9, <1>7, <1>t DEF Post, Charge, Goto
<1>8. CASE UNCHANGED vars
  BY <1>8, <1>t DEF vars, local
<1>9. QED
  BY <1>1, <1>2, <1>3, <1>4, <1>5, <1>6, <1>7, <1>8 DEF Next

\* A command is charged at most its three attempts, and no more than the per-run
\* cap as long as commands are orderly.
THEOREM RunSpendIsCapped == Spec => []RunSpendCapped
<1>1. Init => SpendInv
  BY LedgerInit, CapAssumption DEF Init, Zero, SpendInv, SpentSoFar
<1>2. SpendInv => RunSpendCapped
  <2> SUFFICES ASSUME SpendInv, NEW p \in Procs
      PROVE spent[p] <= RunCap * (IF orderly THEN 1 ELSE MaxAttempts)
    BY DEF RunSpendCapped
  <2>1. attempt[p] \in 0..3 /\ spent[p] \in Nat /\ RunCap \in Nat
    BY CapAssumption DEF SpendInv, LedgerInv, TypeOK, MaxAttempts
  <2>2. spent[p] <= RunCap * attempt[p] /\ (orderly => spent[p] <= RunCap)
    BY DEF SpendInv, SpentSoFar
  <2>3. RunCap * attempt[p] <= RunCap * 3
    BY <2>1
  <2>4. CASE orderly
    BY <2>1, <2>2, <2>4
  <2>5. CASE ~orderly
    <3>1. spent[p] <= RunCap * 3
      BY <2>1, <2>2, <2>3
    <3>2. QED
      BY <3>1, <2>5 DEF MaxAttempts
  <2>6. QED
    BY <2>4, <2>5
<1>3. QED
  BY <1>1, <1>2, SpendStep, PTL DEF Spec

-----------------------------------------------------------------------------
\* Orderly commands move every charge into the ledger.
LEMMA AccountStep == AccountInv /\ [Next]_vars => AccountInv'
<1> USE CapAssumption DEF TypeOK, Accounted, Recorded, Busy
<1> SUFFICES ASSUME AccountInv, [Next]_vars, orderly' PROVE Accounted'
  BY LedgerStep DEF AccountInv
<1>t. TypeOK /\ Accounted
  BY DEF AccountInv, LedgerInv
<1>1. ASSUME NEW p \in Procs, Load(p) PROVE Accounted'
  <2>1. orderly /\ \A q \in Procs : pc[q] = "idle"
    BY <1>1 DEF Load
  <2>2. \A q \in Procs \ {p} : pc'[q] = "idle"
    BY <2>1, <1>1, <1>t DEF Load, Goto
  <2>3. pc'[p] = "check" /\ cumulative'[p] = Recorded /\ UNCHANGED <<ledger, charged>>
    BY <1>1, <1>t DEF Load, Goto
  <2>4. QED
    BY <2>1, <2>2, <2>3, <1>t
<1>2. ASSUME NEW p \in Procs, Precheck(p) PROVE Accounted'
  BY <1>2, <1>t DEF Precheck, Goto
<1>3. ASSUME NEW p \in Procs, Record(p) PROVE Accounted'
  BY <1>3, <1>t DEF Record, Goto
<1>4. ASSUME NEW p \in Procs, OpenLedger(p) PROVE Accounted'
  BY <1>4, <1>t DEF OpenLedger, Goto
<1>5. ASSUME NEW p \in Procs, WriteLedger(p) PROVE Accounted'
  BY <1>5, <1>t DEF WriteLedger, Goto
<1>6. ASSUME NEW p \in Procs, Crash(p) PROVE FALSE
  BY <1>6 DEF Crash
<1>7. ASSUME NEW p \in Procs, NEW answer \in Answers, NEW c \in 0..est[p], Post(p, answer, c)
      PROVE Accounted'
  <2>1. CASE answer = "plan"
    BY <2>1, <1>7, <1>t DEF Post, Charge, Goto
  <2>2. CASE answer # "plan"
    <3>1. c = 0 /\ orderly
      BY <2>2, <1>7 DEF Post
    <3>2. charged' = charged /\ cost'[p] = 0
      BY <3>1, <2>2, <1>7, <1>t DEF Post, Charge
    <3>3. pc'[p] \in {"idle", "post", "record"}
      BY <1>7, <1>t DEF Post, Goto
    <3>4. QED
      BY <3>1, <3>2, <3>3, <1>7, <1>t DEF Post, Goto
  <2>3. QED
    BY <2>1, <2>2
<1>8. CASE UNCHANGED vars
  BY <1>8, <1>t DEF vars, local
<1>9. QED
  BY <1>1, <1>2, <1>3, <1>4, <1>5, <1>6, <1>7, <1>8 DEF Next

\* AccountInv holds of every execution.
THEOREM AccountInvariant == Spec => []AccountInv
<1>1. Init => AccountInv
  BY LedgerInit DEF AccountInv, Init, Zero, Accounted, Recorded, Busy
<1>2. QED
  BY <1>1, AccountStep, PTL DEF Spec

\* As long as commands are orderly the ledger accounts for every charge.
THEOREM LedgerIsTruthful == Spec => []LedgerTruthful
<1>1. AccountInv => LedgerTruthful
  BY DEF AccountInv, Accounted, LedgerTruthful, Busy
<1>2. QED
  BY <1>1, AccountInvariant, PTL

\* As long as commands are orderly the cumulative cap bounds what the provider
\* charged.
THEOREM OrderlySpendIsCapped == Spec => []OrderlySpendCapped
<1>1. AccountInv => OrderlySpendCapped
  <2> SUFFICES ASSUME AccountInv, orderly PROVE charged <= TotalCap
    BY DEF OrderlySpendCapped
  <2> USE CapAssumption DEF AccountInv, Accounted, LedgerInv, RoomLeft, TypeOK
  <2>1. CASE \A p \in Procs : ~Busy(p)
    BY <2>1 DEF LedgerWithinCap, Recorded
  <2>2. CASE \E p \in Procs : Busy(p)
    <3>1. PICK q \in Procs : Busy(q)
      BY <2>2
    <3>2. CASE pc[q] = "record"
      BY <3>2
    <3>3. CASE pc[q] \in {"save", "writing"}
      BY <3>3
    <3>4. CASE pc[q] \in {"check", "post"}
      BY <3>4 DEF LedgerWithinCap, Recorded
    <3>5. QED
      BY <3>1, <3>2, <3>3, <3>4 DEF PCs, Busy
  <2>3. QED
    BY <2>1, <2>2
<1>2. QED
  BY <1>1, AccountInvariant, PTL
=============================================================================
