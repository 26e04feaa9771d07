-------------------------- MODULE AgentLoopProofs --------------------------
(***************************************************************************)
(* What the agent loop and the cost guard guarantee for any number of runs *)
(* and tools and any limits.  The budget can be overrun by what the runs   *)
(* hold that have passed its check and have not yet recorded their use;    *)
(* the invariant counts them.                                              *)
(***************************************************************************)
EXTENDS AgentLoop, FiniteSetTheorems, TLAPS

(* What the place a run has reached says about its local variables: how    *)
(* many calls its turn has made, whether its rate leaves room for another  *)
(* request, and whether an abort can have come before one of the calls.    *)
RunOK(r) ==
  /\ pending[r] => pc[r] = "tools"
  /\ turn[r] <= MaxTurns
  /\ calls[r] <= CallsPerTurn
  /\ pc[r] \in {"rate", "budget", "request"} => calls[r] = 0
  /\ requests[r] <= MaxRequests
  /\ pc[r] \in {"budget", "request"} => requests[r] < MaxRequests
  /\ pc[r] = "call" => attempt[r] <= Retries /\ calls[r] = attempt[r] + 1
  /\ pc[r] = "backoff" => attempt[r] < Retries /\ calls[r] = attempt[r] + 1
  /\ lateCalls[r] # 0 =>
       /\ aborted[r]
       /\ \/ pc[r] = "call" /\ lateCalls[r] = 1 /\ attempt[r] = 0
          \/ pc[r] = "backoff" /\ lateCalls[r] = 1
          \/ pc[r] = "fallback" /\ lateCalls[r] <= MostLate

RunsOK == \A r \in Runs : RunOK(r)

(* The runs that have passed the budget's check and not recorded their     *)
(* use.                                                                    *)
Spending == {r \in Runs : pc[r] \in {"request", "call", "backoff",
                                     "fallback", "usage"}}

SpendOK == spent + MaxCost * Cardinality(Spending)
             < Budget + MaxCost * Cardinality(Runs)

IInv == TypeOK /\ RunsOK /\ SpendOK

-----------------------------------------------------------------------------
(* The constants.                                                          *)
LEMMA Bounds ==
  /\ Retries \in Nat /\ CallsPerTurn \in Nat /\ MostLate \in Nat
  /\ Retries + 1 <= CallsPerTurn
  /\ HasFallback => Retries + 2 <= CallsPerTurn
  BY LoopConstants DEF Retries, CallsPerTurn, MostLate

(* Ending a run leaves well-typed variables.                               *)
LEMMA EndType ==
  ASSUME TypeOK, NEW r \in Runs, NEW s \in Statuses, End(r, s)
  PROVE  /\ pc' \in [Runs -> Pcs] /\ status' \in [Runs -> Statuses]
         /\ turn' \in [Runs -> Nat] /\ attempt' \in [Runs -> Nat]
         /\ asked' \in [Runs -> SUBSET Tools]
         /\ pending' \in [Runs -> BOOLEAN] /\ aborted' \in [Runs -> BOOLEAN]
         /\ requests' \in [Runs -> Nat]
         /\ calls' \in [Runs -> Nat] /\ lateCalls' \in [Runs -> Nat]
  BY DEF TypeOK, End, Goto, Pcs

(* Beginning a call leaves well-typed variables.                           *)
LEMMA BeginCallType ==
  ASSUME TypeOK, NEW r \in Runs, NEW p \in Pcs, BeginCall(r, p)
  PROVE  /\ pc' \in [Runs -> Pcs]
         /\ calls' \in [Runs -> Nat] /\ lateCalls' \in [Runs -> Nat]
  BY Bounds DEF TypeOK, BeginCall, Goto

(* Every step preserves the types.                                         *)
LEMMA TypeStep == TypeOK /\ [Next]_vars => TypeOK'
  <1> SUFFICES ASSUME TypeOK, [Next]_vars PROVE TypeOK'
    OBVIOUS
  <1> USE DEF TypeOK
  <1> DEFINE Locals == /\ turn' \in [Runs -> Nat] /\ attempt' \in [Runs -> Nat]
                       /\ asked' \in [Runs -> SUBSET Tools]
                       /\ pending' \in [Runs -> BOOLEAN]
                       /\ aborted' \in [Runs -> BOOLEAN]
                       /\ requests' \in [Runs -> Nat]
                       /\ calls' \in [Runs -> Nat]
                       /\ lateCalls' \in [Runs -> Nat]
             Control == /\ pc' \in [Runs -> Pcs]
                        /\ status' \in [Runs -> Statuses]
  <1>0. ASSUME NEW r \in Runs, NEW p \in Pcs, GoOn(r, p)
        PROVE  Control
    BY <1>0 DEF GoOn, Goto
  <1>1. ASSUME NEW r \in Runs, Start(r) PROVE TypeOK'
    BY <1>1 DEF Start, Goto, Pcs, Statuses, locals, history
  <1>2. ASSUME NEW r \in Runs, Begin(r) PROVE TypeOK'
    <2>1. CASE aborted[r] /\ End(r, "aborted")
      BY <1>2, <2>1, EndType DEF Begin, Statuses
    <2>2. CASE GoOn(r, "loop") /\ UNCHANGED locals
      BY <1>2, <2>2, <1>0 DEF Begin, locals, history, Pcs
    <2> QED BY <1>2, <2>1, <2>2 DEF Begin
  <1>3. ASSUME NEW r \in Runs, Throw(r) PROVE TypeOK'
    BY <1>3, EndType DEF Throw, Statuses
  <1>4. ASSUME NEW r \in Runs, NextTurn(r) PROVE TypeOK'
    <2>1. CASE End(r, "max_turns")
      BY <1>4, <2>1, EndType DEF NextTurn, Statuses
    <2>2. CASE turn[r] + 1 <= MaxTurns /\ ~End(r, "max_turns")
      <3>1. Control BY <1>4, <2>2, <1>0 DEF NextTurn, Pcs
      <3> QED BY <1>4, <2>2, <3>1 DEF NextTurn, history
    <2> QED BY <1>4, <2>1, <2>2 DEF NextTurn
  <1>5. ASSUME NEW r \in Runs, CheckRate(r) PROVE TypeOK'
    <2>1. CASE End(r, "failed")
      BY <1>5, <2>1, EndType DEF CheckRate, Statuses
    <2>2. CASE GoOn(r, "budget") /\ UNCHANGED locals
      BY <1>5, <2>2, <1>0 DEF CheckRate, locals, history, Pcs
    <2> QED BY <1>5, <2>1, <2>2 DEF CheckRate
  <1>6. ASSUME NEW r \in Runs, CheckBudget(r) PROVE TypeOK'
    <2>1. CASE End(r, "budget_exceeded")
      BY <1>6, <2>1, EndType DEF CheckBudget, Statuses
    <2>2. CASE GoOn(r, "request") /\ UNCHANGED locals
      BY <1>6, <2>2, <1>0 DEF CheckBudget, locals, history, Pcs
    <2> QED BY <1>6, <2>1, <2>2 DEF CheckBudget
  <1>7. ASSUME NEW r \in Runs, RecordRequest(r) PROVE TypeOK'
    BY <1>7, BeginCallType DEF RecordRequest, Pcs
  <1>8. ASSUME NEW r \in Runs, Answer(r) PROVE TypeOK'
    <2>1. Control BY <1>8, <1>0 DEF Answer, Pcs
    <2> QED BY <1>8, <2>1 DEF Answer, history
  <1>9. ASSUME NEW r \in Runs, AbortSeen(r) \/ CallRefused(r) PROVE TypeOK'
    BY <1>9, EndType DEF AbortSeen, CallRefused, Statuses
  <1>10. ASSUME NEW r \in Runs, CallFails(r) PROVE TypeOK'
    <2>1. CASE End(r, "failed")
      BY <1>10, <2>1, EndType DEF CallFails, Statuses
    <2>2. CASE GoOn(r, "backoff") /\ UNCHANGED locals
      BY <1>10, <2>2, <1>0 DEF CallFails, locals, history, Pcs
    <2>3. CASE BeginCall(r, "fallback")
               /\ UNCHANGED <<status, turn, attempt, asked, pending, aborted,
                              requests>>
      BY <1>10, <2>3, BeginCallType DEF CallFails, Pcs
    <2> QED BY <1>10, <2>1, <2>2, <2>3 DEF CallFails
  <1>11. ASSUME NEW r \in Runs, Backoff(r) PROVE TypeOK'
    <2>1. CASE End(r, "failed")
      BY <1>11, <2>1, EndType DEF Backoff, Statuses
    <2>2. CASE /\ attempt' = [attempt EXCEPT ![r] = AttemptAfter(r)]
               /\ BeginCall(r, "call")
               /\ UNCHANGED <<status, turn, asked, pending, aborted,
                              requests>>
      BY <1>11, <2>2, BeginCallType DEF Backoff, AttemptAfter, Pcs
    <2> QED BY <1>11, <2>1, <2>2 DEF Backoff
  <1>12. ASSUME NEW r \in Runs, RecordUsage(r) PROVE TypeOK'
    <2>1. spent' \in Nat BY <1>12, LoopConstants DEF RecordUsage
    <2>2. ASSUME NEW s \in {"failed", "completed"}, End(r, s) PROVE TypeOK'
      BY <1>12, <2>1, <2>2, EndType DEF RecordUsage, Statuses
    <2>3. CASE GoOn(r, "tools") /\ UNCHANGED locals
      BY <1>12, <2>1, <2>3, <1>0 DEF RecordUsage, locals, history, Pcs
    <2> QED BY <1>12, <2>2, <2>3 DEF RecordUsage
  <1>13. ASSUME NEW r \in Runs, NEW t \in Tools, AskHuman(r, t) PROVE TypeOK'
    BY <1>13 DEF AskHuman, Waiting, Statuses, history
  <1>14. ASSUME NEW r \in Runs, NEW t \in Tools, ToolResult(r, t)
         PROVE  TypeOK'
    BY <1>14 DEF ToolResult, history
  <1>15. ASSUME NEW r \in Runs, ToolsDone(r) PROVE TypeOK'
    <2>1. CASE End(r, status[r])
      BY <1>15, <2>1, EndType DEF ToolsDone
    <2>2. CASE GoOn(r, "loop") /\ UNCHANGED locals
      BY <1>15, <2>2, <1>0 DEF ToolsDone, locals, history, Pcs
    <2> QED BY <1>15, <2>1, <2>2 DEF ToolsDone
  <1>16. ASSUME NEW r \in Runs, Abort(r) PROVE TypeOK'
    BY <1>16 DEF Abort, history
  <1>17. CASE NewWindow
    BY <1>17 DEF NewWindow, locals, history
  <1>18. CASE UNCHANGED vars
    BY <1>18 DEF vars, locals, history
  <1> QED
    BY <1>1, <1>2, <1>3, <1>4, <1>5, <1>6, <1>7, <1>8, <1>9, <1>10, <1>11,
       <1>12, <1>13, <1>14, <1>15, <1>16, <1>17, <1>18
       DEF Next, RunStep, CallStep

-----------------------------------------------------------------------------
(* A step is a step of one run: what is known of the others stays true.    *)
Same(q) ==
  /\ pc'[q] = pc[q] /\ turn'[q] = turn[q] /\ attempt'[q] = attempt[q]
  /\ pending'[q] = pending[q] /\ aborted'[q] = aborted[q]
  /\ requests'[q] = requests[q]
  /\ calls'[q] = calls[q] /\ lateCalls'[q] = lateCalls[q]

(* What is known of the runs holds after a step that keeps one of them in  *)
(* order and leaves the others alone.                                      *)
LEMMA RunFrame ==
  ASSUME RunsOK, NEW r \in Runs, RunOK(r)', \A q \in Runs \ {r} : Same(q)
  PROVE  RunsOK'
  BY DEF RunsOK, RunOK, Same

(* A run that has ended is in order.                                       *)
LEMMA EndRun ==
  ASSUME TypeOK, RunsOK, NEW r \in Runs, NEW s, End(r, s)
  PROVE  RunsOK'
  <1>1. RunOK(r)'
    BY Bounds, LoopConstants DEF TypeOK, RunOK, End, Goto
  <1>2. \A q \in Runs \ {r} : Same(q)
    BY DEF TypeOK, Same, End, Goto
  <1> QED BY <1>1, <1>2, RunFrame

(* So is one that goes on with its local variables unchanged, unless the   *)
(* place it goes to asks more of them.                                     *)
LEMMA GoOnRun ==
  ASSUME TypeOK, RunsOK, NEW r \in Runs, NEW p, GoOn(r, p), UNCHANGED locals,
         pending[r] => p = "tools",
         p \in {"rate", "budget", "request"} => calls[r] = 0,
         p \in {"budget", "request"} => requests[r] < MaxRequests,
         p \notin {"call", "backoff"},
         lateCalls[r] = 0
  PROVE  RunsOK'
  <1>1. RunOK(r)'
    BY DEF TypeOK, RunsOK, RunOK, GoOn, Goto, locals, history
  <1>2. \A q \in Runs \ {r} : Same(q)
    BY DEF TypeOK, Same, GoOn, Goto, locals, history
  <1> QED BY <1>1, <1>2, RunFrame

(* Every step keeps the runs in order.                                     *)
LEMMA RunsStep == TypeOK /\ RunsOK /\ [Next]_vars => RunsOK'
  <1> SUFFICES ASSUME TypeOK, RunsOK, [Next]_vars PROVE RunsOK'
    OBVIOUS
  <1>1. ASSUME NEW r \in Runs, Start(r) PROVE RunsOK'
    <2>1. RunOK(r)'
      BY <1>1 DEF TypeOK, RunsOK, RunOK, Start, Goto, locals, history
    <2>2. \A q \in Runs \ {r} : Same(q)
      BY <1>1 DEF TypeOK, Same, Start, Goto, locals, history
    <2> QED BY <2>1, <2>2, RunFrame
  <1>2. ASSUME NEW r \in Runs, Begin(r) PROVE RunsOK'
    BY <1>2, EndRun, GoOnRun DEF Begin, RunsOK, RunOK
  <1>3. ASSUME NEW r \in Runs, Throw(r) PROVE RunsOK'
    BY <1>3, EndRun DEF Throw
  <1>4. ASSUME NEW r \in Runs, NextTurn(r) PROVE RunsOK'
    <2>1. CASE End(r, "max_turns")
      BY <2>1, EndRun
    <2>2. CASE ~End(r, "max_turns")
      <3>1. RunOK(r)'
        BY <1>4, <2>2, Bounds, LoopConstants
           DEF TypeOK, RunsOK, RunOK, NextTurn, GoOn, Goto
      <3>2. \A q \in Runs \ {r} : Same(q)
        BY <1>4, <2>2 DEF TypeOK, Same, NextTurn, GoOn, Goto
      <3> QED BY <3>1, <3>2, RunFrame
    <2> QED BY <2>1, <2>2
  <1>5. ASSUME NEW r \in Runs, CheckRate(r) PROVE RunsOK'
    BY <1>5, EndRun, GoOnRun DEF CheckRate, RunsOK, RunOK
  <1>6. ASSUME NEW r \in Runs, CheckBudget(r) PROVE RunsOK'
    BY <1>6, EndRun, GoOnRun DEF CheckBudget, RunsOK, RunOK
  <1>7. ASSUME NEW r \in Runs, RecordRequest(r) PROVE RunsOK'
    <2>1. RunOK(r)'
      BY <1>7, Bounds, LoopConstants
         DEF TypeOK, RunsOK, RunOK, RecordRequest, BeginCall, Goto, MostLate
    <2>2. \A q \in Runs \ {r} : Same(q)
      BY <1>7 DEF TypeOK, Same, RecordRequest, BeginCall, Goto
    <2> QED BY <2>1, <2>2, RunFrame
  <1>8. ASSUME NEW r \in Runs, Answer(r) PROVE RunsOK'
    <2>1. RunOK(r)'
      BY <1>8 DEF TypeOK, RunsOK, RunOK, Answer, InCall, GoOn, Goto, history
    <2>2. \A q \in Runs \ {r} : Same(q)
      BY <1>8 DEF TypeOK, Same, Answer, GoOn, Goto, history
    <2> QED BY <2>1, <2>2, RunFrame
  <1>9. ASSUME NEW r \in Runs, AbortSeen(r) \/ CallRefused(r) PROVE RunsOK'
    BY <1>9, EndRun DEF AbortSeen, CallRefused
  <1>10. ASSUME NEW r \in Runs, CallFails(r) PROVE RunsOK'
    <2>1. CASE End(r, "failed")
      BY <2>1, EndRun
    <2>2. ASSUME pc[r] = "call", attempt[r] < Retries, GoOn(r, "backoff"),
                 UNCHANGED locals
          PROVE  RunsOK'
      <3>1. RunOK(r)'
        BY <2>2, Bounds DEF TypeOK, RunsOK, RunOK, GoOn, Goto, locals, history
      <3>2. \A q \in Runs \ {r} : Same(q)
        BY <2>2 DEF TypeOK, Same, GoOn, Goto, locals, history
      <3> QED BY <3>1, <3>2, RunFrame
    <2>3. ASSUME pc[r] = "call", attempt[r] >= Retries, HasFallback,
                 BeginCall(r, "fallback"),
                 UNCHANGED <<status, turn, attempt, asked, pending, aborted,
                              requests>>
          PROVE  RunsOK'
      <3>1. RunOK(r)'
        BY <2>3, Bounds
           DEF TypeOK, RunsOK, RunOK, BeginCall, Goto, MostLate
      <3>2. \A q \in Runs \ {r} : Same(q)
        BY <2>3 DEF TypeOK, Same, BeginCall, Goto
      <3> QED BY <3>1, <3>2, RunFrame
    <2> QED BY <1>10, <2>1, <2>2, <2>3 DEF CallFails
  <1>11. ASSUME NEW r \in Runs, Backoff(r) PROVE RunsOK'
    <2>1. CASE End(r, "failed")
      BY <2>1, EndRun
    <2>2. CASE ~End(r, "failed")
      <3>1. RunOK(r)'
        BY <1>11, <2>2, Bounds
           DEF TypeOK, RunsOK, RunOK, Backoff, StopsAtBackoff, AttemptAfter,
               BeginCall, Goto
      <3>2. \A q \in Runs \ {r} : Same(q)
        BY <1>11, <2>2 DEF TypeOK, Same, Backoff, AttemptAfter, BeginCall, Goto
      <3> QED BY <3>1, <3>2, RunFrame
    <2> QED BY <2>1, <2>2
  <1>12. ASSUME NEW r \in Runs, RecordUsage(r) PROVE RunsOK'
    BY <1>12, EndRun, GoOnRun DEF RecordUsage, RunsOK, RunOK
  <1>13. ASSUME NEW r \in Runs, NEW t \in Tools,
                AskHuman(r, t) \/ ToolResult(r, t)
         PROVE  RunsOK'
    <2>1. RunOK(r)'
      BY <1>13 DEF TypeOK, RunsOK, RunOK, AskHuman, ToolResult, history
    <2>2. \A q \in Runs \ {r} : Same(q)
      BY <1>13 DEF TypeOK, Same, AskHuman, ToolResult, history
    <2> QED BY <2>1, <2>2, RunFrame
  <1>14. ASSUME NEW r \in Runs, ToolsDone(r) PROVE RunsOK'
    BY <1>14, EndRun, GoOnRun DEF ToolsDone, WaitsForHuman, RunsOK, RunOK
  <1>15. ASSUME NEW r \in Runs, Abort(r) PROVE RunsOK'
    <2>1. RunOK(r)'
      BY <1>15 DEF TypeOK, RunsOK, RunOK, Abort, history
    <2>2. \A q \in Runs \ {r} : Same(q)
      BY <1>15 DEF TypeOK, Same, Abort, history
    <2> QED BY <2>1, <2>2, RunFrame
  <1>16. CASE NewWindow
    <2>1. \A r \in Runs : requests'[r] \in Nat /\ requests'[r] <= requests[r]
      BY <1>16 DEF TypeOK, NewWindow
    <2>2. \A r \in Runs : RunOK(r)'
      <3> TAKE r \in Runs
      <3>1. RunOK(r) BY DEF RunsOK
      <3>2. /\ pc'[r] = pc[r] /\ turn'[r] = turn[r]
            /\ attempt'[r] = attempt[r] /\ pending'[r] = pending[r]
            /\ aborted'[r] = aborted[r]
            /\ calls'[r] = calls[r] /\ lateCalls'[r] = lateCalls[r]
        BY <1>16 DEF NewWindow, history
      <3>3. /\ requests[r] <= MaxRequests => requests'[r] <= MaxRequests
            /\ requests[r] < MaxRequests => requests'[r] < MaxRequests
        BY <2>1, LoopConstants DEF TypeOK
      <3> QED BY <3>1, <3>2, <3>3 DEF RunOK
    <2> QED BY <2>2 DEF RunsOK
  <1>17. CASE UNCHANGED vars
    BY <1>17 DEF vars, locals, history, RunsOK, RunOK
  <1> QED
    BY <1>1, <1>2, <1>3, <1>4, <1>5, <1>6, <1>7, <1>8, <1>9, <1>10, <1>11,
       <1>12, <1>13, <1>14, <1>15, <1>16, <1>17
       DEF Next, RunStep, CallStep

-----------------------------------------------------------------------------
(* Counting the runs between a check and the record of their use.          *)

LEMMA Times ==
  ASSUME NEW c \in Nat, NEW a \in Nat, NEW b \in Nat
  PROVE  /\ c * a \in Nat
         /\ a <= b => c * a <= c * b
         /\ a = b + 1 => c * a = c * b + c
  OBVIOUS

(* Sets of runs are finite, and counted.                                   *)
LEMMA Subsets ==
  ASSUME NEW S \in SUBSET Runs, NEW T \in SUBSET S
  PROVE  /\ IsFiniteSet(S)
         /\ Cardinality(T) \in Nat /\ Cardinality(S) \in Nat
         /\ Cardinality(Runs) \in Nat
         /\ Cardinality(T) <= Cardinality(S)
         /\ Cardinality(S) <= Cardinality(Runs)
         /\ \A r \in S : Cardinality(S) = Cardinality(S \ {r}) + 1
  BY LoopConstants, FS_Subset, FS_CardinalityType, FS_RemoveElement

(* Nothing is spent, and no run passes the check.                          *)
LEMMA SpendKept ==
  ASSUME TypeOK, SpendOK, spent' \in Nat, spent' <= spent,
         Spending' \subseteq Spending
  PROVE  SpendOK'
  <1>1. Spending \in SUBSET Runs /\ Spending' \in SUBSET Spending
    BY DEF Spending
  <1> DEFINE n == Cardinality(Spending)
             m == Cardinality(Spending')
  <1>2. n \in Nat /\ m \in Nat /\ m <= n /\ Cardinality(Runs) \in Nat
    BY <1>1, Subsets
  <1>3. /\ MaxCost * m \in Nat /\ MaxCost * n \in Nat
        /\ MaxCost * Cardinality(Runs) \in Nat
        /\ MaxCost * m <= MaxCost * n
    BY <1>2, Times, LoopConstants
  <1> HIDE DEF n, m
  <1>4. spent + MaxCost * n < Budget + MaxCost * Cardinality(Runs)
    BY DEF SpendOK, n
  <1>5. spent' + MaxCost * m < Budget + MaxCost * Cardinality(Runs)
    BY <1>3, <1>4, LoopConstants DEF TypeOK
  <1> QED BY <1>5 DEF SpendOK, m

(* Every step keeps what is spent, with what the runs hold, in bounds.     *)
LEMMA SpendStep == TypeOK /\ SpendOK /\ [Next]_vars => SpendOK'
  <1> SUFFICES ASSUME TypeOK, SpendOK, [Next]_vars PROVE SpendOK'
    OBVIOUS
  <1>0. TypeOK' BY TypeStep
  <1>1. ASSUME NEW r \in Runs, CheckBudget(r) PROVE SpendOK'
    <2>1. CASE End(r, "budget_exceeded")
      BY <1>1, <2>1, SpendKept
         DEF TypeOK, CheckBudget, End, Goto, Spending
    <2>2. CASE ~End(r, "budget_exceeded")
      <3>1. spent' = spent /\ spent < Budget
        BY <1>1, <2>2, LoopConstants DEF TypeOK, CheckBudget, OverBudget
      <3>2. Spending' \in SUBSET Runs BY DEF Spending
      <3> DEFINE m == Cardinality(Spending')
      <3>3. /\ m \in Nat /\ Cardinality(Runs) \in Nat
            /\ m <= Cardinality(Runs)
        BY <3>2, Subsets
      <3>4. /\ MaxCost * m \in Nat /\ MaxCost * Cardinality(Runs) \in Nat
            /\ MaxCost * m <= MaxCost * Cardinality(Runs)
        BY <3>3, Times, LoopConstants
      <3> HIDE DEF m
      <3>5. spent' + MaxCost * m < Budget + MaxCost * Cardinality(Runs)
        BY <3>1, <3>4, LoopConstants DEF TypeOK
      <3> QED BY <3>5 DEF SpendOK, m
    <2> QED BY <2>1, <2>2
  <1>2. ASSUME NEW r \in Runs, RecordUsage(r) PROVE SpendOK'
    <2>1. r \in Spending /\ Spending' = Spending \ {r}
      BY <1>2 DEF TypeOK, RecordUsage, End, GoOn, Goto, Spending
    <2>2. Spending \in SUBSET Runs /\ Spending' \in SUBSET Spending
      BY <2>1 DEF Spending
    <2> DEFINE n == Cardinality(Spending)
               m == Cardinality(Spending')
    <2>3. n \in Nat /\ m \in Nat /\ n = m + 1 /\ Cardinality(Runs) \in Nat
      BY <2>1, <2>2, Subsets
    <2>4. /\ MaxCost * m \in Nat /\ MaxCost * n = MaxCost * m + MaxCost
          /\ MaxCost * Cardinality(Runs) \in Nat
      BY <2>3, Times, LoopConstants
    <2>5. spent' \in Nat /\ spent' <= spent + MaxCost
      BY <1>2, LoopConstants DEF TypeOK, RecordUsage
    <2> HIDE DEF n, m
    <2>6. spent + MaxCost * n < Budget + MaxCost * Cardinality(Runs)
      BY DEF SpendOK, n
    <2>7. spent' + MaxCost * m < Budget + MaxCost * Cardinality(Runs)
      BY <2>4, <2>5, <2>6, LoopConstants DEF TypeOK
    <2> QED BY <2>7 DEF SpendOK, m
  <1>3. ASSUME NEW r \in Runs,
               \/ Start(r) \/ Begin(r) \/ Throw(r) \/ NextTurn(r)
               \/ CheckRate(r) \/ RecordRequest(r) \/ ToolsDone(r)
               \/ Abort(r) \/ CallStep(r)
               \/ \E t \in Tools : AskHuman(r, t) \/ ToolResult(r, t)
        PROVE  SpendOK'
    <2>1. spent' = spent
      BY <1>3 DEF Start, Begin, Throw, NextTurn, CheckRate, RecordRequest,
           ToolsDone, Abort, CallStep, Answer, AbortSeen, CallFails,
           CallRefused, Backoff, AskHuman, ToolResult
    <2>2. \A q \in Runs : pc'[q] = pc[q] \/ pc'[q] \notin
            {"request", "call", "backoff", "fallback", "usage"}
            \/ q \in Spending
      <3>1. CASE CallStep(r)
        BY <3>1 DEF TypeOK, CallStep, Answer, AbortSeen, CallFails,
             CallRefused, Backoff, InCall, BeginCall, End, GoOn, Goto, Spending
      <3>2. CASE ~CallStep(r)
        BY <1>3, <3>2 DEF TypeOK, Start, Begin, Throw, NextTurn, CheckRate,
             RecordRequest, ToolsDone, Abort, AskHuman, ToolResult, BeginCall,
             End, GoOn, Goto, Spending
      <3> QED BY <3>1, <3>2
    <2> QED BY <2>1, <2>2, <1>0, SpendKept DEF Spending, TypeOK
  <1>4. CASE NewWindow
    BY <1>4, SpendKept, <1>0 DEF NewWindow, Spending, TypeOK
  <1>5. CASE UNCHANGED vars
    BY <1>5, SpendKept, <1>0 DEF vars, Spending, TypeOK
  <1> QED BY <1>1, <1>2, <1>3, <1>4, <1>5 DEF Next, RunStep

-----------------------------------------------------------------------------
(* The inductive invariant.                                                *)

LEMMA InitInv == Init => IInv
  <1> SUFFICES ASSUME Init PROVE IInv
    OBVIOUS
  <1>1. TypeOK
    BY DEF Init, TypeOK, Pcs, Statuses
  <1>2. RunsOK
    BY Bounds, LoopConstants DEF Init, RunsOK, RunOK
  <1>3. Cardinality(Runs) \in Nat
    BY LoopConstants, FS_CardinalityType
  <1>4. SpendOK
    <2>1. Spending = {} BY DEF Init, Spending
    <2>2. Cardinality(Spending) = 0 BY <2>1, FS_EmptySet
    <2>3. MaxCost * Cardinality(Runs) \in Nat /\ MaxCost * 0 = 0
      BY <1>3, Times, LoopConstants
    <2> QED BY <2>2, <2>3, LoopConstants DEF Init, SpendOK
  <1> QED BY <1>1, <1>2, <1>4 DEF IInv

(* The invariant holds in every behaviour of the loop.                     *)
THEOREM Inductive == Spec => []IInv
  <1>1. IInv /\ [Next]_vars => IInv'
    BY TypeStep, RunsStep, SpendStep DEF IInv
  <1> QED BY <1>1, InitInv, PTL DEF Spec

-----------------------------------------------------------------------------
(* The theorems.                                                           *)

(* Every variable keeps its type, whatever the providers, the tools and    *)
(* the limits answer.                                                      *)
THEOREM TypeCorrect == Spec => []TypeOK
  <1>1. IInv => TypeOK BY DEF IInv
  <1> QED BY <1>1, Inductive, PTL

(* With any number of runs the budget is overrun by less than one call's   *)
(* cost per run in progress, and no run makes more requests than the rate  *)
(* allows.                                                                 *)
THEOREM OverrunIsBounded == Spec => []LimitsHold
  <1>1. ASSUME IInv PROVE LimitsHold
    <2>1. Cardinality(Spending) \in Nat /\ Cardinality(Runs) \in Nat
      BY Subsets DEF Spending
    <2>2. /\ MaxCost * Cardinality(Spending) \in Nat
          /\ MaxCost * Cardinality(Runs) \in Nat
      BY <2>1, Times, LoopConstants
    <2>3. spent < Budget + MaxCost * Cardinality(Runs)
      BY <1>1, <2>1, <2>2, LoopConstants DEF IInv, TypeOK, SpendOK
    <2>4. \A r \in Runs : requests[r] <= MaxRequests
      BY <1>1 DEF IInv, RunsOK, RunOK
    <2> QED BY <2>3, <2>4 DEF LimitsHold
  <1> QED BY <1>1, Inductive, PTL

(* No call of the model follows an approval request of the same run.       *)
THEOREM ApprovalStopsEveryRun == Spec => []ApprovalStopsRun
  <1>1. IInv => ApprovalStopsRun
    BY DEF IInv, RunsOK, RunOK, ApprovalStopsRun
  <1> QED BY <1>1, Inductive, PTL

(* After an abort at most one more call goes out, or two without retries.  *)
THEOREM AbortIsHeededByEveryRun == Spec => []AbortIsHeeded
  <1>1. IInv => AbortIsHeeded
    BY Bounds DEF IInv, RunsOK, RunOK, AbortIsHeeded, TypeOK, MostLate
  <1> QED BY <1>1, Inductive, PTL

(* The retries, the fallback and the turns bound what a run can ask of the *)
(* providers.                                                              *)
THEOREM CallsStayBounded == Spec => []CallsAreBounded
  <1>1. IInv => CallsAreBounded
    BY DEF IInv, RunsOK, RunOK, CallsAreBounded
  <1> QED BY <1>1, Inductive, PTL

-----------------------------------------------------------------------------
(* A run's steps are counted.  The steps that are left of a turn, at each  *)
(* place: a tool call each, an attempt and its backoff for each retry, one *)
(* call to the fallback.  A turn is worth more than all of its steps.      *)

StepsOfTurn == 8 + MaxToolCalls + 2 * Retries

StepsAt(p, a, tools) ==
  CASE p = "begin"    -> 1
    [] p = "rate"     -> 7 + MaxToolCalls + 2 * Retries
    [] p = "budget"   -> 6 + MaxToolCalls + 2 * Retries
    [] p = "request"  -> 5 + MaxToolCalls + 2 * Retries
    [] p = "call"     -> 4 + MaxToolCalls + 2 * (Retries - a)
    [] p = "backoff"  -> 3 + MaxToolCalls + 2 * (Retries - a)
    [] p = "fallback" -> 3 + MaxToolCalls
    [] p = "usage"    -> 2 + MaxToolCalls
    [] p = "tools"    -> 1 + Cardinality(tools)
    [] OTHER          -> 0

StepsLeft(r) == StepsOfTurn * (MaxTurns - turn[r])
                  + StepsAt(pc[r], attempt[r], asked[r])
MaxSteps     == StepsOfTurn * MaxTurns + 1
Ended(r)     == pc[r] = "idle"

(* A run that has been started has at most so many steps before it.        *)
StepsOK == \A r \in Runs : ~Ended(r) => StepsLeft(r) \in 0..MaxSteps

(* Whatever the providers, the tools, the caller and the other runs do, a  *)
(* step of a run ends it or leaves it fewer steps, and nothing gives it    *)
(* steps back.                                                             *)
CountsDown(r) ==
  /\ RunStep(r) \/ Throw(r) => Ended(r)' \/ StepsLeft(r)' < StepsLeft(r)
  /\ ~Ended(r) => Ended(r)' \/ StepsLeft(r)' <= StepsLeft(r)
StepsCountDown == [][\A r \in Runs : CountsDown(r)]_vars

(* What the count rests on: a run begins with its first turn, and no more  *)
(* tools are resolved than a turn may call.                                *)
LastOK(r) ==
  /\ pc[r] \in {"idle", "begin"} => turn[r] = 0
  /\ pc[r] \notin {"idle", "begin", "loop"} => turn[r] >= 1
  /\ pc[r] = "tools" => Cardinality(asked[r]) <= MaxToolCalls
SInv == IInv /\ \A r \in Runs : LastOK(r)

(* The steps left at each place.                                           *)
LEMMA Places ==
  ASSUME NEW a, NEW tools
  PROVE  /\ StepsAt("begin", a, tools) = 1 /\ StepsAt("loop", a, tools) = 0
         /\ StepsAt("rate", a, tools) = 7 + MaxToolCalls + 2 * Retries
         /\ StepsAt("budget", a, tools) = 6 + MaxToolCalls + 2 * Retries
         /\ StepsAt("request", a, tools) = 5 + MaxToolCalls + 2 * Retries
         /\ StepsAt("call", a, tools) = 4 + MaxToolCalls + 2 * (Retries - a)
         /\ StepsAt("backoff", a, tools) = 3 + MaxToolCalls + 2 * (Retries - a)
         /\ StepsAt("fallback", a, tools) = 3 + MaxToolCalls
         /\ StepsAt("usage", a, tools) = 2 + MaxToolCalls
         /\ StepsAt("tools", a, tools) = 1 + Cardinality(tools)
  BY DEF StepsAt

(* Tools that are resolved are fewer than before.                          *)
LEMMA FewerTools ==
  ASSUME TypeOK, NEW r \in Runs
  PROVE  /\ Cardinality(asked[r]) \in Nat
         /\ \A t \in asked[r] : /\ Cardinality(asked[r] \ {t}) \in Nat
                                /\ Cardinality(asked[r] \ {t})
                                     < Cardinality(asked[r])
  <1>1. asked[r] \subseteq Tools
    BY DEF TypeOK
  <1>2. IsFiniteSet(asked[r])
    BY <1>1, LoopConstants, FS_Subset
  <1>3. ASSUME NEW t \in asked[r]
        PROVE  /\ Cardinality(asked[r] \ {t}) \in Nat
               /\ Cardinality(asked[r] \ {t}) < Cardinality(asked[r])
    <2>1. /\ IsFiniteSet(asked[r] \ {t}) /\ Cardinality(asked[r]) \in Nat
          /\ Cardinality(asked[r] \ {t}) = Cardinality(asked[r]) - 1
      BY <1>2, FS_RemoveElement, FS_CardinalityType
    <2>2. Cardinality(asked[r] \ {t}) \in Nat
      BY <2>1, FS_CardinalityType
    <2> QED BY <2>1, <2>2
  <1> QED BY <1>2, <1>3, FS_CardinalityType

(* The steps of a turn are fewer than what the turn is worth.              *)
LEMMA TurnIsWorth ==
  ASSUME SInv, NEW r \in Runs, ~Ended(r)
  PROVE  /\ StepsAt(pc[r], attempt[r], asked[r]) \in 0..(StepsOfTurn - 1)
         /\ turn[r] \in 0..MaxTurns /\ StepsOfTurn \in Nat
         /\ StepsOfTurn * (MaxTurns - turn[r]) \in Nat
         /\ StepsOfTurn * (MaxTurns - turn[r]) <= StepsOfTurn * MaxTurns
  <1>1. /\ TypeOK /\ RunOK(r) /\ LastOK(r) /\ pc[r] \in Pcs /\ turn[r] \in Nat
        /\ attempt[r] \in Nat /\ Cardinality(asked[r]) \in Nat
    BY FewerTools DEF SInv, IInv, RunsOK, TypeOK
  <1>2. StepsOfTurn \in Nat /\ MaxToolCalls \in Nat /\ Retries \in Nat
    BY Bounds, LoopConstants DEF StepsOfTurn
  <1>3. StepsAt(pc[r], attempt[r], asked[r]) \in 0..(StepsOfTurn - 1)
    <2>1. CASE pc[r] \in {"begin", "loop", "rate", "budget", "request",
                          "fallback", "usage"}
      BY <1>2, <2>1, Places DEF StepsOfTurn
    <2>2. CASE pc[r] \in {"call", "backoff"}
      <3>1. attempt[r] <= Retries
        BY <1>1, <1>2, <2>2 DEF RunOK
      <3> QED BY <1>1, <1>2, <2>2, <3>1, Places DEF StepsOfTurn
    <2>3. CASE pc[r] = "tools"
      <3>1. Cardinality(asked[r]) <= MaxToolCalls
        BY <1>1, <2>3 DEF LastOK
      <3> QED BY <1>1, <1>2, <2>3, <3>1, Places DEF StepsOfTurn
    <2> QED BY <1>1, <2>1, <2>2, <2>3 DEF Pcs, Ended
  <1>4. turn[r] \in 0..MaxTurns /\ MaxTurns \in Nat
    BY <1>1, LoopConstants DEF RunOK
  <1>5. MaxTurns - turn[r] \in Nat /\ MaxTurns - turn[r] <= MaxTurns
    BY <1>4
  <1> QED BY <1>2, <1>3, <1>4, <1>5, Times

-----------------------------------------------------------------------------
(* The two ways a step leaves a run fewer steps.                           *)

LEMMA SameTurn ==
  ASSUME SInv, NEW r \in Runs, ~Ended(r), turn'[r] = turn[r],
         StepsAt(pc[r], attempt[r], asked[r])' \in Nat,
         StepsAt(pc[r], attempt[r], asked[r])'
           < StepsAt(pc[r], attempt[r], asked[r])
  PROVE  StepsLeft(r)' < StepsLeft(r) /\ StepsLeft(r)' \in Nat
  BY TurnIsWorth DEF StepsLeft

LEMMA NewTurn ==
  ASSUME SInv, NEW r \in Runs, ~Ended(r), turn[r] + 1 <= MaxTurns,
         turn'[r] = turn[r] + 1,
         StepsAt(pc[r], attempt[r], asked[r])' \in 0..(StepsOfTurn - 1)
  PROVE  StepsLeft(r)' < StepsLeft(r) /\ StepsLeft(r)' \in Nat
  <1> DEFINE a == MaxTurns - turn[r]
             b == MaxTurns - turn'[r]
  <1>1. turn[r] \in Nat /\ MaxTurns \in Nat /\ StepsOfTurn \in Nat
    BY TurnIsWorth, LoopConstants
  <1>2. a \in Nat /\ b \in Nat /\ a = b + 1
    BY <1>1
  <1>3. StepsOfTurn * a = StepsOfTurn * b + StepsOfTurn
        /\ StepsOfTurn * b \in Nat
    BY <1>1, <1>2, Times
  <1>4. StepsAt(pc[r], attempt[r], asked[r]) \in Nat
    BY TurnIsWorth
  <1> HIDE DEF a, b
  <1>5. StepsOfTurn * b + StepsAt(pc[r], attempt[r], asked[r])'
          < StepsOfTurn * a + StepsAt(pc[r], attempt[r], asked[r])
        /\ StepsOfTurn * b + StepsAt(pc[r], attempt[r], asked[r])' \in Nat
    BY <1>1, <1>3, <1>4
  <1> QED BY <1>5 DEF StepsLeft, a, b

(* What a step leaves of the variables that the count reads.               *)
Kept(r) == /\ pc'[r] = pc[r] /\ turn'[r] = turn[r]
           /\ attempt'[r] = attempt[r] /\ asked'[r] = asked[r]

LEMMA KeptLeft ==
  ASSUME NEW r \in Runs, Kept(r)
  PROVE  StepsLeft(r)' = StepsLeft(r) /\ (LastOK(r) => LastOK(r)')
  BY DEF Kept, StepsLeft, LastOK

(* A step is a step of one run, or of the windows.                         *)
LEMMA OthersKept ==
  ASSUME TypeOK, NEW q \in Runs, NEW r \in Runs, q # r,
         Start(q) \/ RunStep(q) \/ Throw(q) \/ Abort(q)
  PROVE  Kept(r)
  <1>1. CASE \E s : End(q, s)
    BY <1>1 DEF TypeOK, Kept, End, Goto
  <1>2. CASE Start(q) \/ Abort(q) \/ Throw(q) \/ Begin(q) \/ NextTurn(q)
             \/ CheckRate(q) \/ CheckBudget(q) \/ RecordRequest(q)
             \/ RecordUsage(q) \/ ToolsDone(q)
    BY <1>1, <1>2
       DEF TypeOK, Kept, Start, Abort, Throw, Begin, NextTurn, CheckRate,
           CheckBudget, RecordRequest, RecordUsage, ToolsDone, BeginCall,
           GoOn, Goto, locals, history
  <1>3. CASE CallStep(q)
    BY <1>1, <1>3
       DEF TypeOK, Kept, CallStep, Answer, AbortSeen, CallFails, CallRefused,
           Backoff, BeginCall, GoOn, Goto, locals, history
  <1>4. CASE \E t \in Tools : AskHuman(q, t) \/ ToolResult(q, t)
    BY <1>4 DEF TypeOK, Kept, AskHuman, ToolResult, history
  <1> QED BY <1>2, <1>3, <1>4 DEF RunStep

(* A step of a run ends it, or leaves it fewer steps and in order.         *)
LEMMA RunCounts ==
  ASSUME SInv, NEW r \in Runs, RunStep(r) \/ Throw(r)
  PROVE  \/ Ended(r)' /\ LastOK(r)'
         \/ /\ ~Ended(r) /\ LastOK(r)'
            /\ StepsLeft(r)' < StepsLeft(r) /\ StepsLeft(r)' \in Nat
  <1>1. /\ TypeOK /\ RunOK(r) /\ LastOK(r)
        /\ MaxToolCalls \in Nat /\ Retries \in Nat /\ attempt[r] \in Nat
        /\ turn[r] \in Nat /\ Cardinality(asked[r]) \in Nat
    BY Bounds, LoopConstants, FewerTools
       DEF SInv, IInv, RunsOK, TypeOK
  <1>2. CASE \E s : End(r, s)
    BY <1>1, <1>2 DEF TypeOK, End, Goto, Ended, LastOK
  <1> DEFINE Fewer == StepsLeft(r)' < StepsLeft(r) /\ StepsLeft(r)' \in Nat
  <1> DEFINE Less(old, new) ==
        /\ pc[r] = old /\ pc'[r] = new /\ turn'[r] = turn[r]
        /\ asked'[r] = asked[r] /\ attempt'[r] = attempt[r]
  <1>3. \/ Less("rate", "budget") \/ Less("budget", "request")
        \/ Less("begin", "loop") \/ Less("tools", "loop")
        \/ Less("call", "fallback") /\ attempt[r] >= Retries
        \/ Less("call", "backoff") /\ attempt[r] < Retries
        \/ Less("usage", "tools") /\ Cardinality(asked[r]) <= MaxToolCalls
        =>
        /\ ~Ended(r) /\ LastOK(r)' /\ Fewer
    <2> SUFFICES
          ASSUME \/ Less("rate", "budget") \/ Less("budget", "request")
                 \/ Less("begin", "loop") \/ Less("tools", "loop")
                 \/ Less("call", "fallback") /\ attempt[r] >= Retries
                 \/ Less("call", "backoff") /\ attempt[r] < Retries
                 \/ /\ Less("usage", "tools")
                    /\ Cardinality(asked[r]) <= MaxToolCalls
          PROVE  /\ ~Ended(r) /\ LastOK(r)' /\ Fewer
      OBVIOUS
    <2>1. ~Ended(r) /\ LastOK(r)' /\ turn'[r] = turn[r]
      BY <1>1 DEF Ended, LastOK
    <2>2. attempt[r] <= Retries \/ pc[r] # "call"
      BY <1>1 DEF RunOK
    <2>3. /\ StepsAt(pc'[r], attempt'[r], asked'[r]) \in Nat
          /\ StepsAt(pc'[r], attempt'[r], asked'[r])
               < StepsAt(pc[r], attempt[r], asked[r])
      BY <1>1, <2>2, Places
    <2> QED BY <2>1, <2>3, SameTurn
  <1>4. CASE NextTurn(r) /\ ~End(r, "max_turns")
    <2>1. /\ pc[r] = "loop" /\ pc'[r] = "rate" /\ turn[r] + 1 <= MaxTurns
          /\ turn'[r] = turn[r] + 1
      BY <1>1, <1>4 DEF TypeOK, NextTurn, GoOn, Goto
    <2>2. StepsAt(pc'[r], attempt'[r], asked'[r]) \in 0..(StepsOfTurn - 1)
      BY <1>1, <2>1, Places DEF StepsOfTurn
    <2>3. ~Ended(r) /\ LastOK(r)'
      BY <1>1, <2>1 DEF Ended, LastOK
    <2> QED BY <2>1, <2>2, <2>3, NewTurn
  <1>5. CASE RecordRequest(r)
    <2>1. /\ pc[r] = "request" /\ pc'[r] = "call" /\ turn'[r] = turn[r]
          /\ attempt'[r] = 0
      BY <1>1, <1>5 DEF TypeOK, RecordRequest, BeginCall, Goto
    <2>2. /\ StepsAt(pc'[r], attempt'[r], asked'[r]) \in Nat
          /\ StepsAt(pc'[r], attempt'[r], asked'[r])
               < StepsAt(pc[r], attempt[r], asked[r])
      BY <1>1, <2>1, Places
    <2>3. ~Ended(r) /\ LastOK(r)'
      BY <1>1, <2>1 DEF Ended, LastOK
    <2> QED BY <2>1, <2>2, <2>3, SameTurn
  <1>6. CASE Answer(r)
    <2>1. /\ pc[r] \in {"call", "fallback"} /\ pc'[r] = "usage"
          /\ turn'[r] = turn[r]
      BY <1>1, <1>6 DEF TypeOK, Answer, InCall, GoOn, Goto
    <2>2. attempt[r] <= Retries \/ pc[r] # "call"
      BY <1>1 DEF RunOK
    <2>3. /\ StepsAt(pc'[r], attempt'[r], asked'[r]) \in Nat
          /\ StepsAt(pc'[r], attempt'[r], asked'[r])
               < StepsAt(pc[r], attempt[r], asked[r])
      BY <1>1, <2>1, <2>2, Places
    <2>4. ~Ended(r) /\ LastOK(r)'
      BY <1>1, <2>1 DEF Ended, LastOK
    <2> QED BY <2>1, <2>3, <2>4, SameTurn
  <1>7. CASE Backoff(r) /\ ~End(r, "failed")
    <2>1. /\ pc[r] = "backoff" /\ pc'[r] = "call" /\ turn'[r] = turn[r]
          /\ attempt'[r] = attempt[r] + 1 /\ attempt[r] < Retries
      BY <1>1, <1>7
         DEF TypeOK, RunOK, Backoff, AttemptAfter, BeginCall, Goto
    <2>2. /\ StepsAt(pc'[r], attempt'[r], asked'[r]) \in Nat
          /\ StepsAt(pc'[r], attempt'[r], asked'[r])
               < StepsAt(pc[r], attempt[r], asked[r])
      BY <1>1, <2>1, Places
    <2>3. ~Ended(r) /\ LastOK(r)'
      BY <1>1, <2>1 DEF Ended, LastOK
    <2> QED BY <2>1, <2>2, <2>3, SameTurn
  <1>8. ASSUME NEW t \in Tools, AskHuman(r, t) \/ ToolResult(r, t)
        PROVE  ~Ended(r) /\ LastOK(r)' /\ Fewer
    <2>1. /\ pc[r] = "tools" /\ pc'[r] = "tools" /\ turn'[r] = turn[r]
          /\ t \in asked[r] /\ asked'[r] = asked[r] \ {t}
      BY <1>1, <1>8 DEF TypeOK, AskHuman, ToolResult
    <2>2. /\ Cardinality(asked'[r]) \in Nat
          /\ Cardinality(asked'[r]) < Cardinality(asked[r])
      BY <1>1, <2>1, FewerTools
    <2>3. /\ StepsAt(pc'[r], attempt'[r], asked'[r]) \in Nat
          /\ StepsAt(pc'[r], attempt'[r], asked'[r])
               < StepsAt(pc[r], attempt[r], asked[r])
      BY <1>1, <2>1, <2>2, Places
    <2>4. ~Ended(r) /\ LastOK(r)'
      BY <1>1, <2>1, <2>2 DEF Ended, LastOK
    <2> QED BY <2>1, <2>3, <2>4, SameTurn
  <1>9. CASE Begin(r) \/ CheckRate(r) \/ CheckBudget(r) \/ CallFails(r)
             \/ RecordUsage(r) \/ ToolsDone(r)
    <2>1. \/ \E s : End(r, s)
          \/ Less("rate", "budget") \/ Less("budget", "request")
          \/ Less("begin", "loop") \/ Less("tools", "loop")
          \/ Less("call", "fallback") /\ attempt[r] >= Retries
          \/ Less("call", "backoff") /\ attempt[r] < Retries
          \/ Less("usage", "tools") /\ Cardinality(asked[r]) <= MaxToolCalls
      BY <1>1, <1>9
         DEF TypeOK, Begin, CheckRate, CheckBudget, CallFails, RecordUsage,
             ToolsDone, BeginCall, GoOn, Goto, locals, history
    <2> QED BY <1>2, <1>3, <2>1
  <1> QED
    BY <1>2, <1>4, <1>5, <1>6, <1>7, <1>8, <1>9
       DEF RunStep, CallStep, Throw, AbortSeen, CallRefused

(* Nobody gives a run steps back, and every run stays in order.            *)
LEMMA StepsStep ==
  ASSUME SInv, [Next]_vars, NEW r \in Runs
  PROVE  LastOK(r)' /\ CountsDown(r)
  <1>1. TypeOK /\ LastOK(r)
    BY DEF SInv, IInv
  <1>2. CASE Kept(r)
    <2>1. ~(RunStep(r) \/ Throw(r))
      <3>1. ~(RunStep(r) \/ Throw(r)) \/ Ended(r)' \/ StepsLeft(r)' < StepsLeft(r)
        BY RunCounts
      <3>2. RunStep(r) \/ Throw(r) => ~Ended(r)
        BY DEF RunStep, CallStep, Throw, Begin, NextTurn, CheckRate,
               CheckBudget, RecordRequest, Answer, AbortSeen, CallFails,
               CallRefused, Backoff, InCall, RecordUsage, AskHuman,
               ToolResult, ToolsDone, Ended
      <3>3. Ended(r)' = Ended(r)
        BY <1>2 DEF Kept, Ended
      <3>4. ~Ended(r) => ~(StepsLeft(r)' < StepsLeft(r))
        <4> HAVE ~Ended(r)
        <4>1. StepsLeft(r) \in Int
          BY TurnIsWorth DEF StepsLeft
        <4> QED BY <1>2, <4>1, KeptLeft
      <3> QED BY <3>1, <3>2, <3>3, <3>4
    <2>2. ~Ended(r) => StepsLeft(r)' <= StepsLeft(r)
      <3> HAVE ~Ended(r)
      <3>1. StepsLeft(r) \in Int
        BY TurnIsWorth DEF StepsLeft
      <3> QED BY <1>2, <3>1, KeptLeft
    <2> QED BY <1>1, <1>2, <2>1, <2>2, KeptLeft DEF CountsDown
  <1>3. CASE RunStep(r) \/ Throw(r)
    <2>1. ~Ended(r) => StepsLeft(r) \in Int
      BY TurnIsWorth DEF StepsLeft
    <2> QED BY <1>3, <2>1, RunCounts DEF CountsDown
  <1>4. CASE Start(r)
    <2>1. Ended(r) /\ ~RunStep(r) /\ ~Throw(r)
      BY <1>4 DEF Start, Ended, RunStep, CallStep, Throw, Begin, NextTurn,
             CheckRate, CheckBudget, RecordRequest, Answer, AbortSeen,
             CallFails, CallRefused, Backoff, InCall, RecordUsage, AskHuman,
             ToolResult, ToolsDone
    <2>2. LastOK(r)'
      BY <1>1, <1>4 DEF TypeOK, Start, Goto, LastOK, locals
    <2> QED BY <2>1, <2>2 DEF CountsDown
  <1>5. CASE Abort(r) \/ NewWindow \/ UNCHANGED vars
    BY <1>2, <1>5 DEF Abort, NewWindow, vars, locals, Kept
  <1>6. ASSUME NEW q \in Runs, q # r,
               Start(q) \/ RunStep(q) \/ Throw(q) \/ Abort(q)
        PROVE  LastOK(r)' /\ CountsDown(r)
    BY <1>1, <1>2, <1>6, OthersKept
  <1> QED BY <1>3, <1>4, <1>5, <1>6 DEF Next

(* The count's invariant holds in every behaviour of the loop.             *)
THEOREM StepsInductive == Spec => []SInv
  <1>1. Init => SInv
    BY InitInv DEF Init, SInv, LastOK
  <1>2. SInv /\ [Next]_vars => SInv'
    <2> SUFFICES ASSUME SInv, [Next]_vars PROVE SInv'
      OBVIOUS
    <2>1. IInv'
      BY TypeStep, RunsStep, SpendStep DEF SInv, IInv
    <2> QED BY <2>1, StepsStep DEF SInv
  <1> QED BY <1>1, <1>2, PTL DEF Spec

(* What a run can still do is bounded by the limits of its configuration,  *)
(* from the moment it starts.                                              *)
THEOREM StepsAreBounded == Spec => []StepsOK
  <1>1. ASSUME SInv PROVE StepsOK
    <2> SUFFICES ASSUME NEW r \in Runs, ~Ended(r)
                 PROVE  StepsLeft(r) \in 0..MaxSteps
      BY DEF StepsOK
    <2>1. /\ StepsAt(pc[r], attempt[r], asked[r]) \in 0..(StepsOfTurn - 1)
          /\ turn[r] \in 0..MaxTurns /\ StepsOfTurn \in Nat
          /\ StepsOfTurn * (MaxTurns - turn[r]) \in Nat
          /\ StepsOfTurn * (MaxTurns - turn[r]) <= StepsOfTurn * MaxTurns
          /\ StepsOfTurn * MaxTurns \in Nat /\ LastOK(r)
      BY <1>1, TurnIsWorth, LoopConstants, Times DEF SInv
    <2>2. CASE pc[r] \in {"begin", "loop"}
      <3>1. StepsAt(pc[r], attempt[r], asked[r]) \in 0..1
        BY <2>2, Places
      <3> QED BY <2>1, <3>1 DEF StepsLeft, MaxSteps
    <2>3. CASE pc[r] \notin {"begin", "loop"}
      <3>1. turn[r] >= 1
        BY <2>1, <2>3 DEF LastOK, Ended
      <3> DEFINE a == MaxTurns - turn[r]
      <3>2. a \in Nat /\ a + 1 \in Nat /\ a + 1 <= MaxTurns
        BY <2>1, <3>1, LoopConstants
      <3>3. StepsOfTurn * a + StepsOfTurn <= StepsOfTurn * MaxTurns
        <4>1. StepsOfTurn * (a + 1) = StepsOfTurn * a + StepsOfTurn
          BY <2>1, <3>2, Times
        <4>2. StepsOfTurn * (a + 1) <= StepsOfTurn * MaxTurns
          BY <2>1, <3>2, Times, LoopConstants
        <4> QED BY <4>1, <4>2
      <3>4. StepsOfTurn * a \in Nat
        BY <2>1
      <3> HIDE DEF a
      <3>5. StepsOfTurn * a + StepsAt(pc[r], attempt[r], asked[r])
              \in 0..MaxSteps
        BY <2>1, <3>3, <3>4 DEF MaxSteps
      <3> QED BY <3>5 DEF StepsLeft, a
    <2> QED BY <2>2, <2>3
  <1> QED BY <1>1, StepsInductive, PTL

(* The safety half of RunsEnd, for any limits, runs and tools: no retry,   *)
(* fallback, approval or other run keeps a run going for ever; it comes to *)
(* its end within MaxSteps + 1 steps of its own.                           *)
THEOREM RunsCountDown == Spec => StepsCountDown
  <1>1. SInv /\ [Next]_vars => [\A r \in Runs : CountsDown(r)]_vars
    BY StepsStep
  <1> QED BY <1>1, StepsInductive, PTL DEF Spec, StepsCountDown
=============================================================================
