----------------------------- MODULE AgentLoop -----------------------------
(***************************************************************************)
(* The agent loop (src/src/core/agent-runner.ts) with the cost guard       *)
(* (src/src/cost/cost-guard.ts) and the tool registry's resolve            *)
(* (src/src/tools/registry/tool-registry.ts).                              *)
(*                                                                         *)
(* A turn asks the cost guard, calls the model with retries and a          *)
(* fallback, records what the call cost, and resolves the tools the model  *)
(* asked for.  The runs of a project share what is spent, a sum over the   *)
(* database that a run reads well before it adds to it; the requests that  *)
(* the rate limit counts are in memory, in a store that chat-setup.ts      *)
(* creates for each run.  An abort is only looked at before the first      *)
(* turn, while an answer streams, and after a backoff.                     *)
(*                                                                         *)
(* The trace, the stream of events, the prompt, the memory and the         *)
(* conversation's text are left out; of a model's answer what matters is   *)
(* which tools it asks for.  The day's and the month's budget, and the     *)
(* minute's and the hour's rate, are each one limit here: the tighter.     *)
(***************************************************************************)
EXTENDS Naturals, FiniteSets

CONSTANTS
  Runs,         \* slots of runs in progress at a time, used again and again
  Tools,        \* what the model may ask for in one answer
  Risky,        \* tools with requiresApproval
  MaxTurns,     \* maxTurnsPerSession
  MaxToolCalls, \* maxToolCallsPerTurn
  MaxRetries,   \* failover.maxRetries
  HasFallback,  \* a fallback provider is configured
  Budget,       \* the budget, in units of cost
  MaxCost,      \* the largest cost of one call
  MaxRequests   \* the rate limit

ASSUME LoopConstants ==
  /\ Risky \subseteq Tools
  /\ IsFiniteSet(Runs) /\ IsFiniteSet(Tools)
  /\ MaxTurns \in Nat /\ MaxToolCalls \in Nat /\ MaxRetries \in Nat
  /\ HasFallback \in BOOLEAN
  /\ Budget \in Nat \ {0} /\ MaxCost \in Nat /\ MaxRequests \in Nat \ {0}

VARIABLES
  pc,         \* where a run is
  status,     \* trace.status
  turn,       \* turnCount
  attempt,    \* retries of the present call
  asked,      \* tool calls of the answer not resolved yet
  pending,    \* approvalPending
  aborted,    \* the abort signal
  spent,      \* cost recorded in the budget's window, by all runs
  requests,   \* requests in the rate limit's window, of the run's own store
  calls,      \* history: calls of the model in the turn
  lateCalls   \* history: calls begun after the abort

history == <<calls, lateCalls>>
locals  == <<turn, attempt, asked, pending, aborted, requests, history>>
vars    == <<pc, status, locals, spent>>

Pcs == {"idle", "begin", "loop", "rate", "budget", "request", "call",
        "backoff", "fallback", "usage", "tools"}
Statuses == {"running", "completed", "failed", "aborted", "max_turns",
             "budget_exceeded", "human_approval_pending"}

TypeOK ==
  /\ pc \in [Runs -> Pcs]
  /\ status \in [Runs -> Statuses]
  /\ turn \in [Runs -> Nat] /\ attempt \in [Runs -> Nat]
  /\ asked \in [Runs -> SUBSET Tools]
  /\ pending \in [Runs -> BOOLEAN] /\ aborted \in [Runs -> BOOLEAN]
  /\ spent \in Nat /\ requests \in [Runs -> Nat]
  /\ calls \in [Runs -> Nat] /\ lateCalls \in [Runs -> Nat]

Init ==
  /\ pc = [r \in Runs |-> "idle"]
  /\ status = [r \in Runs |-> "completed"]
  /\ turn = [r \in Runs |-> 0] /\ attempt = [r \in Runs |-> 0]
  /\ asked = [r \in Runs |-> {}]
  /\ pending = [r \in Runs |-> FALSE] /\ aborted = [r \in Runs |-> FALSE]
  /\ spent = 0 /\ requests = [r \in Runs |-> 0]
  /\ calls = [r \in Runs |-> 0] /\ lateCalls = [r \in Runs |-> 0]

Goto(r, p) == pc' = [pc EXCEPT ![r] = p]
GoOn(r, p) == Goto(r, p) /\ UNCHANGED status

(* The run returns its trace; its local variables and its store are gone.  *)
End(r, s) ==
  /\ Goto(r, "idle")
  /\ status' = [status EXCEPT ![r] = s]
  /\ turn' = [turn EXCEPT ![r] = 0] /\ attempt' = [attempt EXCEPT ![r] = 0]
  /\ asked' = [asked EXCEPT ![r] = {}]
  /\ pending' = [pending EXCEPT ![r] = FALSE]
  /\ aborted' = [aborted EXCEPT ![r] = FALSE]
  /\ requests' = [requests EXCEPT ![r] = 0]
  /\ calls' = [calls EXCEPT ![r] = 0]
  /\ lateCalls' = [lateCalls EXCEPT ![r] = 0]

(* What one turn may ask of the providers, and what may still be asked     *)
(* after an abort; the histories count no further than one past it.        *)
Retries      == IF MaxRetries < 3 THEN MaxRetries ELSE 3
CallsPerTurn == 1 + Retries + (IF HasFallback THEN 1 ELSE 0)
MostLate     == IF HasFallback /\ Retries = 0 THEN 2 ELSE 1

(* A request to a provider goes out.                                       *)
BeginCall(r, p) ==
  /\ Goto(r, p)
  /\ calls' = [calls EXCEPT ![r] = IF @ <= CallsPerTurn THEN @ + 1 ELSE @]
  /\ lateCalls' = [lateCalls EXCEPT
                      ![r] = IF aborted[r] /\ @ <= MostLate THEN @ + 1 ELSE @]

-----------------------------------------------------------------------------
(* A message starts a run.                                                 *)

Start(r) ==
  /\ pc[r] = "idle"
  /\ Goto(r, "begin")
  /\ status' = [status EXCEPT ![r] = "running"]
  /\ UNCHANGED <<locals, spent>>

(* The routing of the model, the first look at the signal, the memories.   *)
Begin(r) ==
  /\ pc[r] = "begin"
  /\ \/ aborted[r] /\ End(r, "aborted")
     \/ ~aborted[r] /\ GoOn(r, "loop") /\ UNCHANGED locals
  /\ UNCHANGED spent

(* A step whose query or provider throws: the catch ends the run.          *)
Throw(r) ==
  /\ \/ pc[r] \in {"begin", "rate", "budget", "request", "usage"}
     \/ pc[r] = "tools" /\ asked[r] # {}
  /\ End(r, "failed")
  /\ UNCHANGED spent

NextTurn(r) ==
  /\ pc[r] = "loop"
  /\ \/ /\ turn[r] + 1 > MaxTurns
        /\ End(r, "max_turns")
     \/ /\ turn[r] + 1 <= MaxTurns
        /\ turn' = [turn EXCEPT ![r] = @ + 1]
        /\ calls' = [calls EXCEPT ![r] = 0]
        /\ GoOn(r, "rate")
        /\ UNCHANGED <<attempt, asked, pending, aborted, requests, lateCalls>>
  /\ UNCHANGED spent

-----------------------------------------------------------------------------
(* costGuard.preCheck: the rate, then the budget, then the request is      *)
(* recorded.                                                               *)

CheckRate(r) ==
  /\ pc[r] = "rate"
  /\ \/ requests[r] >= MaxRequests /\ End(r, "failed")
     \/ requests[r] < MaxRequests /\ GoOn(r, "budget") /\ UNCHANGED locals
  /\ UNCHANGED spent

OverBudgetStrictly == spent > Budget                            \* mutant
OverBudget         == spent >= Budget

CheckBudget(r) ==
  /\ pc[r] = "budget"
  /\ \/ OverBudget /\ End(r, "budget_exceeded")
     \/ ~OverBudget /\ GoOn(r, "request") /\ UNCHANGED locals
  /\ UNCHANGED spent

RecordRequest(r) ==
  /\ pc[r] = "request"
  /\ requests' = [requests EXCEPT ![r] = @ + 1]
  /\ attempt' = [attempt EXCEPT ![r] = 0]
  /\ BeginCall(r, "call")
  /\ UNCHANGED <<status, turn, asked, pending, aborted, spent>>

-----------------------------------------------------------------------------
(* executeLLMCall.                                                         *)

InCall(r) == pc[r] \in {"call", "fallback"}

(* The stream ended without the signal being seen.                         *)
Answer(r) ==
  /\ InCall(r) /\ ~aborted[r]
  /\ \E tools \in SUBSET Tools : asked' = [asked EXCEPT ![r] = tools]
  /\ GoOn(r, "usage")
  /\ UNCHANGED <<turn, attempt, pending, aborted, requests, history, spent>>

(* An event of the stream finds the signal set.                            *)
AbortSeen(r) ==
  /\ InCall(r) /\ aborted[r]
  /\ End(r, "aborted")
  /\ UNCHANGED spent

(* An error that failover covers: again, elsewhere, or the end.            *)
CallFails(r) ==
  /\ InCall(r)
  /\ \/ /\ pc[r] = "call" /\ attempt[r] < Retries
        /\ GoOn(r, "backoff")
        /\ UNCHANGED locals
     \/ /\ pc[r] = "call" /\ attempt[r] >= Retries /\ HasFallback
        /\ BeginCall(r, "fallback")
        /\ UNCHANGED <<status, turn, attempt, asked, pending, aborted,
                       requests>>
     \/ /\ pc[r] = "call" => attempt[r] >= Retries /\ ~HasFallback
        /\ End(r, "failed")
  /\ UNCHANGED spent

(* Any other error ends the run.                                           *)
CallRefused(r) ==
  /\ InCall(r)
  /\ End(r, "failed")
  /\ UNCHANGED spent

StopsAtBackoffNever(r) == FALSE                                 \* mutant
StopsAtBackoff(r)      == aborted[r]

AttemptAfterSame(r) == attempt[r]                               \* mutant
AttemptAfter(r)     == attempt[r] + 1

(* After the wait the signal is looked at, and the last error returned.    *)
Backoff(r) ==
  /\ pc[r] = "backoff"
  /\ \/ /\ StopsAtBackoff(r)
        /\ End(r, "failed")
     \/ /\ ~StopsAtBackoff(r)
        /\ attempt' = [attempt EXCEPT ![r] = AttemptAfter(r)]
        /\ BeginCall(r, "call")
        /\ UNCHANGED <<status, turn, asked, pending, aborted, requests>>
  /\ UNCHANGED spent

-----------------------------------------------------------------------------
(* costGuard.recordUsage and the answer's tool calls.                      *)

RecordUsage(r) ==
  /\ pc[r] = "usage"
  /\ \E cost \in 0..MaxCost : spent' = spent + cost
  /\ \/ End(r, "failed")     \* the reads for the alerts throw
     \/ Cardinality(asked[r]) > MaxToolCalls /\ End(r, "failed")
     \/ asked[r] = {} /\ End(r, "completed")
     \/ /\ asked[r] # {} /\ Cardinality(asked[r]) <= MaxToolCalls
        /\ GoOn(r, "tools")
        /\ UNCHANGED locals

(* toolRegistry.resolve.  A risky tool whose access and input are valid    *)
(* opens an approval, and the loop goes on with the next tool; any other   *)
(* outcome, errors and the timeout included, becomes a result.             *)
WaitingRenamed == "approval_pending"                            \* mutant
Waiting        == "human_approval_pending"

AskHuman(r, t) ==
  /\ pc[r] = "tools" /\ t \in asked[r] \cap Risky
  /\ asked' = [asked EXCEPT ![r] = @ \ {t}]
  /\ pending' = [pending EXCEPT ![r] = TRUE]
  /\ status' = [status EXCEPT ![r] = Waiting]
  /\ UNCHANGED <<pc, turn, attempt, aborted, requests, history, spent>>

ToolResult(r, t) ==
  /\ pc[r] = "tools" /\ t \in asked[r]
  /\ asked' = [asked EXCEPT ![r] = @ \ {t}]
  /\ UNCHANGED <<pc, status, turn, attempt, pending, aborted, requests,
                 history, spent>>

WaitsForHumanNever(r) == FALSE                                  \* mutant
WaitsForHuman(r)      == pending[r]

ToolsDone(r) ==
  /\ pc[r] = "tools" /\ asked[r] = {}
  /\ \/ WaitsForHuman(r) /\ End(r, status[r])
     \/ ~WaitsForHuman(r) /\ GoOn(r, "loop") /\ UNCHANGED locals
  /\ UNCHANGED spent

-----------------------------------------------------------------------------
(* The caller aborts; the windows of the limits move on.                   *)

Abort(r) ==
  /\ pc[r] # "idle" /\ ~aborted[r]
  /\ aborted' = [aborted EXCEPT ![r] = TRUE]
  /\ UNCHANGED <<pc, status, turn, attempt, asked, pending, requests,
                 history, spent>>

NewWindow ==
  /\ \/ spent' = 0 /\ UNCHANGED requests
     \/ /\ \E r \in Runs : \E n \in 0..requests[r] :
             requests' = [requests EXCEPT ![r] = n]
        /\ UNCHANGED spent
  /\ UNCHANGED <<pc, status, turn, attempt, asked, pending, aborted, history>>

-----------------------------------------------------------------------------
CallStep(r) ==
  Answer(r) \/ AbortSeen(r) \/ CallFails(r) \/ CallRefused(r) \/ Backoff(r)

RunStep(r) ==
  \/ Begin(r) \/ NextTurn(r) \/ CheckRate(r) \/ CheckBudget(r)
  \/ RecordRequest(r) \/ CallStep(r) \/ RecordUsage(r)
  \/ \E t \in Tools : AskHuman(r, t) \/ ToolResult(r, t)
  \/ ToolsDone(r)

Next ==
  \/ \E r \in Runs : Start(r) \/ RunStep(r) \/ Throw(r) \/ Abort(r)
  \/ NewWindow

(* Fairness: a run that was started is carried on; a provider's stream     *)
(* ends somehow, and the registry's timeout bounds every tool.  (Each step *)
(* of a run changes one of these two.)                                     *)
Fairness == \A r \in Runs : WF_<<pc[r], asked[r]>>(RunStep(r))

Spec     == Init /\ [][Next]_vars
FairSpec == Spec /\ Fairness

-----------------------------------------------------------------------------
(* Properties.                                                             *)

(* The budget can be overrun, because a run adds to what is spent long     *)
(* after it read it, but by less than one call per run in progress; and no *)
(* run exceeds the rate.                                                   *)
LimitsHold ==
  /\ spent < Budget + MaxCost * Cardinality(Runs)
  /\ \A r \in Runs : requests[r] <= MaxRequests

(* A run that waits for a human never calls the model again: not while it  *)
(* goes through the other tools of the answer, and not after.              *)
ApprovalStopsRun ==
  \A r \in Runs : pending[r] => pc[r] = "tools"

(* An abort is noticed late, but not later than one more call; or a second *)
(* one, to the fallback, when nothing is retried.                          *)
AbortIsHeeded ==
  \A r \in Runs : lateCalls[r] <= MostLate

(* A turn makes one call, its retries and one to the fallback, and a run   *)
(* has no more turns than it may: what a run can cost is bounded.          *)
CallsAreBounded ==
  \A r \in Runs : calls[r] <= CallsPerTurn /\ turn[r] <= MaxTurns

(* Every run ends, whatever the model, the providers and the tools answer: *)
(* no slot stays taken.                                                    *)
RunsEnd == \A r \in Runs : []<>(pc[r] = "idle")
=============================================================================
