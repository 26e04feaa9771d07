---------------------------- MODULE ApprovalGate ----------------------------
(***************************************************************************)
(* The human-in-the-loop approval gate (src/src/security/approval-gate.ts) *)
(* over its Prisma store, with the callers that decide an approval: the    *)
(* REST routes (src/src/api/routes/approvals.ts), the Telegram webhook     *)
(* (src/src/api/routes/telegram-webhook.ts) and the dashboard's WebSocket  *)
(* (src/src/api/routes/ws-dashboard.ts).                                   *)
(*                                                                         *)
(* Every store access is a step of its own: a handler reads the row,       *)
(* awaits, and later writes what it computed from the value it read.  The  *)
(* store's update is unconditional, so a write lands whatever happened to  *)
(* the row in between.  A crash loses the timers and every handler in      *)
(* flight and keeps the rows.                                              *)
(***************************************************************************)
EXTENDS Naturals

CONSTANTS
  Approvals,      \* ids of approval requests
  Calls,          \* HTTP requests and Telegram updates that reach the gate
  Sweeps,         \* sweeps that may overlap (setInterval does not wait)
  TimeoutPolicy,  \* ApprovalGateOptions.timeoutConfig.onTimeout, or "none"
  MaxFaults,      \* bound: store operations that fail
  MaxRestarts     \* bound: process crashes

ASSUME PolicyAssumption ==
  TimeoutPolicy \in {"none", "auto-approve", "auto-deny", "escalate"}
ASSUME BoundsAssumption == MaxFaults \in Nat /\ MaxRestarts \in Nat
ASSUME TimerAssumption == "timer" \notin Sweeps

Decisions == {"approved", "denied"}
Terminal  == Decisions \cup {"expired"}
Statuses  == Terminal \cup {"absent", "pending"}

(* "rest": POST /resolve and /decide.  "checked": POST /approve and        *)
(* /reject, which look before they resolve.  "telegram": the bot's button  *)
(* and reply handlers.  "dashboard": approval.decide over the WebSocket.   *)
(* "view": a GET, or any other caller of gate.get.                         *)
Kinds    == {"rest", "checked", "telegram", "dashboard", "view"}
Direct   == {"rest", "dashboard"}  \* those that resolve without a look
Requests == [kind : Kinds, approval : Approvals, decision : Decisions]
CallPcs  == {"idle", "look", "resolve", "write", "expireLook", "expire",
             "answered", "resumed", "done"}
Handlers == {"timer"} \cup Sweeps

VARIABLES
  status,    \* the persisted row's status, "absent" before it is created
  held,      \* history: the terminal statuses the row has held
  lapsed,    \* now >= expiresAt
  overdue,   \* now - requestedAt >= timeoutMs
  creating,  \* requestApproval calls between store.create and scheduleTimers
  timers,    \* pendingTimers: "none", "armed", or "fired" and not yet deleted
  request,   \* what each call asks (never changes)
  pc,        \* where each call is
  saw,       \* the status gate.resolve returned to the call
  late,      \* history: the call arrived when the row was already terminal
  sweepQ,    \* rows a sweep still has to look at, from its listAll snapshot
  timeoutPc, \* handleTimeout in flight, per <<handler, approval>>
  up,        \* the process runs
  faults, restarts

rows     == <<status, held>>
clock    == <<lapsed, overdue>>
callVars == <<pc, saw, late>>
vars     == <<rows, clock, creating, timers, request, callVars, sweepQ,
              timeoutPc, up, faults, restarts>>

TypeOK ==
  /\ status \in [Approvals -> Statuses]
  /\ held \in [Approvals -> SUBSET Terminal]
  /\ lapsed \in [Approvals -> BOOLEAN]
  /\ overdue \in [Approvals -> BOOLEAN]
  /\ creating \in SUBSET Approvals
  /\ timers \in [Approvals -> {"none", "armed", "fired"}]
  /\ request \in [Calls -> Requests]
  /\ pc \in [Calls -> CallPcs]
  /\ saw \in [Calls -> Statuses]
  /\ late \in [Calls -> BOOLEAN]
  /\ sweepQ \in [Sweeps -> SUBSET Approvals]
  /\ timeoutPc \in [Handlers \X Approvals -> {"idle", "reading", "writing"}]
  /\ up \in BOOLEAN
  /\ faults \in Nat
  /\ restarts \in Nat

Init ==
  /\ status = [a \in Approvals |-> "absent"]
  /\ held = [a \in Approvals |-> {}]
  /\ lapsed = [a \in Approvals |-> FALSE]
  /\ overdue = [a \in Approvals |-> FALSE]
  /\ creating = {}
  /\ timers = [a \in Approvals |-> "none"]
  /\ request \in [Calls -> Requests]
  /\ pc = [c \in Calls |-> "idle"]
  /\ saw = [c \in Calls |-> "absent"]
  /\ late = [c \in Calls |-> FALSE]
  /\ sweepQ = [s \in Sweeps |-> {}]
  /\ timeoutPc = [w \in Handlers \X Approvals |-> "idle"]
  /\ up = TRUE
  /\ faults = 0
  /\ restarts = 0

-----------------------------------------------------------------------------
(* The store and the gate's helpers.                                       *)

(* store.update: no condition on the status the row has now.               *)
StoreUpdate(a, s) ==
  /\ status' = [status EXCEPT ![a] = s]
  /\ held' = [held EXCEPT ![a] = @ \cup {s}]

(* checkExpiration: the status a reader computes from the row it read.     *)
Checked(a) ==
  IF status[a] = "pending" /\ lapsed[a] THEN "expired" ELSE status[a]

(* gate.resolve goes on to write only from a row it sees as pending.       *)
DecidableUnlessExpired(a) == Checked(a) # "expired"   \* mutant
Decidable(a) == Checked(a) = "pending"

(* getAndCheckExpiration persists an expiry it has just found.             *)
AfterLapse(a) == IF status[a] = "pending" THEN "expire" ELSE "answered"

(* cancelTimers: clears the timers and forgets the entry.                  *)
CancelTimers(a) == timers' = [timers EXCEPT ![a] = "none"]

(* scheduleTimers: nothing without a timeout policy.                       *)
ScheduleTimers(a) ==
  timers' = IF TimeoutPolicy = "none" THEN timers
            ELSE [timers EXCEPT ![a] = "armed"]

(* The status handleTimeout writes; escalate also denies.                  *)
TimeoutStatusEscalated == "escalated"                 \* mutant
TimeoutStatus ==
  IF TimeoutPolicy = "auto-approve" THEN "approved" ELSE "denied"

Goto(c, l) == pc' = [pc EXCEPT ![c] = l]

-----------------------------------------------------------------------------
(* requestApproval, called by the tool registry: store.create, then the    *)
(* notifier is awaited, and only then are the timers armed.                *)

RequestApproval(a) ==
  /\ up /\ status[a] = "absent"
  /\ status' = [status EXCEPT ![a] = "pending"]
  /\ creating' = creating \cup {a}
  /\ UNCHANGED <<held, clock, timers, request, callVars, sweepQ, timeoutPc,
                 up, faults, restarts>>

FinishRequest(a) ==
  /\ up /\ a \in creating
  /\ creating' = creating \ {a}
  /\ ScheduleTimers(a)
  /\ UNCHANGED <<rows, clock, request, callVars, sweepQ, timeoutPc, up,
                 faults, restarts>>

(* The notifier throws: the request is pending, and no timer is armed.     *)
NotifierFails(a) ==
  /\ up /\ a \in creating /\ faults < MaxFaults
  /\ creating' = creating \ {a}
  /\ faults' = faults + 1
  /\ UNCHANGED <<rows, clock, timers, request, callVars, sweepQ, timeoutPc,
                 up, restarts>>

(* Time: the two deadlines are configured independently, so either may     *)
(* pass first.                                                             *)
PassExpiry(a) ==
  /\ status[a] # "absent" /\ ~lapsed[a]
  /\ lapsed' = [lapsed EXCEPT ![a] = TRUE]
  /\ UNCHANGED <<rows, overdue, creating, timers, request, callVars, sweepQ,
                 timeoutPc, up, faults, restarts>>

PassTimeout(a) ==
  /\ status[a] # "absent" /\ ~overdue[a]
  /\ overdue' = [overdue EXCEPT ![a] = TRUE]
  /\ UNCHANGED <<rows, lapsed, creating, timers, request, callVars, sweepQ,
                 timeoutPc, up, faults, restarts>>

-----------------------------------------------------------------------------
(* Calls.                                                                  *)

Arrive(c) ==
  LET r == request[c] IN
  /\ up /\ pc[c] = "idle" /\ status[r.approval] # "absent"
  /\ late' = [late EXCEPT ![c] = status[r.approval] \in Terminal]
  /\ Goto(c, IF r.kind \in Direct THEN "resolve" ELSE "look")
  /\ UNCHANGED <<rows, clock, creating, timers, request, saw, sweepQ,
                 timeoutPc, up, faults, restarts>>

(* gate.get before resolving ("checked", "telegram"), or on its own        *)
(* ("view"): an expiry found by the read is persisted by a later write.    *)
Look(c) ==
  LET a == request[c].approval IN
  /\ up /\ pc[c] = "look"
  /\ Goto(c, IF status[a] = "pending" /\ lapsed[a] THEN "expireLook"
             ELSE IF status[a] = "pending" /\ request[c].kind # "view"
             THEN "resolve" ELSE "done")
  /\ UNCHANGED <<rows, clock, creating, timers, request, saw, late, sweepQ,
                 timeoutPc, up, faults, restarts>>

(* gate.resolve up to its write: read, check, cancel the timers.           *)
ResolveRead(c) ==
  LET a == request[c].approval IN
  /\ up /\ pc[c] = "resolve"
  /\ saw' = [saw EXCEPT ![c] = Checked(a)]
  /\ \/ /\ Decidable(a)
        /\ CancelTimers(a)
        /\ Goto(c, "write")
     \/ /\ ~Decidable(a)
        /\ Goto(c, AfterLapse(a))
        /\ UNCHANGED timers
  /\ UNCHANGED <<rows, clock, creating, request, late, sweepQ, timeoutPc, up,
                 faults, restarts>>

(* gate.resolve's write, of the decision the call carries.                 *)
WriteDecision(c) ==
  /\ up /\ pc[c] = "write"
  /\ StoreUpdate(request[c].approval, request[c].decision)
  /\ saw' = [saw EXCEPT ![c] = request[c].decision]
  /\ Goto(c, "answered")
  /\ UNCHANGED <<clock, creating, timers, request, late, sweepQ, timeoutPc,
                 up, faults, restarts>>

(* getAndCheckExpiration's write of "expired".                             *)
PersistExpired(c) ==
  /\ up /\ pc[c] \in {"expireLook", "expire"}
  /\ StoreUpdate(request[c].approval, "expired")
  /\ Goto(c, IF pc[c] = "expire" THEN "answered" ELSE "done")
  /\ UNCHANGED <<clock, creating, timers, request, saw, late, sweepQ,
                 timeoutPc, up, faults, restarts>>

(* What the caller does with the gate's answer.  The REST routes refuse    *)
(* (409) a status other than the decision asked for; the Telegram handlers *)
(* and the dashboard only test that there is an answer.  "resumed" stands  *)
(* for resumeAfterApproval, or the dashboard's own resumption, which runs  *)
(* the agent with the call's decision; the gate.get each begins with is    *)
(* what a "view" call does.  A dashboard connection whose agent is running *)
(* is told BUSY instead.                                                   *)
MayResumeAlways(c) == TRUE                            \* mutant
MayResume(c) ==
  request[c].kind \in {"telegram", "dashboard"} \/ saw[c] = request[c].decision

Answer(c) ==
  /\ up /\ pc[c] = "answered"
  /\ \/ Goto(c, IF MayResume(c) THEN "resumed" ELSE "done")
     \/ request[c].kind = "dashboard" /\ Goto(c, "done")
  /\ UNCHANGED <<rows, clock, creating, timers, request, saw, late, sweepQ,
                 timeoutPc, up, faults, restarts>>

(* The store fails under the call: a read throws, a write answers null.    *)
(* Nothing is written, and the timers stay cancelled.  The call ends, but  *)
(* for the write of an expiry inside gate.resolve, whose null is not       *)
(* looked at: the caller is told "expired" all the same.                   *)
CallFault(c) ==
  /\ up /\ faults < MaxFaults
  /\ pc[c] \in {"look", "resolve", "write", "expireLook", "expire"}
  /\ Goto(c, IF pc[c] = "expire" THEN "answered" ELSE "done")
  /\ faults' = faults + 1
  /\ UNCHANGED <<rows, clock, creating, timers, request, saw, late, sweepQ,
                 timeoutPc, up, restarts>>

-----------------------------------------------------------------------------
(* Timers, the sweeper and handleTimeout.                                  *)

SetTimeoutPc(h, a, l) == timeoutPc' = [timeoutPc EXCEPT ![<<h, a>>] = l]

TimerFires(a) ==
  /\ up /\ timers[a] = "armed" /\ overdue[a]
  /\ timers' = [timers EXCEPT ![a] = "fired"]
  /\ SetTimeoutPc("timer", a, "reading")
  /\ UNCHANGED <<rows, clock, creating, request, callVars, sweepQ, up,
                 faults, restarts>>

(* A sweep handles one row at a time and awaits it.                        *)
SweepBusy(s) == \E a \in Approvals : timeoutPc[<<s, a>>] # "idle"

(* The rows of the listAll snapshot that the loop does not skip.           *)
DueRowsUnexpired ==                                   \* mutant
  {a \in Approvals : status[a] = "pending" /\ overdue[a] /\ ~lapsed[a]}
DueRows == {a \in Approvals : status[a] = "pending" /\ overdue[a]}

SweepStart(s) ==
  /\ up /\ TimeoutPolicy # "none"
  /\ sweepQ[s] = {} /\ ~SweepBusy(s)
  /\ DueRows # {}
  /\ sweepQ' = [sweepQ EXCEPT ![s] = DueRows]
  /\ UNCHANGED <<rows, clock, creating, timers, request, callVars, timeoutPc,
                 up, faults, restarts>>

(* A row whose timer entry is still in pendingTimers is left to the timer. *)
SweepNext(s, a) ==
  /\ up /\ a \in sweepQ[s] /\ ~SweepBusy(s)
  /\ sweepQ' = [sweepQ EXCEPT ![s] = @ \ {a}]
  /\ IF timers[a] = "none" THEN SetTimeoutPc(s, a, "reading")
     ELSE UNCHANGED timeoutPc
  /\ UNCHANGED <<rows, clock, creating, timers, request, callVars, up,
                 faults, restarts>>

TimeoutRead(h, a) ==
  /\ up /\ timeoutPc[<<h, a>>] = "reading"
  /\ IF status[a] = "pending"
     THEN CancelTimers(a) /\ SetTimeoutPc(h, a, "writing")
     ELSE SetTimeoutPc(h, a, "idle") /\ UNCHANGED timers
  /\ UNCHANGED <<rows, clock, creating, request, callVars, sweepQ, up,
                 faults, restarts>>

TimeoutWrite(h, a) ==
  /\ up /\ timeoutPc[<<h, a>>] = "writing"
  /\ StoreUpdate(a, TimeoutStatus)
  /\ SetTimeoutPc(h, a, "idle")
  /\ UNCHANGED <<clock, creating, timers, request, callVars, sweepQ, up,
                 faults, restarts>>

(* A read that throws ends the timer's handler, or the whole sweep; a      *)
(* write that fails answers null, which handleTimeout does not look at.    *)
TimeoutFault(h, a) ==
  /\ up /\ faults < MaxFaults
  /\ timeoutPc[<<h, a>>] # "idle"
  /\ SetTimeoutPc(h, a, "idle")
  /\ sweepQ' = IF h \in Sweeps /\ timeoutPc[<<h, a>>] = "reading"
               THEN [sweepQ EXCEPT ![h] = {}] ELSE sweepQ
  /\ faults' = faults + 1
  /\ UNCHANGED <<rows, clock, creating, timers, request, callVars, up,
                 restarts>>

-----------------------------------------------------------------------------
(* The process.                                                            *)

Crash ==
  /\ up /\ restarts < MaxRestarts
  /\ up' = FALSE
  /\ restarts' = restarts + 1
  /\ creating' = {}
  /\ timers' = [a \in Approvals |-> "none"]
  /\ pc' = [c \in Calls |->
              IF pc[c] \in {"idle", "resumed"} THEN pc[c] ELSE "done"]
  /\ sweepQ' = [s \in Sweeps |-> {}]
  /\ timeoutPc' = [w \in Handlers \X Approvals |-> "idle"]
  /\ UNCHANGED <<rows, clock, request, saw, late, faults>>

(* main.ts starts the sweeper again; nothing re-arms the timers.           *)
Restart ==
  /\ ~up
  /\ up' = TRUE
  /\ UNCHANGED <<rows, clock, creating, timers, request, callVars, sweepQ,
                 timeoutPc, faults, restarts>>

-----------------------------------------------------------------------------
CallStep(c) ==
  \/ Look(c) \/ ResolveRead(c) \/ WriteDecision(c)
  \/ PersistExpired(c) \/ Answer(c)

Next ==
  \/ \E a \in Approvals :
       \/ RequestApproval(a) \/ FinishRequest(a) \/ NotifierFails(a)
       \/ PassExpiry(a) \/ PassTimeout(a) \/ TimerFires(a)
       \/ \E s \in Sweeps : SweepNext(s, a)
       \/ \E h \in Handlers :
            TimeoutRead(h, a) \/ TimeoutWrite(h, a) \/ TimeoutFault(h, a)
  \/ \E c \in Calls : Arrive(c) \/ CallStep(c) \/ CallFault(c)
  \/ \E s \in Sweeps : SweepStart(s)
  \/ Crash \/ Restart

(* Fairness: setTimeout and setInterval fire, the event loop carries on    *)
(* what they started, and a supervisor restarts the process ...            *)
TimeoutFairness ==
  /\ \A a \in Approvals :
       /\ WF_timers(TimerFires(a))
       /\ \A s \in Sweeps : WF_sweepQ(SweepNext(s, a))
       /\ \A h \in Handlers :
            WF_timeoutPc(TimeoutRead(h, a) \/ TimeoutWrite(h, a))
  /\ \A s \in Sweeps : WF_sweepQ(SweepStart(s))
  /\ WF_up(Restart)

(* ... and the clock advances, and a request that came is carried on too.  *)
(* No request has to arrive.                                               *)
Fairness ==
  /\ TimeoutFairness
  /\ \A a \in Approvals :
       /\ WF_vars(FinishRequest(a))
       /\ WF_vars(PassExpiry(a)) /\ WF_vars(PassTimeout(a))
  /\ \A c \in Calls : WF_vars(CallStep(c))

Spec     == Init /\ [][Next]_vars
FairSpec == Spec /\ Fairness

-----------------------------------------------------------------------------
(* Properties.                                                             *)

(* An agent resumed through a REST route with decision d runs on an        *)
(* approval whose row has been d: the 409 test of the routes is enough,    *)
(* however the calls, the timeout policy and the expiry interleave.  The   *)
(* Telegram handlers and the dashboard (ws-dashboard.ts:384-425) make no   *)
(* such test and are left out: they may act on a decision the row never    *)
(* had.                                                                    *)
RestResumeWasDecided ==
  \A c \in Calls :
    pc[c] = "resumed" /\ request[c].kind \in {"rest", "checked"}
      => request[c].decision \in held[request[c].approval]

(* A call that arrives when the approval is already decided or expired     *)
(* never writes the row: only calls that overlapped the first decision can *)
(* overwrite it.                                                           *)
LateCallsBounce ==
  \A c \in Calls :
    late[c] => pc[c] \notin {"write", "expireLook", "expire"}

(* The gate keeps its promise to the callers (ApprovalPromise): even a     *)
(* Telegram button or a dashboard's decision that comes late, or after a   *)
(* lost race, resumes the agent at most once and only on an approval that  *)
(* is settled or past its expiry.                                          *)
Promise == INSTANCE ApprovalPromise
             WITH asked    <- {a \in Approvals : status[a] # "absent"},
                  lapsed   <- {a \in Approvals : lapsed[a]},
                  outcomes <- held,
                  resumed  <- {c \in Calls : pc[c] = "resumed"}

ImplementsPromise == Promise!Spec

(* With a timeout policy, a pending approval whose timeout has passed is   *)
(* settled, across crashes and failed store calls; unless its own timer    *)
(* fired and failed, which keeps the entry that makes the sweeper skip it. *)
OverdueIsSettled ==
  \A a \in Approvals :
    []<>(~(status[a] = "pending" /\ overdue[a]) \/ timers[a] = "fired")

(* main.ts starts the sweeper "so stale pending approvals are resolved     *)
(* even after a process restart".                                          *)
StaleIsResolved ==
  \A a \in Approvals :
    status[a] = "pending" /\ lapsed[a] ~> status[a] # "pending"
=============================================================================
