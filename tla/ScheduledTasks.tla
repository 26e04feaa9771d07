--------------------------- MODULE ScheduledTasks ---------------------------
(***************************************************************************)
(* Scheduled tasks: the task manager behind the REST routes and the agent  *)
(* tool (src/src/scheduling/task-manager.ts), the poll loop and the BullMQ *)
(* worker (src/src/scheduling/task-runner.ts), over the Prisma repository. *)
(*                                                                         *)
(* Nothing locks a row.  A call of the manager reads, checks and writes    *)
(* without a condition; a poll decides on a snapshot of the rows that are  *)
(* due; a job counts its run by writing the count it read before it ran,   *)
(* plus one.  Polls overlap, because setInterval does not wait for one to  *)
(* end, and jobs run five at a time.                                       *)
(***************************************************************************)
EXTENDS Naturals

CONSTANTS
  Tasks,        \* ids of scheduled tasks
  Calls,        \* HTTP requests on a task
  Polls,        \* polls that may overlap
  Jobs,         \* slots of the BullMQ queue, reused when a job ends
  MaxRuns,      \* ScheduledTask.maxRuns; 0 stands for no limit
  MaxTicks,     \* bound: cron times that come due
  MaxFaults,    \* bound: repository or queue operations that fail
  MaxRestarts   \* bound: process crashes

ASSUME TaskConstants == /\ MaxRuns \in Nat /\ MaxTicks \in Nat
                        /\ MaxFaults \in Nat /\ MaxRestarts \in Nat

Statuses == {"absent", "proposed", "active", "paused", "rejected",
             "completed", "expired"}
Ops      == {"approve", "reject", "pause", "resume", "trigger"}
Requests == [op : Ops, task : Tasks]

(* What a poll has still to do with a row of its snapshot.                 *)
Verdicts == {"skip", "complete", "expire", "enqueue", "reschedule"}
JobPcs   == {"free", "queued", "create", "start", "execute", "settle", "count"}
Finals   == {"completed", "failed", "timeout"}
NoPlan   == [t \in Tasks |-> "skip"]

VARIABLES
  origin,      \* "static" or "agent_proposed", set when the row is created
  status,      \* the row's status
  nextRun,     \* nextRunAt: "null", "future" or "due" (<= now)
  runCount,    \* the row's run counter
  approved,    \* the row's approvedBy is set
  lapsed,      \* expiresAt <= now
  creating,    \* createTask calls between create and the first nextRunAt
  unscheduled, \* history: creations that never wrote the first nextRunAt
  request,     \* what each call asks (never changes)
  callPc,      \* "idle", "write", "execute" (trigger) or "done"
  plan,        \* [Polls -> [Tasks -> Verdicts]], all "skip" between polls
  job,         \* [Jobs -> [pc, task, seen, run, result]]
  executed,    \* history: tasks an agent was started for
  finished,    \* history: jobs of a task that ran to their counter write
  ticks, up, faults, restarts

row      == <<origin, status, nextRun, runCount, approved>>
history  == <<unscheduled, executed, finished>>
bounds   == <<ticks, faults, restarts>>
vars     == <<row, lapsed, creating, request, callPc, plan, job, history, up,
              bounds>>

JobStates == [pc : JobPcs, task : Tasks \cup {"none"}, seen : Nat,
              run : {"none", "pending", "running"} \cup Finals,
              result : {"none"} \cup Finals]
FreeJob == [pc |-> "free", task |-> "none", seen |-> 0, run |-> "none",
            result |-> "none"]

TypeOK ==
  /\ origin \in [Tasks -> {"static", "agent_proposed"}]
  /\ status \in [Tasks -> Statuses]
  /\ nextRun \in [Tasks -> {"null", "future", "due"}]
  /\ runCount \in [Tasks -> Nat]
  /\ approved \in [Tasks -> BOOLEAN]
  /\ lapsed \in [Tasks -> BOOLEAN]
  /\ creating \in SUBSET Tasks
  /\ unscheduled \in SUBSET Tasks
  /\ request \in [Calls -> Requests]
  /\ callPc \in [Calls -> {"idle", "write", "execute", "done"}]
  /\ plan \in [Polls -> [Tasks -> Verdicts]]
  /\ job \in [Jobs -> JobStates]
  /\ executed \in SUBSET Tasks
  /\ finished \in [Tasks -> Nat]
  /\ ticks \in Nat /\ faults \in Nat /\ restarts \in Nat
  /\ up \in BOOLEAN

Init ==
  /\ origin = [t \in Tasks |-> "static"]
  /\ status = [t \in Tasks |-> "absent"]
  /\ nextRun = [t \in Tasks |-> "null"]
  /\ runCount = [t \in Tasks |-> 0]
  /\ approved = [t \in Tasks |-> FALSE]
  /\ lapsed = [t \in Tasks |-> FALSE]
  /\ creating = {} /\ unscheduled = {}
  /\ request \in [Calls -> Requests]
  /\ callPc = [c \in Calls |-> "idle"]
  /\ plan = [p \in Polls |-> NoPlan]
  /\ job = [j \in Jobs |-> FreeJob]
  /\ executed = {}
  /\ finished = [t \in Tasks |-> 0]
  /\ ticks = 0 /\ faults = 0 /\ restarts = 0
  /\ up = TRUE

-----------------------------------------------------------------------------
(* The manager.                                                            *)

(* proposeTask: the agent's tool.                                          *)
ProposeTask(t) ==
  /\ up /\ status[t] = "absent"
  /\ origin' = [origin EXCEPT ![t] = "agent_proposed"]
  /\ status' = [status EXCEPT ![t] = "proposed"]
  /\ UNCHANGED <<nextRun, runCount, approved, lapsed, creating, request,
                 callPc, plan, job, history, up, bounds>>

(* createTask: the row is created active, without a nextRunAt ...          *)
CreateTask(t) ==
  /\ up /\ status[t] = "absent"
  /\ status' = [status EXCEPT ![t] = "active"]
  /\ creating' = creating \cup {t}
  /\ UNCHANGED <<origin, nextRun, runCount, approved, lapsed, request, callPc,
                 plan, job, history, up, bounds>>

(* ... which a second write sets; when it fails the caller is still told   *)
(* that the task was created.                                              *)
ScheduleFirst(t) ==
  /\ up /\ t \in creating
  /\ nextRun' = [nextRun EXCEPT ![t] = "future"]
  /\ creating' = creating \ {t}
  /\ UNCHANGED <<origin, status, runCount, approved, lapsed, request, callPc,
                 plan, job, history, up, bounds>>

ScheduleFirstFails(t) ==
  /\ up /\ t \in creating /\ faults < MaxFaults
  /\ creating' = creating \ {t}
  /\ unscheduled' = unscheduled \cup {t}
  /\ faults' = faults + 1
  /\ UNCHANGED <<row, lapsed, request, callPc, plan, job, executed, finished,
                 up, ticks, restarts>>

(* approveTask, rejectTask, pauseTask and resumeTask read the row and      *)
(* refuse it unless it has this status; so does the trigger route.         *)
RequiredAnyHeld(op) ==                                          \* mutant
  IF op \in {"approve", "reject", "resume"} THEN {"proposed", "paused"}
  ELSE {"active"}
Required(op) ==
  CASE op \in {"approve", "reject"} -> {"proposed"}
    [] op = "resume"                -> {"paused"}
    [] OTHER                        -> {"active"}

CallRead(c) ==
  LET r == request[c] IN
  /\ up /\ callPc[c] = "idle" /\ status[r.task] # "absent"
  /\ callPc' = [callPc EXCEPT ![c] =
       IF status[r.task] \notin Required(r.op) THEN "done"
       ELSE IF r.op = "trigger" THEN "execute" ELSE "write"]
  /\ UNCHANGED <<row, lapsed, creating, request, plan, job, history, up,
                 bounds>>

(* The write that follows a pause or a resume keeps nextRunAt in step.     *)
NextRunAfterUnscheduled(op) == "null"                           \* mutant
NextRunAfter(op) == IF op = "pause" THEN "null" ELSE "future"
StatusAfterApproved(op) ==                                      \* mutant
  CASE op = "approve" -> "approved"
    [] op = "reject"  -> "rejected"
    [] op = "pause"   -> "paused"
    [] OTHER          -> "active"
StatusAfter(op) ==
  CASE op = "reject" -> "rejected"
    [] op = "pause"  -> "paused"
    [] OTHER         -> "active"

CallWrite(c) ==
  LET op == request[c].op
      t  == request[c].task IN
  /\ up /\ callPc[c] = "write"
  /\ callPc' = [callPc EXCEPT ![c] = "done"]
  /\ status' = [status EXCEPT ![t] = StatusAfter(op)]
  /\ nextRun' = IF op = "reject" THEN nextRun
                ELSE [nextRun EXCEPT ![t] = NextRunAfter(op)]
  /\ approved' = IF op = "approve" THEN [approved EXCEPT ![t] = TRUE]
                 ELSE approved
  /\ UNCHANGED <<origin, runCount, lapsed, creating, request, plan, job,
                 history, up, bounds>>

(* POST /scheduled-tasks/:id/trigger runs the agent in the request itself: *)
(* no run record, no counter.                                              *)
TriggerRun(c) ==
  /\ up /\ callPc[c] = "execute"
  /\ callPc' = [callPc EXCEPT ![c] = "done"]
  /\ executed' = executed \cup {request[c].task}
  /\ UNCHANGED <<row, lapsed, creating, request, plan, job, unscheduled,
                 finished, up, bounds>>

CallFault(c) ==
  /\ up /\ faults < MaxFaults /\ callPc[c] \in {"idle", "write"}
  /\ callPc' = [callPc EXCEPT ![c] = "done"]
  /\ faults' = faults + 1
  /\ UNCHANGED <<row, lapsed, creating, request, plan, job, history, up,
                 ticks, restarts>>

-----------------------------------------------------------------------------
(* Time.                                                                   *)

Tick(t) ==
  /\ nextRun[t] = "future" /\ ticks < MaxTicks
  /\ nextRun' = [nextRun EXCEPT ![t] = "due"]
  /\ ticks' = ticks + 1
  /\ UNCHANGED <<origin, status, runCount, approved, lapsed, creating,
                 request, callPc, plan, job, history, up, faults, restarts>>

PassExpiry(t) ==
  /\ status[t] # "absent" /\ ~lapsed[t]
  /\ lapsed' = [lapsed EXCEPT ![t] = TRUE]
  /\ UNCHANGED <<row, creating, request, callPc, plan, job, history, up,
                 bounds>>

-----------------------------------------------------------------------------
(* pollAndEnqueue.                                                         *)

LimitReached(t) == MaxRuns # 0 /\ runCount[t] >= MaxRuns

(* getTasksDueForExecution.                                                *)
DueTasksUnexpired ==                                            \* mutant
  {t \in Tasks : status[t] = "active" /\ nextRun[t] = "due" /\ ~lapsed[t]}
DueTasks == {t \in Tasks : status[t] = "active" /\ nextRun[t] = "due"}

(* What the loop will do with a row, judged on the snapshot.               *)
VerdictEarly(t) ==                                              \* mutant
  IF MaxRuns # 0 /\ runCount[t] + 1 >= MaxRuns THEN "complete"
  ELSE IF lapsed[t] THEN "expire" ELSE "enqueue"
Verdict(t) ==
  IF LimitReached(t) THEN "complete"
  ELSE IF lapsed[t] THEN "expire" ELSE "enqueue"

PollStart(p) ==
  /\ up /\ plan[p] = NoPlan /\ DueTasks # {}
  /\ plan' = [plan EXCEPT ![p] =
       [t \in Tasks |-> IF t \in DueTasks THEN Verdict(t) ELSE "skip"]]
  /\ UNCHANGED <<row, lapsed, creating, request, callPc, job, history, up,
                 bounds>>

(* The loop finishes with one row before it takes the next.                *)
PollMayTake(p, t, v) ==
  /\ up /\ plan[p][t] = v
  /\ \A u \in Tasks \ {t} : plan[p][u] # "reschedule"

(* The row is closed, whatever its status has become since the snapshot.   *)
PollClose(p, t) ==
  /\ \/ PollMayTake(p, t, "complete")
        /\ status' = [status EXCEPT ![t] = "completed"]
     \/ PollMayTake(p, t, "expire")
        /\ status' = [status EXCEPT ![t] = "expired"]
  /\ nextRun' = [nextRun EXCEPT ![t] = "null"]
  /\ plan' = [plan EXCEPT ![p][t] = "skip"]
  /\ UNCHANGED <<origin, runCount, approved, lapsed, creating, request,
                 callPc, job, history, up, bounds>>

PollEnqueue(p, t) ==
  /\ PollMayTake(p, t, "enqueue")
  /\ \E j \in Jobs :
       /\ job[j].pc = "free"
       /\ job' = [job EXCEPT ![j] = [FreeJob EXCEPT !.pc = "queued",
                                                    !.task = t]]
  /\ plan' = [plan EXCEPT ![p][t] = "reschedule"]
  /\ UNCHANGED <<row, lapsed, creating, request, callPc, history, up, bounds>>

(* The write of the next cron time, to a row that may be paused by now.    *)
PollReschedule(p, t) ==
  /\ PollMayTake(p, t, "reschedule")
  /\ nextRun' = [nextRun EXCEPT ![t] = "future"]
  /\ plan' = [plan EXCEPT ![p][t] = "skip"]
  /\ UNCHANGED <<origin, status, runCount, approved, lapsed, creating,
                 request, callPc, job, history, up, bounds>>

(* queue.add throws: the catch ends the whole poll.                        *)
PollAborts(p, t) ==
  /\ PollMayTake(p, t, "enqueue") /\ faults < MaxFaults
  /\ plan' = [plan EXCEPT ![p] = NoPlan]
  /\ faults' = faults + 1
  /\ UNCHANGED <<row, lapsed, creating, request, callPc, job, history, up,
                 ticks, restarts>>

(* repository.update fails: it answers null, and the loop goes on.         *)
PollWriteFails(p, t) ==
  /\ \E v \in {"complete", "expire", "reschedule"} : PollMayTake(p, t, v)
  /\ faults < MaxFaults
  /\ plan' = [plan EXCEPT ![p][t] = "skip"]
  /\ faults' = faults + 1
  /\ UNCHANGED <<row, lapsed, creating, request, callPc, job, history, up,
                 ticks, restarts>>

-----------------------------------------------------------------------------
(* The worker.                                                             *)

SetJob(j, r) == job' = [job EXCEPT ![j] = r]
OthersOfJob  == <<origin, status, nextRun, approved, lapsed, creating,
                  request, callPc, plan, unscheduled, up, ticks, restarts>>

(* The worker's own look at the row, before it starts.                     *)
JobRead(j) ==
  LET t == job[j].task IN
  /\ up /\ job[j].pc = "queued"
  /\ SetJob(j, IF status[t] = "active"
               THEN [job[j] EXCEPT !.pc = "create", !.seen = runCount[t]]
               ELSE FreeJob)
  /\ UNCHANGED <<OthersOfJob, runCount, executed, finished, faults>>

JobCreateRun(j) ==
  /\ up /\ job[j].pc = "create"
  /\ SetJob(j, [job[j] EXCEPT !.pc = "start", !.run = "pending"])
  /\ UNCHANGED <<OthersOfJob, runCount, executed, finished, faults>>

(* The run is marked running, if that write succeeds, and the agent runs.  *)
JobStart(j) ==
  /\ up /\ job[j].pc = "start"
  /\ \/ /\ SetJob(j, [job[j] EXCEPT !.pc = "execute", !.run = "running"])
        /\ UNCHANGED faults
     \/ /\ faults < MaxFaults /\ faults' = faults + 1
        /\ SetJob(j, [job[j] EXCEPT !.pc = "execute"])
  /\ executed' = executed \cup {job[j].task}
  /\ UNCHANGED <<OthersOfJob, runCount, finished>>

(* The race of the execution and the task's timeout.                       *)
JobResult(j) ==
  /\ up /\ job[j].pc = "execute"
  /\ \E r \in Finals :
       SetJob(j, [job[j] EXCEPT !.pc = "settle", !.result = r])
  /\ UNCHANGED <<OthersOfJob, runCount, executed, finished, faults>>

(* The run record's final write; a failure is not looked at.               *)
JobSettle(j) ==
  /\ up /\ job[j].pc = "settle"
  /\ \/ /\ SetJob(j, [job[j] EXCEPT !.pc = "count", !.run = job[j].result])
        /\ UNCHANGED faults
     \/ /\ faults < MaxFaults /\ faults' = faults + 1
        /\ SetJob(j, [job[j] EXCEPT !.pc = "count"])
  /\ UNCHANGED <<OthersOfJob, runCount, executed, finished>>

(* The counter's write, from the count read before the run.                *)
Counted(j) == job[j].seen + 1

JobCount(j) ==
  LET t == job[j].task IN
  /\ up /\ job[j].pc = "count"
  /\ \/ /\ runCount' = [runCount EXCEPT ![t] = Counted(j)]
        /\ UNCHANGED faults
     \/ /\ faults < MaxFaults /\ faults' = faults + 1
        /\ UNCHANGED runCount
  /\ finished' = [finished EXCEPT ![t] = @ + 1]
  /\ SetJob(j, FreeJob)
  /\ UNCHANGED <<OthersOfJob, executed>>

(* findById or createRun throws: the job fails; it has one attempt.        *)
JobFails(j) ==
  /\ up /\ faults < MaxFaults
  /\ job[j].pc \in {"queued", "create"}
  /\ SetJob(j, FreeJob)
  /\ faults' = faults + 1
  /\ UNCHANGED <<OthersOfJob, runCount, executed, finished>>

-----------------------------------------------------------------------------
(* The process.  Rows and queued jobs survive a crash; BullMQ delivers a   *)
(* stalled job again, with a new run record, or gives it up.               *)

Redelivered(j) == [FreeJob EXCEPT !.pc = "queued", !.task = job[j].task]
InWorker(j) == job[j].pc \notin {"free", "queued"}

Crash ==
  /\ up /\ restarts < MaxRestarts
  /\ up' = FALSE
  /\ restarts' = restarts + 1
  /\ creating' = {}
  /\ unscheduled' = unscheduled \cup creating
  /\ callPc' = [c \in Calls |->
                  IF callPc[c] = "idle" THEN "idle" ELSE "done"]
  /\ plan' = [p \in Polls |-> NoPlan]
  /\ \E stalled \in SUBSET {j \in Jobs : InWorker(j)} :
       job' = [j \in Jobs |-> IF ~InWorker(j) THEN job[j]
                              ELSE IF j \in stalled THEN Redelivered(j)
                              ELSE FreeJob]
  /\ UNCHANGED <<row, lapsed, request, executed, finished, ticks, faults>>

Restart ==
  /\ ~up
  /\ up' = TRUE
  /\ UNCHANGED <<row, lapsed, creating, request, callPc, plan, job, history,
                 bounds>>

-----------------------------------------------------------------------------
PollStep(p, t) ==
  PollClose(p, t) \/ PollEnqueue(p, t) \/ PollReschedule(p, t)

JobStep(j) ==
  \/ JobRead(j) \/ JobCreateRun(j) \/ JobStart(j)
  \/ JobResult(j) \/ JobSettle(j) \/ JobCount(j)

Next ==
  \/ \E t \in Tasks :
       \/ ProposeTask(t) \/ CreateTask(t)
       \/ ScheduleFirst(t) \/ ScheduleFirstFails(t)
       \/ Tick(t) \/ PassExpiry(t)
       \/ \E p \in Polls :
            PollStep(p, t) \/ PollAborts(p, t) \/ PollWriteFails(p, t)
  \/ \E c \in Calls :
       CallRead(c) \/ CallWrite(c) \/ TriggerRun(c) \/ CallFault(c)
  \/ \E p \in Polls : PollStart(p)
  \/ \E j \in Jobs : JobStep(j) \/ JobFails(j)
  \/ Crash \/ Restart

(* Fairness: setInterval starts polls, a started handler, poll or job is   *)
(* carried on, and a supervisor restarts the process.  No request has to   *)
(* arrive, no cron time or expiry has to come.                             *)
Fairness ==
  /\ \A p \in Polls : /\ WF_plan(PollStart(p))
                      /\ \A t \in Tasks : WF_plan(PollStep(p, t))
  /\ \A j \in Jobs : WF_job(JobStep(j))
  /\ \A t \in Tasks : WF_creating(ScheduleFirst(t))
  /\ WF_up(Restart)

Spec     == Init /\ [][Next]_vars
FairSpec == Spec /\ Fairness

-----------------------------------------------------------------------------
(* Properties.                                                             *)

(* A task an agent proposed is never executed, by the worker or by the     *)
(* trigger route, before a human's approval has been written, whatever     *)
(* calls, polls and redelivered jobs interleave.                           *)
RunNeedsApproval ==
  \A t \in executed : origin[t] = "agent_proposed" => approved[t]

(* The poll looks only for active rows with a nextRunAt in the past, so an *)
(* active row without a nextRunAt would never run again: there is none,    *)
(* except a task whose creation stopped between its two writes.            *)
ActiveIsScheduled ==
  \A t \in Tasks :
    status[t] = "active" /\ nextRun[t] = "null"
      => t \in creating \cup unscheduled

(* A poll closes a task for the right reason, however old its snapshot: a  *)
(* completed task has finished at least maxRuns runs (the counter loses    *)
(* runs but never invents one), an expired one has passed its expiry.      *)
ClosedForCause ==
  \A t \in Tasks :
    /\ status[t] = "completed" => MaxRuns # 0 /\ finished[t] >= MaxRuns
    /\ status[t] = "expired" => lapsed[t]

(* The rows keep the promise of TaskPromise step by step: a stale read of  *)
(* the manager, a poll's old snapshot, a redelivered job or a creation     *)
(* that stopped half-way does nothing to a task that its life does not     *)
(* allow (task-manager.ts:92-265, task-runner.ts:88-240).                 *)
Promise == INSTANCE TaskPromise
             WITH scheduled <- {t \in Tasks : nextRun[t] # "null"},
                  begun     <- executed,
                  over      <- finished
KeepsPromise == Promise!Spec

(* A task that is due does not stay due: a poll enqueues, completes or     *)
(* expires it, across aborted polls, failed writes and crashes, unless an  *)
(* operator takes it out of the active state.                              *)
DueIsHandled ==
  \A t \in Tasks : []<>(status[t] # "active" \/ nextRun[t] # "due")
=============================================================================
