------------------------ MODULE ScheduledTasksProofs ------------------------
(***************************************************************************)
(* The safety of scheduled tasks for any number of tasks, calls, polls and *)
(* jobs, any maxRuns, and any number of faults and crashes.                *)
(*                                                                         *)
(* The argument: whatever reaches an execution (a poll's plan, a job, a    *)
(* trigger, a pause or resume in flight) was let in by a row that was not  *)
(* proposed and not rejected, and such a row is static or approved; and no *)
(* count that anybody holds exceeds the runs that finished.                *)
(***************************************************************************)
EXTENDS ScheduledTasks, TLAPS

(* Something on its way to an execution of t, or left by one.              *)
Touched(t) ==
  \/ t \in executed \cup creating
  \/ \E p \in Polls : plan[p][t] # "skip"
  \/ \E j \in Jobs : job[j].pc # "free" /\ job[j].task = t
  \/ \E c \in Calls :
       /\ request[c].task = t
       /\ \/ callPc[c] = "execute"
          \/ callPc[c] = "write" /\ request[c].op \notin {"approve", "reject"}

Unapproved(t) == origin[t] = "agent_proposed" /\ ~approved[t]

ApprovalOK ==
  \A t \in Tasks :
    /\ status[t] = "absent" =>
         /\ origin[t] = "static" /\ ~Touched(t)
         /\ \A c \in Calls : request[c].task = t => callPc[c] # "write"
    /\ Unapproved(t) => status[t] \in {"proposed", "rejected"} /\ ~Touched(t)

(* No counter is ahead of the runs that finished, nor is the count a job   *)
(* carries; and a poll's verdict stays justified while it waits.           *)
CountsOK ==
  /\ \A t \in Tasks : runCount[t] <= finished[t]
  /\ \A j \in Jobs :
       job[j].pc # "free" =>
         job[j].task \in Tasks /\ job[j].seen <= finished[job[j].task]
  /\ \A p \in Polls, t \in Tasks :
       /\ plan[p][t] = "complete" => MaxRuns # 0 /\ finished[t] >= MaxRuns
       /\ plan[p][t] = "expire" => lapsed[t]

IInv == TypeOK /\ ApprovalOK /\ ActiveIsScheduled /\ CountsOK /\ ClosedForCause

-----------------------------------------------------------------------------
(* The initial states satisfy the invariant.                               *)
LEMMA InitIInv == Init => IInv
  <1> SUFFICES ASSUME Init PROVE IInv
    OBVIOUS
  <1> USE DEF Init, NoPlan, FreeJob
  <1>1. TypeOK
    BY DEF TypeOK, Statuses, Verdicts, JobStates, JobPcs
  <1>2. ApprovalOK
    BY DEF ApprovalOK, Touched, Unapproved
  <1>3. ActiveIsScheduled /\ ClosedForCause
    BY DEF ActiveIsScheduled, ClosedForCause
  <1>4. CountsOK
    BY DEF CountsOK
  <1> QED
    BY <1>1, <1>2, <1>3, <1>4 DEF IInv

(* The job records a job's steps write.                                    *)
LEMMA JobTypes ==
  ASSUME TypeOK
  PROVE  /\ FreeJob \in JobStates
         /\ \A t \in Tasks :
              [FreeJob EXCEPT !.pc = "queued", !.task = t] \in JobStates
         /\ \A j \in Jobs :
              /\ job[j] \in JobStates
              /\ job[j].pc # "free" /\ job[j].task \in Tasks
                   => Redelivered(j) \in JobStates
  BY DEF TypeOK, JobStates, JobPcs, FreeJob, Redelivered, Finals

(* Every step preserves the types.                                         *)
LEMMA TypeStep ==
  ASSUME IInv, [Next]_vars
  PROVE  TypeOK'
  <1> USE DEF TypeOK, row, history, bounds, OthersOfJob
  <1> USE TaskConstants
  <1>0. TypeOK /\ CountsOK
    BY DEF IInv
  <1>1. ASSUME NEW t \in Tasks, ProposeTask(t) PROVE TypeOK'
    BY <1>0, <1>1 DEF ProposeTask, Statuses
  <1>2. ASSUME NEW t \in Tasks, CreateTask(t) PROVE TypeOK'
    BY <1>0, <1>2 DEF CreateTask, Statuses
  <1>3. ASSUME NEW t \in Tasks, ScheduleFirst(t) \/ ScheduleFirstFails(t)
        PROVE TypeOK'
    BY <1>0, <1>3 DEF ScheduleFirst, ScheduleFirstFails
  <1>4. ASSUME NEW t \in Tasks, Tick(t) \/ PassExpiry(t) PROVE TypeOK'
    <2>1. CASE Tick(t)
      <3>1. nextRun' \in [Tasks -> {"null", "future", "due"}] /\ ticks' \in Nat
        BY <1>0, <2>1 DEF Tick
      <3> QED
        BY <1>0, <2>1, <3>1 DEF Tick
    <2>2. CASE PassExpiry(t)
      BY <1>0, <2>2 DEF PassExpiry
    <2> QED
      BY <1>4, <2>1, <2>2
  <1>5. ASSUME NEW c \in Calls, CallRead(c) PROVE TypeOK'
    BY <1>0, <1>5 DEF CallRead
  <1>6. ASSUME NEW c \in Calls, CallWrite(c) PROVE TypeOK'
    <2>1. request[c].task \in Tasks
      BY <1>0 DEF Requests
    <2> QED
      BY <1>0, <1>6, <2>1 DEF CallWrite, StatusAfter, NextRunAfter, Statuses
  <1>7. ASSUME NEW c \in Calls, TriggerRun(c) PROVE TypeOK'
    <2>1. request[c].task \in Tasks
      BY <1>0 DEF Requests
    <2> QED
      BY <1>0, <1>7, <2>1 DEF TriggerRun
  <1>8. ASSUME NEW c \in Calls, CallFault(c) PROVE TypeOK'
    BY <1>0, <1>8 DEF CallFault
  <1>9. ASSUME NEW p \in Polls, PollStart(p) PROVE TypeOK'
    BY <1>0, <1>9 DEF PollStart, Verdict, Verdicts
  <1>10. ASSUME NEW p \in Polls, NEW t \in Tasks, PollClose(p, t) PROVE TypeOK'
    BY <1>0, <1>10 DEF PollClose, Verdicts, Statuses
  <1>11. ASSUME NEW p \in Polls, NEW t \in Tasks, PollEnqueue(p, t)
         PROVE TypeOK'
    BY <1>0, <1>11, JobTypes DEF PollEnqueue, Verdicts
  <1>12. ASSUME NEW p \in Polls, NEW t \in Tasks, PollReschedule(p, t)
         PROVE TypeOK'
    BY <1>0, <1>12 DEF PollReschedule, Verdicts
  <1>13. ASSUME NEW p \in Polls, NEW t \in Tasks,
                PollAborts(p, t) \/ PollWriteFails(p, t)
         PROVE TypeOK'
    BY <1>0, <1>13 DEF PollAborts, PollWriteFails, NoPlan, Verdicts
  <1>14. ASSUME NEW j \in Jobs, JobStep(j) \/ JobFails(j) PROVE TypeOK'
    <2>1. job[j] \in JobStates /\ FreeJob \in JobStates
      BY <1>0, JobTypes
    <2>2. job[j].pc # "free" => job[j].task \in Tasks
      BY <1>0 DEF CountsOK
    <2>3. CASE JobRead(j)
      BY <1>0, <2>1, <2>2, <2>3 DEF JobRead, SetJob, JobStates, JobPcs
    <2>4. CASE JobCreateRun(j)
      BY <1>0, <2>1, <2>4 DEF JobCreateRun, SetJob, JobStates, JobPcs
    <2>5. CASE JobStart(j)
      <3>1. /\ [job[j] EXCEPT !.pc = "execute"] \in JobStates
            /\ [job[j] EXCEPT !.pc = "execute", !.run = "running"] \in JobStates
        BY <2>1 DEF JobStates, JobPcs
      <3>2. job' \in [Jobs -> JobStates]
        BY <1>0, <2>5, <3>1 DEF JobStart, SetJob
      <3>3. executed' \in SUBSET Tasks
        BY <1>0, <2>2, <2>5 DEF JobStart
      <3>4. faults' \in Nat
        BY <1>0, <2>5 DEF JobStart
      <3> QED
        BY <1>0, <2>5, <3>2, <3>3, <3>4 DEF JobStart
    <2>6. CASE JobResult(j)
      <3>1. \A r \in Finals :
              [job[j] EXCEPT !.pc = "settle", !.result = r] \in JobStates
        BY <2>1 DEF JobStates, JobPcs
      <3>2. job' \in [Jobs -> JobStates]
        BY <1>0, <2>6, <3>1 DEF JobResult, SetJob
      <3> QED
        BY <1>0, <2>6, <3>2 DEF JobResult
    <2>7. CASE JobSettle(j)
      <3>1. /\ [job[j] EXCEPT !.pc = "count"] \in JobStates
            /\ [job[j] EXCEPT !.pc = "count", !.run = job[j].result]
                 \in JobStates
        BY <2>1 DEF JobStates, JobPcs
      <3>2. job' \in [Jobs -> JobStates]
        BY <1>0, <2>7, <3>1 DEF JobSettle, SetJob
      <3>3. faults' \in Nat
        BY <1>0, <2>7 DEF JobSettle
      <3> QED
        BY <1>0, <2>7, <3>2, <3>3 DEF JobSettle
    <2>8. CASE JobCount(j)
      <3>1. Counted(j) \in Nat
        BY <2>1 DEF Counted, JobStates
      <3> QED
        BY <1>0, <2>1, <2>2, <2>8, <3>1 DEF JobCount, SetJob
    <2>9. CASE JobFails(j)
      BY <1>0, <2>1, <2>9 DEF JobFails, SetJob
    <2> QED
      BY <1>14, <2>3, <2>4, <2>5, <2>6, <2>7, <2>8, <2>9 DEF JobStep
  <1>15. CASE Crash
    <2>1. job' \in [Jobs -> JobStates]
      BY <1>0, <1>15, JobTypes DEF Crash, InWorker, CountsOK
    <2>2. callPc' \in [Calls -> {"idle", "write", "execute", "done"}]
      BY <1>0, <1>15 DEF Crash
    <2>3. plan' \in [Polls -> [Tasks -> Verdicts]]
      BY <1>15 DEF Crash, NoPlan, Verdicts
    <2>4. restarts' \in Nat /\ unscheduled' \in SUBSET Tasks
      BY <1>0, <1>15 DEF Crash
    <2> QED
      BY <1>0, <1>15, <2>1, <2>2, <2>3, <2>4 DEF Crash
  <1>16. CASE Restart \/ UNCHANGED vars
    BY <1>0, <1>16 DEF Restart, vars
  <1> QED
    BY <1>1, <1>2, <1>3, <1>4, <1>5, <1>6, <1>7, <1>8, <1>9, <1>10, <1>11,
       <1>12, <1>13, <1>14, <1>15, <1>16 DEF Next, PollStep

(* The active rows keep a nextRunAt: every write that makes a row active   *)
(* also sets one, and every write that clears it makes the row inactive.   *)
LEMMA ScheduledStep ==
  ASSUME TypeOK, ActiveIsScheduled, [Next]_vars
  PROVE  ActiveIsScheduled'
  <1> USE DEF ActiveIsScheduled, TypeOK
  <1>1. ASSUME NEW t \in Tasks,
               \/ ProposeTask(t) \/ CreateTask(t) \/ ScheduleFirst(t)
               \/ ScheduleFirstFails(t) \/ Tick(t)
        PROVE  ActiveIsScheduled'
    BY <1>1 DEF ProposeTask, CreateTask, ScheduleFirst, ScheduleFirstFails,
                Tick, row, history
  <1>2. ASSUME NEW c \in Calls, CallWrite(c) PROVE ActiveIsScheduled'
    <2>1. request[c].task \in Tasks /\ request[c].op \in Ops
      BY DEF Requests
    <2>2. request[c].op \in {"pause", "reject"}
            \/ NextRunAfter(request[c].op) = "future"
      BY DEF NextRunAfter
    <2> QED
      BY <1>2, <2>1, <2>2 DEF CallWrite, StatusAfter, NextRunAfter, history
  <1>3. ASSUME NEW p \in Polls, NEW t \in Tasks,
               PollClose(p, t) \/ PollReschedule(p, t)
        PROVE  ActiveIsScheduled'
    BY <1>3 DEF PollClose, PollReschedule, history
  <1>4. CASE Crash
    BY <1>4 DEF Crash, row, history
  <1>5. CASE UNCHANGED <<status, nextRun, creating, unscheduled>>
    BY <1>5
  <1>6. ASSUME NEW j \in Jobs, JobStep(j) \/ JobFails(j)
        PROVE  UNCHANGED <<status, nextRun, creating, unscheduled>>
    BY <1>6 DEF JobStep, OthersOfJob, JobRead, JobCreateRun, JobStart,
                JobResult, JobSettle, JobCount, JobFails
  <1>7. ASSUME NEW p \in Polls, NEW t \in Tasks,
               PollEnqueue(p, t) \/ PollAborts(p, t) \/ PollWriteFails(p, t)
        PROVE  UNCHANGED <<status, nextRun, creating, unscheduled>>
    BY <1>7 DEF PollEnqueue, PollAborts, PollWriteFails, row, history
  <1>8. ASSUME NEW c \in Calls,
               CallRead(c) \/ TriggerRun(c) \/ CallFault(c)
        PROVE  UNCHANGED <<status, nextRun, creating, unscheduled>>
    BY <1>8 DEF CallRead, TriggerRun, CallFault, row, history
  <1>9. ASSUME \/ \E t \in Tasks : PassExpiry(t)
               \/ \E p \in Polls : PollStart(p)
               \/ Restart \/ UNCHANGED vars
        PROVE  UNCHANGED <<status, nextRun, creating, unscheduled>>
    BY <1>9 DEF PassExpiry, PollStart, Restart, vars, row, history
  <1> QED
    BY <1>1, <1>2, <1>3, <1>4, <1>5, <1>6, <1>7, <1>8, <1>9
       DEF Next, PollStep

(* A step of a job frees it, or leaves it the task and count it carries.   *)
LEMMA JobKeepsTask ==
  ASSUME TypeOK, NEW j \in Jobs, JobStep(j) \/ JobFails(j)
  PROVE  \/ job'[j] = FreeJob
         \/ job'[j].task = job[j].task
  <1> USE DEF SetJob
  <1>1. job[j] \in JobStates /\ job \in [Jobs -> JobStates]
    BY DEF TypeOK
  <1>2. CASE JobRead(j) \/ JobCreateRun(j) \/ JobResult(j)
    <2>1. CASE JobRead(j)
      <3>1. \/ job'[j] = [job[j] EXCEPT !.pc = "create",
                                        !.seen = runCount[job[j].task]]
            \/ job'[j] = FreeJob
        BY <1>1, <2>1 DEF JobRead
      <3> QED
        BY <1>1, <3>1 DEF JobStates
    <2>2. CASE JobCreateRun(j)
      BY <1>1, <2>2 DEF JobCreateRun, JobStates
    <2>3. CASE JobResult(j)
      BY <1>1, <2>3 DEF JobResult, JobStates
    <2> QED
      BY <1>2, <2>1, <2>2, <2>3
  <1>3. CASE JobStart(j)
    <2>1. \/ job'[j] = [job[j] EXCEPT !.pc = "execute", !.run = "running"]
          \/ job'[j] = [job[j] EXCEPT !.pc = "execute"]
      BY <1>1, <1>3 DEF JobStart
    <2> QED
      BY <1>1, <2>1 DEF JobStates
  <1>4. CASE JobSettle(j)
    <2>1. \/ job'[j] = [job[j] EXCEPT !.pc = "count", !.run = job[j].result]
          \/ job'[j] = [job[j] EXCEPT !.pc = "count"]
      BY <1>1, <1>4 DEF JobSettle
    <2> QED
      BY <1>1, <2>1 DEF JobStates
  <1>5. CASE JobCount(j) \/ JobFails(j)
    BY <1>1, <1>5 DEF JobCount, JobFails
  <1> QED
    BY <1>2, <1>3, <1>4, <1>5 DEF JobStep

(* No count in anybody's hands gets ahead of the finished runs, and a      *)
(* poll's verdict, once justified, stays so: finished runs only grow.      *)
LEMMA CountsStep ==
  ASSUME IInv, [Next]_vars
  PROVE  CountsOK' /\ ClosedForCause'
  <1> DEFINE Goal == CountsOK' /\ ClosedForCause'
  <1> USE DEF CountsOK, ClosedForCause, TypeOK, IInv, row, history, bounds,
              OthersOfJob
  <1> USE TaskConstants
  <1>1. ASSUME NEW t \in Tasks,
               \/ ProposeTask(t) \/ CreateTask(t) \/ ScheduleFirst(t)
               \/ ScheduleFirstFails(t) \/ Tick(t) \/ PassExpiry(t)
        PROVE  Goal
    BY <1>1 DEF ProposeTask, CreateTask, ScheduleFirst, ScheduleFirstFails,
                Tick, PassExpiry
  <1>2. ASSUME NEW c \in Calls,
               CallRead(c) \/ CallWrite(c) \/ TriggerRun(c) \/ CallFault(c)
        PROVE  Goal
    <2>1. StatusAfter(request[c].op) \notin {"completed", "expired"}
      BY DEF StatusAfter
    <2> QED
      BY <1>2, <2>1 DEF CallRead, CallWrite, TriggerRun, CallFault
  <1>3. ASSUME NEW p \in Polls, PollStart(p) PROVE Goal
    <2>1. \A t \in Tasks :
            /\ Verdict(t) = "complete" => MaxRuns # 0 /\ finished[t] >= MaxRuns
            /\ Verdict(t) = "expire" => lapsed[t]
      BY DEF Verdict, LimitReached
    <2> QED
      BY <1>3, <2>1 DEF PollStart
  <1>4. ASSUME NEW p \in Polls, NEW t \in Tasks, PollClose(p, t) PROVE Goal
    BY <1>4 DEF PollClose, PollMayTake
  <1>5. ASSUME NEW p \in Polls, NEW t \in Tasks, PollEnqueue(p, t) PROVE Goal
    BY <1>5 DEF PollEnqueue, FreeJob
  <1>6. ASSUME NEW p \in Polls, NEW t \in Tasks,
               PollReschedule(p, t) \/ PollAborts(p, t) \/ PollWriteFails(p, t)
        PROVE  Goal
    BY <1>6 DEF PollReschedule, PollAborts, PollWriteFails, NoPlan
  <1>7. ASSUME NEW j \in Jobs, JobRead(j) PROVE Goal
    BY <1>7 DEF JobRead, SetJob, FreeJob, JobStates
  <1>8. ASSUME NEW j \in Jobs,
               \/ JobCreateRun(j) \/ JobStart(j) \/ JobResult(j)
               \/ JobSettle(j) \/ JobFails(j)
        PROVE  Goal
    <2>1. \/ job' = [job EXCEPT ![j] = FreeJob]
          \/ \E r \in JobStates : /\ job' = [job EXCEPT ![j] = r]
                                  /\ job[j].pc # "free"
                                  /\ r.task = job[j].task /\ r.seen = job[j].seen
      <3>1. CASE JobFails(j)
        BY <3>1 DEF JobFails, SetJob
      <3>2. CASE \/ JobCreateRun(j) \/ JobStart(j) \/ JobResult(j)
                 \/ JobSettle(j)
        <4> DEFINE r == job'[j]
        <4>1. r \in JobStates /\ job' = [job EXCEPT ![j] = r]
          BY <3>2, TypeStep DEF JobCreateRun, JobStart, JobResult, JobSettle,
                                SetJob
        <4>2. job[j] \in JobStates /\ job[j].pc # "free"
          BY <3>2 DEF JobCreateRun, JobStart, JobResult, JobSettle
        <4>3. r.task = job[j].task /\ r.seen = job[j].seen
          <5>1. CASE JobCreateRun(j)
            BY <4>2, <5>1 DEF JobCreateRun, SetJob, JobStates
          <5>2. CASE JobStart(j)
            <6>1. \/ r = [job[j] EXCEPT !.pc = "execute", !.run = "running"]
                  \/ r = [job[j] EXCEPT !.pc = "execute"]
              BY <5>2 DEF JobStart, SetJob
            <6> QED
              BY <4>2, <6>1 DEF JobStates
          <5>3. CASE JobResult(j)
            BY <4>2, <5>3 DEF JobResult, SetJob, JobStates
          <5>4. CASE JobSettle(j)
            <6>1. \/ r = [job[j] EXCEPT !.pc = "count", !.run = job[j].result]
                  \/ r = [job[j] EXCEPT !.pc = "count"]
              BY <5>4 DEF JobSettle, SetJob
            <6> QED
              BY <4>2, <6>1 DEF JobStates
          <5> QED
            BY <3>2, <5>1, <5>2, <5>3, <5>4
        <4> HIDE DEF r
        <4> QED
          BY <4>1, <4>2, <4>3
      <3> QED
        BY <1>8, <3>1, <3>2
    <2>2. UNCHANGED <<status, runCount, finished, plan, lapsed>>
      BY <1>8 DEF JobCreateRun, JobStart, JobResult, JobSettle, JobFails
    <2> QED
      BY <2>1, <2>2 DEF FreeJob
  <1>9. ASSUME NEW j \in Jobs, JobCount(j) PROVE Goal
    <2>1. job[j].task \in Tasks /\ job[j].seen <= finished[job[j].task]
      BY <1>9 DEF JobCount
    <2>2. job[j].seen \in Nat
      BY DEF JobStates
    <2>3. /\ finished' = [finished EXCEPT ![job[j].task] = @ + 1]
          /\ job' = [job EXCEPT ![j] = FreeJob]
          /\ UNCHANGED <<status, plan, lapsed>>
          /\ \/ runCount' = [runCount EXCEPT ![job[j].task] = job[j].seen + 1]
             \/ UNCHANGED runCount
      BY <1>9 DEF JobCount, SetJob, Counted
    <2>4. \A t \in Tasks : finished'[t] >= finished[t] /\ finished'[t] \in Nat
      BY <2>1, <2>3
    <2>5. \A t \in Tasks : runCount'[t] <= finished'[t]
      BY <2>1, <2>2, <2>3
    <2>6. \A i \in Jobs :
            job'[i].pc # "free" =>
              job'[i].task \in Tasks /\ job'[i].seen <= finished'[job'[i].task]
      BY <2>3, <2>4 DEF FreeJob, JobStates
    <2> QED
      BY <2>3, <2>4, <2>5, <2>6
  <1>10. CASE Crash
    <2>1. \A j \in Jobs :
            \/ job'[j] = FreeJob \/ job'[j] = job[j]
            \/ job'[j] = Redelivered(j) /\ job[j].pc # "free"
      BY <1>10 DEF Crash, InWorker
    <2>2. UNCHANGED <<status, runCount, finished, lapsed>> /\
          plan' = [p \in Polls |-> NoPlan]
      BY <1>10 DEF Crash
    <2>3. \A j \in Jobs :
            job'[j].pc # "free" =>
              job'[j].task \in Tasks /\ job'[j].seen <= finished'[job'[j].task]
      <3>1. SUFFICES ASSUME NEW j \in Jobs, job'[j].pc # "free"
                     PROVE  /\ job'[j].task \in Tasks
                            /\ job'[j].seen <= finished[job'[j].task]
        BY <2>2
      <3>2. CASE job'[j] = job[j]
        BY <3>1, <3>2
      <3>3. CASE job'[j] = Redelivered(j) /\ job[j].pc # "free"
        <4>1. job'[j].task = job[j].task /\ job'[j].seen = 0
          BY <3>3 DEF Redelivered, FreeJob
        <4> QED
          BY <3>3, <4>1
      <3> QED
        BY <2>1, <3>1, <3>2, <3>3 DEF FreeJob
    <2>4. \A p \in Polls, t \in Tasks : plan'[p][t] = "skip"
      BY <2>2 DEF NoPlan
    <2>5. CountsOK'
      BY <2>2, <2>3, <2>4
    <2> QED
      BY <2>2, <2>5
  <1>11. CASE Restart \/ UNCHANGED vars
    BY <1>11 DEF Restart, vars
  <1> QED
    BY <1>1, <1>2, <1>3, <1>4, <1>5, <1>6, <1>7, <1>8, <1>9, <1>10, <1>11
       DEF Next, PollStep, JobStep

(* What keeps a task's part of ApprovalOK: its row's origin, status and    *)
(* approval stay, and nothing new touches it or writes to it.              *)
TaskOK(t) ==
  /\ status[t] = "absent" =>
       /\ origin[t] = "static" /\ ~Touched(t)
       /\ \A c \in Calls : request[c].task = t => callPc[c] # "write"
  /\ Unapproved(t) => status[t] \in {"proposed", "rejected"} /\ ~Touched(t)

(* A row that is active or paused is static or approved: what it lets in   *)
(* may run.                                                                *)
LEMMA LetIn ==
  ASSUME ApprovalOK, NEW t \in Tasks,
         status[t] \in {"active", "paused"} \/ Touched(t)
  PROVE  ~Unapproved(t) /\ status[t] # "absent"
  BY DEF ApprovalOK

(* Every step keeps an unapproved proposal from being run.                 *)
LEMMA ApprovalStep ==
  ASSUME IInv, [Next]_vars
  PROVE  ApprovalOK'
  <1> DEFINE Same(t) == UNCHANGED <<origin[t], status[t], approved[t]>>
  <1>0. TypeOK /\ ApprovalOK /\ CountsOK
    BY DEF IInv
  <1>1. ASSUME NEW t \in Tasks, ProposeTask(t) PROVE ApprovalOK'
    BY <1>0, <1>1 DEF ProposeTask, ApprovalOK, Touched, Unapproved, TypeOK,
                      history
  <1>2. ASSUME NEW t \in Tasks, CreateTask(t) PROVE ApprovalOK'
    BY <1>0, <1>2 DEF CreateTask, ApprovalOK, Touched, Unapproved, TypeOK,
                      history
  <1>3. ASSUME NEW t \in Tasks,
               ScheduleFirst(t) \/ ScheduleFirstFails(t) \/ Tick(t) \/ PassExpiry(t)
        PROVE  ApprovalOK'
    BY <1>0, <1>3 DEF ScheduleFirst, ScheduleFirstFails, Tick, PassExpiry,
         ApprovalOK, Touched, Unapproved, TypeOK, row, history
  <1>4. ASSUME NEW c \in Calls, CallRead(c) PROVE ApprovalOK'
    <2> DEFINE t == request[c].task
    <2>1. t \in Tasks
      BY <1>0 DEF TypeOK, Requests
    <2>2. /\ UNCHANGED <<row, request, creating, executed, plan, job>>
          /\ \A d \in Calls \ {c} : callPc'[d] = callPc[d]
          /\ status[t] # "absent"
      BY <1>0, <1>4 DEF CallRead, TypeOK, history
    <2>3. (\/ callPc'[c] = "execute"
           \/ callPc'[c] = "write" /\ request[c].op \notin {"approve", "reject"})
          => status[t] \in {"active", "paused"}
      BY <1>0, <1>4, <2>1 DEF CallRead, Required, TypeOK, Requests, Ops
    <2>4. \A u \in Tasks :
            Touched(u)' =>
              \/ Touched(u)
              \/ u = t /\ status[u] \in {"active", "paused"}
      BY <2>2, <2>3 DEF Touched
    <2>5. \A u \in Tasks : Touched(u)' => ~Unapproved(u) /\ status[u] # "absent"
      BY <1>0, <2>4, LetIn
    <2> QED
      BY <1>0, <2>2, <2>5 DEF ApprovalOK, Unapproved, row
  <1>5. ASSUME NEW c \in Calls, CallWrite(c) PROVE ApprovalOK'
    <2> DEFINE t == request[c].task
               op == request[c].op
    <2>1. t \in Tasks /\ op \in Ops
      BY <1>0 DEF TypeOK, Requests
    <2>2. /\ UNCHANGED <<origin, request, creating, executed, plan, job>>
          /\ \A d \in Calls \ {c} : callPc'[d] = callPc[d]
          /\ callPc'[c] = "done" /\ callPc[c] = "write"
          /\ \A u \in Tasks \ {t} : Same(u)
          /\ status'[t] = StatusAfter(op)
          /\ op = "approve" => approved'[t]
          /\ op # "approve" => approved'[t] = approved[t]
      BY <1>0, <1>5, <2>1 DEF CallWrite, TypeOK, history
    <2>3. op \notin {"approve", "reject"} => ~Unapproved(t)
      BY <1>0, <2>1, <2>2, LetIn DEF Touched
    <2>4. status[t] # "absent" /\ status'[t] # "absent"
      BY <1>0, <2>1, <2>2 DEF ApprovalOK, StatusAfter
    <2>5. op = "reject" => status'[t] = "rejected"
      BY <2>2 DEF StatusAfter
    <2>6. \A u \in Tasks : Touched(u)' => Touched(u)
      BY <2>2 DEF Touched
    <2>7. ASSUME NEW u \in Tasks PROVE TaskOK(u)'
      <3>1. CASE u = t
        BY <1>0, <2>1, <2>2, <2>3, <2>4, <2>5, <2>6, <3>1
           DEF ApprovalOK, TaskOK, Unapproved, Ops
      <3>2. CASE u # t
        BY <1>0, <2>2, <2>6, <3>2 DEF ApprovalOK, TaskOK, Unapproved
      <3> QED
        BY <3>1, <3>2
    <2> QED
      BY <2>7 DEF TaskOK, ApprovalOK
  <1>6. ASSUME NEW c \in Calls, TriggerRun(c) \/ CallFault(c) PROVE ApprovalOK'
    <2>1. request[c].task \in Tasks
      BY <1>0 DEF TypeOK, Requests
    <2>2. /\ UNCHANGED <<row, request, creating, plan, job>>
          /\ \A d \in Calls : callPc'[d] = callPc[d] \/ callPc'[d] = "done"
          /\ \/ executed' = executed
             \/ /\ executed' = executed \cup {request[c].task}
                /\ callPc[c] = "execute"
      BY <1>0, <1>6 DEF TriggerRun, CallFault, TypeOK, history
    <2>3. \A t \in Tasks : Touched(t)' => Touched(t)
      BY <2>1, <2>2 DEF Touched
    <2> QED
      BY <1>0, <2>2, <2>3 DEF ApprovalOK, Unapproved, row
  <1>7. ASSUME NEW p \in Polls, PollStart(p) PROVE ApprovalOK'
    <2>1. /\ UNCHANGED <<row, request, creating, executed, callPc, job>>
          /\ \A q \in Polls, t \in Tasks :
               \/ plan'[q][t] = plan[q][t] \/ plan'[q][t] = "skip"
               \/ status[t] = "active"
      BY <1>0, <1>7 DEF PollStart, DueTasks, TypeOK, history
    <2>2. \A t \in Tasks : Touched(t)' => Touched(t) \/ status[t] = "active"
      BY <2>1 DEF Touched
    <2> QED
      BY <1>0, <2>1, <2>2, LetIn DEF ApprovalOK, Unapproved, row
  <1>8. ASSUME NEW p \in Polls, NEW t \in Tasks, PollClose(p, t)
        PROVE  ApprovalOK'
    <2>1. /\ UNCHANGED <<origin, approved, request, creating, executed, callPc,
                         job>>
          /\ \A q \in Polls, u \in Tasks :
               plan'[q][u] = plan[q][u] \/ plan'[q][u] = "skip"
          /\ plan[p][t] # "skip" /\ status'[t] # "absent"
          /\ \A u \in Tasks \ {t} : status'[u] = status[u]
      BY <1>0, <1>8 DEF PollClose, PollMayTake, TypeOK, history
    <2>2. \A u \in Tasks : Touched(u)' => Touched(u)
      BY <2>1 DEF Touched
    <2>3. ~Unapproved(t)
      BY <1>0, <2>1, LetIn DEF Touched
    <2> QED
      BY <1>0, <2>1, <2>2, <2>3 DEF ApprovalOK, Unapproved
  <1>9. ASSUME NEW p \in Polls, NEW t \in Tasks, PollEnqueue(p, t)
        PROVE  ApprovalOK'
    <2>1. /\ UNCHANGED <<row, request, creating, executed, callPc>>
          /\ plan[p][t] = "enqueue"
          /\ \A q \in Polls, u \in Tasks : plan'[q][u] = plan[q][u] \/ u = t
          /\ \A j \in Jobs : job'[j] = job[j] \/ job'[j].task = t
      BY <1>0, <1>9 DEF PollEnqueue, PollMayTake, FreeJob, TypeOK, history
    <2>2. \A u \in Tasks : Touched(u)' => Touched(u) \/ u = t
      BY <2>1 DEF Touched
    <2>3. Touched(t)
      BY <2>1 DEF Touched
    <2> QED
      BY <1>0, <2>1, <2>2, <2>3 DEF ApprovalOK, Unapproved, row
  <1>10. ASSUME NEW p \in Polls, NEW t \in Tasks,
                PollReschedule(p, t) \/ PollAborts(p, t) \/ PollWriteFails(p, t)
         PROVE  ApprovalOK'
    <2>1. /\ UNCHANGED <<origin, status, approved, request, creating, executed,
                         callPc, job>>
          /\ \A q \in Polls, u \in Tasks :
               plan'[q][u] = plan[q][u] \/ plan'[q][u] = "skip"
      <3>1. UNCHANGED <<origin, status, approved, request, creating, executed,
                        callPc, job>>
        BY <1>10 DEF PollReschedule, PollAborts, PollWriteFails, history, row
      <3>2. \/ plan' = [plan EXCEPT ![p][t] = "skip"]
            \/ plan' = [plan EXCEPT ![p] = NoPlan]
        BY <1>10 DEF PollReschedule, PollAborts, PollWriteFails
      <3>3. plan \in [Polls -> [Tasks -> Verdicts]]
        BY <1>0 DEF TypeOK
      <3> QED
        BY <3>1, <3>2, <3>3 DEF NoPlan
    <2>2. \A u \in Tasks : Touched(u)' => Touched(u)
      BY <2>1 DEF Touched
    <2> QED
      BY <1>0, <2>1, <2>2 DEF ApprovalOK, Unapproved
  <1>11. ASSUME NEW j \in Jobs, JobStep(j) \/ JobFails(j) PROVE ApprovalOK'
    <2>1. /\ UNCHANGED <<origin, status, approved, request, creating, callPc,
                         plan>>
          /\ executed' \in {executed, executed \cup {job[j].task}}
          /\ job[j].pc # "free"
          /\ \A i \in Jobs \ {j} : job'[i] = job[i]
      BY <1>0, <1>11 DEF JobStep, JobFails, JobRead, JobCreateRun, JobStart,
           JobResult, JobSettle, JobCount, SetJob, OthersOfJob, TypeOK
    <2>2. job'[j].pc = "free" \/ job'[j].task = job[j].task
      BY <1>0, <1>11, JobKeepsTask DEF FreeJob
    <2>3. \A t \in Tasks : Touched(t)' => Touched(t)
      BY <2>1, <2>2 DEF Touched
    <2> QED
      BY <1>0, <2>1, <2>3 DEF ApprovalOK, Unapproved
  <1>12. CASE Crash
    <2>1. /\ UNCHANGED <<row, request, executed>>
          /\ creating' = {}
          /\ \A p \in Polls, t \in Tasks : plan'[p][t] = "skip"
          /\ \A c \in Calls : callPc'[c] \in {"idle", "done"}
      BY <1>12 DEF Crash, NoPlan
    <2>2. \A j \in Jobs :
            job'[j].pc # "free" =>
              job[j].pc # "free" /\ job'[j].task = job[j].task
      <3>1. \A j \in Jobs :
              \/ job'[j] = FreeJob \/ job'[j] = job[j]
              \/ job'[j] = Redelivered(j) /\ job[j].pc # "free"
        BY <1>12 DEF Crash, InWorker
      <3>2. \A j \in Jobs : Redelivered(j).task = job[j].task
        BY DEF Redelivered, FreeJob
      <3> QED
        BY <3>1, <3>2 DEF FreeJob
    <2>3. \A t \in Tasks : Touched(t)' => Touched(t)
      BY <2>1, <2>2 DEF Touched
    <2> QED
      BY <1>0, <2>1, <2>3 DEF ApprovalOK, Unapproved, row
  <1>13. CASE Restart \/ UNCHANGED vars
    BY <1>0, <1>13 DEF Restart, vars, ApprovalOK, Touched, Unapproved, row,
         history
  <1> QED
    BY <1>1, <1>2, <1>3, <1>4, <1>5, <1>6, <1>7, <1>8, <1>9, <1>10, <1>11,
       <1>12, <1>13 DEF Next, PollStep

(* IInv is an inductive invariant of the scheduler.                        *)
LEMMA Inductive == Spec => []IInv
  <1>1. IInv /\ [Next]_vars => IInv'
    BY TypeStep, ScheduledStep, CountsStep, ApprovalStep DEF IInv
  <1> QED
    BY InitIInv, <1>1, PTL DEF Spec

-----------------------------------------------------------------------------
(* Rows, plans, jobs and run records stay within the states the source     *)
(* names.                                                                  *)
THEOREM TypeCorrect == Spec => []TypeOK
  <1>1. IInv => TypeOK
    BY DEF IInv
  <1> QED
    BY Inductive, <1>1, PTL

(* No agent is ever started for a task an agent proposed and no human has  *)
(* approved: not by the worker, a redelivered job, or the trigger route.   *)
THEOREM ApprovalBeforeRun == Spec => []RunNeedsApproval
  <1>1. IInv => RunNeedsApproval
    BY DEF IInv, TypeOK, ApprovalOK, Touched, Unapproved, RunNeedsApproval
  <1> QED
    BY Inductive, <1>1, PTL

(* An active task is never left without a next run time by a race of the   *)
(* manager and the polls.                                                  *)
THEOREM ActiveHasNextRun == Spec => []ActiveIsScheduled
  <1>1. IInv => ActiveIsScheduled
    BY DEF IInv
  <1> QED
    BY Inductive, <1>1, PTL

(* A poll never completes a task before maxRuns runs have finished, nor    *)
(* expires one before its expiry, on however stale a snapshot.             *)
THEOREM ClosingIsJustified == Spec => []ClosedForCause
  <1>1. IInv => ClosedForCause
    BY DEF IInv
  <1> QED
    BY Inductive, <1>1, PTL

-----------------------------------------------------------------------------
(* The promise.  What is needed beside IInv: an approval or a rejection on *)
(* its way to its write concerns a task that was proposed, because it was  *)
(* when the request looked and that never changes; and a run that is about *)
(* to be over has begun.                                                   *)
WritesOK ==
  /\ \A t \in Tasks : status[t] = "proposed" => origin[t] = "agent_proposed"
  /\ \A c \in Calls :
       callPc[c] = "write" /\ request[c].op \in {"approve", "reject"}
         => origin[request[c].task] = "agent_proposed"
BegunOK ==
  \A j \in Jobs : job[j].pc \in {"execute", "settle", "count"}
                    => job[j].task \in executed
PInv == IInv /\ WritesOK /\ BegunOK

LEMMA WritesStep ==
  ASSUME TypeOK, WritesOK, [Next]_vars
  PROVE  WritesOK'
  <1> USE DEF WritesOK, TypeOK
  <1>0. \A c \in Calls : request[c].task \in Tasks /\ request[c].op \in Ops
    BY DEF Requests
  <1>1. ASSUME NEW t \in Tasks, ProposeTask(t) \/ CreateTask(t)
        PROVE  WritesOK'
    BY <1>0, <1>1 DEF ProposeTask, CreateTask
  <1>2. ASSUME NEW c \in Calls, CallRead(c) PROVE WritesOK'
    <2>1. callPc'[c] = "write" /\ request[c].op \in {"approve", "reject"}
            => status[request[c].task] = "proposed"
      BY <1>0, <1>2 DEF CallRead, Required
    <2>2. \A d \in Calls \ {c} : callPc'[d] = callPc[d]
      BY <1>2 DEF CallRead
    <2> QED BY <1>0, <1>2, <2>1, <2>2 DEF CallRead, row
  <1>3. ASSUME NEW c \in Calls, CallWrite(c) PROVE WritesOK'
    <2>1. StatusAfter(request[c].op) # "proposed"
      BY DEF StatusAfter
    <2> QED BY <1>0, <1>3, <2>1 DEF CallWrite
  <1>4. ASSUME NEW c \in Calls, TriggerRun(c) \/ CallFault(c) PROVE WritesOK'
    BY <1>0, <1>4 DEF TriggerRun, CallFault, row
  <1>5. ASSUME NEW p \in Polls, NEW t \in Tasks, PollClose(p, t)
        PROVE  WritesOK'
    BY <1>0, <1>5 DEF PollClose
  <1>6. CASE Crash
    BY <1>0, <1>6 DEF Crash, row
  <1>7. CASE UNCHANGED <<origin, status, request, callPc>>
    BY <1>7
  <1>8. ASSUME NEW j \in Jobs, JobStep(j) \/ JobFails(j)
        PROVE  UNCHANGED <<origin, status, request, callPc>>
    BY <1>8 DEF JobStep, OthersOfJob, JobRead, JobCreateRun, JobStart,
                JobResult, JobSettle, JobCount, JobFails
  <1>9. ASSUME \/ \E t \in Tasks : \/ ScheduleFirst(t) \/ ScheduleFirstFails(t)
                                   \/ Tick(t) \/ PassExpiry(t)
               \/ \E p \in Polls, t \in Tasks :
                    \/ PollEnqueue(p, t) \/ PollReschedule(p, t)
                    \/ PollAborts(p, t) \/ PollWriteFails(p, t)
               \/ \E p \in Polls : PollStart(p)
               \/ Restart \/ UNCHANGED vars
        PROVE  UNCHANGED <<origin, status, request, callPc>>
    BY <1>9 DEF ScheduleFirst, ScheduleFirstFails, Tick, PassExpiry,
       PollEnqueue, PollReschedule, PollAborts, PollWriteFails, PollStart,
       Restart, vars, row
  <1> QED BY <1>1, <1>2, <1>3, <1>4, <1>5, <1>6, <1>7, <1>8, <1>9
             DEF Next, PollStep

(* A job's steps from one place to the next.                               *)
LEMMA JobPlaces ==
  ASSUME TypeOK, NEW j \in Jobs, JobStep(j) \/ JobFails(j)
  PROVE  /\ \A i \in Jobs \ {j} : job'[i] = job[i]
         /\ job'[j].pc \in {"settle", "count"} =>
              job[j].pc \in {"execute", "settle"}
         /\ job'[j].pc = "execute" => JobStart(j)
         /\ executed \subseteq executed'
         /\ JobStart(j) => executed' = executed \cup {job[j].task}
  <1>1. job[j] \in JobStates /\ job \in [Jobs -> JobStates]
    BY DEF TypeOK
  <1>2. CASE JobRead(j) \/ JobCreateRun(j) \/ JobFails(j) \/ JobCount(j)
    <2>1. \/ \E p \in {"create", "start"} : job'[j].pc = p
          \/ job'[j] = FreeJob
      BY <1>1, <1>2 DEF JobRead, JobCreateRun, JobFails, JobCount, SetJob,
                        JobStates
    <2>2. job'[j].pc \in {"create", "start", "free"}
      BY <2>1 DEF FreeJob
    <2>3. \A i \in Jobs \ {j} : job'[i] = job[i]
      BY <1>1, <1>2 DEF JobRead, JobCreateRun, JobFails, JobCount, SetJob
    <2>4. executed' = executed
      BY <1>2 DEF JobRead, JobCreateRun, JobFails, JobCount
    <2>5. ~JobStart(j)
      BY <1>2 DEF JobRead, JobCreateRun, JobFails, JobCount, JobStart
    <2> QED BY <2>2, <2>3, <2>4, <2>5
  <1>3. CASE JobStart(j)
    BY <1>1, <1>3 DEF JobStart, SetJob, JobStates
  <1>4. CASE JobResult(j)
    BY <1>1, <1>4 DEF JobResult, JobStart, SetJob, JobStates
  <1>5. CASE JobSettle(j)
    BY <1>1, <1>5 DEF JobSettle, JobStart, SetJob, JobStates
  <1> QED BY <1>2, <1>3, <1>4, <1>5 DEF JobStep

LEMMA BegunStep ==
  ASSUME TypeOK, BegunOK, [Next]_vars
  PROVE  BegunOK'
  <1> USE DEF BegunOK
  <1>1. ASSUME NEW j \in Jobs, JobStep(j) \/ JobFails(j) PROVE BegunOK'
    <2>1. job'[j] = FreeJob \/ job'[j].task = job[j].task
      BY <1>1, JobKeepsTask
    <2>2. FreeJob.pc = "free"
      BY DEF FreeJob
    <2> QED BY <1>1, <2>1, <2>2, JobPlaces
  <1>2. ASSUME NEW p \in Polls, NEW t \in Tasks, PollEnqueue(p, t)
        PROVE  BegunOK'
    BY <1>2 DEF PollEnqueue, TypeOK, FreeJob, history
  <1>3. CASE Crash
    <2>1. \A j \in Jobs : job'[j] \in {job[j], FreeJob, Redelivered(j)}
      BY <1>3 DEF Crash
    <2>2. \A j \in Jobs : Redelivered(j).pc = "queued" /\ FreeJob.pc = "free"
      BY DEF Redelivered, FreeJob
    <2>3. executed' = executed
      BY <1>3 DEF Crash
    <2> QED BY <2>1, <2>2, <2>3
  <1>4. ASSUME \/ \E t \in Tasks :
                    \/ ProposeTask(t) \/ CreateTask(t) \/ ScheduleFirst(t)
                    \/ ScheduleFirstFails(t) \/ Tick(t) \/ PassExpiry(t)
               \/ \E p \in Polls, t \in Tasks :
                    \/ PollClose(p, t) \/ PollReschedule(p, t)
                    \/ PollAborts(p, t) \/ PollWriteFails(p, t)
               \/ \E c \in Calls : \/ CallRead(c) \/ CallWrite(c)
                                   \/ TriggerRun(c) \/ CallFault(c)
               \/ \E p \in Polls : PollStart(p)
               \/ Restart \/ UNCHANGED vars
        PROVE  job' = job /\ executed \subseteq executed'
    BY <1>4 DEF ProposeTask, CreateTask, ScheduleFirst, ScheduleFirstFails,
       Tick, PassExpiry, PollClose, PollReschedule, PollAborts,
       PollWriteFails, CallRead, CallWrite, TriggerRun, CallFault, PollStart,
       Restart, vars, history
  <1>5. ASSUME job' = job, executed \subseteq executed' PROVE BegunOK'
    BY <1>5
  <1> QED BY <1>1, <1>2, <1>3, <1>4, <1>5 DEF Next, PollStep

LEMMA PInvariance == Spec => []PInv
  <1>1. Init => WritesOK /\ BegunOK
    BY DEF Init, WritesOK, BegunOK, FreeJob
  <1>2. PInv /\ [Next]_vars => WritesOK' /\ BegunOK'
    BY WritesStep, BegunStep DEF PInv, IInv
  <1> QED BY <1>1, <1>2, Inductive, PTL DEF Spec, PInv

-----------------------------------------------------------------------------
(* Whoever has something on its way to a run of a task, or left by one,    *)
(* has a licence.                                                          *)
LEMMA TouchedIsLicensed ==
  ASSUME IInv, NEW t \in Tasks, Touched(t)
  PROVE  Promise!Licensed(t)
  BY DEF IInv, TypeOK, ApprovalOK, Unapproved, Promise!Licensed

Scheduled == {t \in Tasks : nextRun[t] # "null"}

LEMMA ScheduledMoves ==
  ASSUME TypeOK, NEW t \in Tasks
  PROVE  /\ nextRun' = [nextRun EXCEPT ![t] = "future"] =>
              Scheduled' = Scheduled \cup {t}
         /\ nextRun' = [nextRun EXCEPT ![t] = "null"] =>
              Scheduled' = Scheduled \ {t}
  BY DEF TypeOK, Scheduled

LEMMA ScheduledKept == nextRun' = nextRun => Scheduled' = Scheduled
  BY DEF Scheduled

Quiet == UNCHANGED <<origin, status, Scheduled, approved, lapsed, creating,
                     unscheduled, runCount, executed, finished>>

LEMMA QuietStutters == Quiet => UNCHANGED Promise!vars
  BY DEF Quiet, Promise!vars, Promise!life, Promise!runs, Scheduled

(* The life of a task.                                                     *)
LEMMA CreationPromised ==
  ASSUME PInv, NEW t \in Tasks
  PROVE  /\ ProposeTask(t) => Promise!Propose(t)
         /\ CreateTask(t) => Promise!Create(t)
         /\ ScheduleFirst(t) => Promise!SetUp(t)
         /\ ScheduleFirstFails(t) => Promise!GiveUp
         /\ Tick(t) => Quiet
         /\ PassExpiry(t) => Promise!PassExpiry(t)
  <1> USE DEF Promise!Become, Promise!Plan, Promise!runs, Promise!life,
              row, history, Scheduled
  <1>0. TypeOK
    BY DEF PInv, IInv
  <1>1. ASSUME ProposeTask(t) PROVE Promise!Propose(t)
    BY <1>0, <1>1, ScheduledKept DEF ProposeTask, Promise!Propose
  <1>2. ASSUME CreateTask(t) PROVE Promise!Create(t)
    BY <1>0, <1>2, ScheduledKept DEF CreateTask, Promise!Create
  <1>3. ASSUME ScheduleFirst(t) PROVE Promise!SetUp(t)
    <2>1. Scheduled' = Scheduled \cup {t}
      BY <1>0, <1>3, ScheduledMoves DEF ScheduleFirst
    <2> QED BY <1>3, <2>1 DEF ScheduleFirst, Promise!SetUp
  <1>4. ASSUME ScheduleFirstFails(t) PROVE Promise!GiveUp
    BY <1>4, ScheduledKept DEF ScheduleFirstFails, Promise!GiveUp
  <1>5. ASSUME Tick(t) PROVE Quiet
    <2>1. Scheduled' = Scheduled
      BY <1>0, <1>5 DEF Tick, TypeOK
    <2> QED BY <1>5, <2>1 DEF Tick, Quiet
  <1>6. ASSUME PassExpiry(t) PROVE Promise!PassExpiry(t)
    BY <1>6, ScheduledKept DEF PassExpiry, Promise!PassExpiry
  <1> QED BY <1>1, <1>2, <1>3, <1>4, <1>5, <1>6

(* What a request writes on what it read.                                  *)
LEMMA CallPromised ==
  ASSUME PInv, NEW c \in Calls, CallWrite(c)
  PROVE  \E t \in Tasks :
           Promise!Approve(t) \/ Promise!Reject(t) \/ Promise!Turn(t)
  <1> DEFINE op == request[c].op
  <1> TypeOK /\ request[c].task \in Tasks /\ op \in Ops
    BY DEF PInv, IInv, TypeOK, Requests
  <1> SUFFICES ASSUME NEW t \in Tasks, t = request[c].task
               PROVE  Promise!Approve(t) \/ Promise!Reject(t) \/ Promise!Turn(t)
    OBVIOUS
  <1>1. status[t] # "absent"
    BY DEF CallWrite, PInv, IInv, ApprovalOK
  <1>2. op \in {"approve", "reject"} => Promise!Proposed(t)
    BY <1>1 DEF CallWrite, PInv, WritesOK, Promise!Proposed
  <1>3. op \notin {"approve", "reject"} => Promise!Licensed(t)
    BY TouchedIsLicensed DEF CallWrite, PInv, Touched
  <1>4. /\ status' = [status EXCEPT ![t] = StatusAfter(op)]
        /\ nextRun' = IF op = "reject" THEN nextRun
                      ELSE [nextRun EXCEPT ![t] = NextRunAfter(op)]
        /\ approved' = IF op = "approve" THEN [approved EXCEPT ![t] = TRUE]
                       ELSE approved
        /\ UNCHANGED <<origin, runCount, lapsed, creating, unscheduled,
                       executed, finished>>
    BY DEF CallWrite, history
  <1> HIDE DEF op
  <1>5. CASE op = "approve"
    <2>1. Scheduled' = Scheduled \cup {t}
      BY <1>4, <1>5, ScheduledMoves DEF NextRunAfter
    <2> QED BY <1>2, <1>4, <1>5, <2>1 DEF StatusAfter, Promise!Approve,
               Promise!Become, Promise!Plan, Promise!runs, Scheduled
  <1>6. CASE op = "reject"
    BY <1>2, <1>4, <1>6, ScheduledKept DEF StatusAfter, Promise!Reject,
       Promise!Become, Promise!runs, Scheduled
  <1>7. CASE op = "pause"
    <2>1. Scheduled' = Scheduled \ {t}
      BY <1>4, <1>7, ScheduledMoves DEF NextRunAfter
    <2> QED BY <1>3, <1>4, <1>7, <2>1 DEF StatusAfter, Promise!Turn,
               Promise!Pause, Promise!Become, Promise!Unplan, Promise!runs,
               Scheduled
  <1>8. CASE op \in {"resume", "trigger"}
    <2>1. Scheduled' = Scheduled \cup {t}
      BY <1>4, <1>8, ScheduledMoves DEF NextRunAfter
    <2> QED BY <1>3, <1>4, <1>8, <2>1 DEF StatusAfter, Promise!Turn,
               Promise!Resume, Promise!Become, Promise!Plan, Promise!runs,
               Scheduled
  <1> QED BY <1>5, <1>6, <1>7, <1>8 DEF Ops

(* What a poll writes on its snapshot.                                     *)
LEMMA PollPromised ==
  ASSUME PInv, NEW p \in Polls, NEW t \in Tasks
  PROVE  /\ PollClose(p, t) => Promise!Turn(t)
         /\ PollReschedule(p, t) => Promise!PlanNext(t)
  <1>0. TypeOK
    BY DEF PInv, IInv
  <1>1. plan[p][t] # "skip" => Promise!Licensed(t)
    BY TouchedIsLicensed DEF PInv, Touched
  <1>2. ASSUME PollClose(p, t) PROVE Promise!Turn(t)
    <2>1. Scheduled' = Scheduled \ {t}
      BY <1>0, <1>2, ScheduledMoves DEF PollClose
    <2>2. plan[p][t] # "skip"
      BY <1>2 DEF PollClose, PollMayTake
    <2>3. \/ /\ MaxRuns # 0 /\ finished[t] >= MaxRuns
             /\ status' = [status EXCEPT ![t] = "completed"]
          \/ lapsed[t] /\ status' = [status EXCEPT ![t] = "expired"]
      BY <1>2 DEF PollClose, PollMayTake, PInv, IInv, CountsOK
    <2> QED BY <1>1, <1>2, <2>1, <2>2, <2>3 DEF PollClose, Promise!Turn,
               Promise!Close, Promise!Become, Promise!Unplan, Promise!runs,
               Scheduled, history
  <1>3. ASSUME PollReschedule(p, t) PROVE Promise!PlanNext(t)
    <2>1. Scheduled' = Scheduled \cup {t}
      BY <1>0, <1>3, ScheduledMoves DEF PollReschedule
    <2>2. plan[p][t] # "skip"
      BY <1>3 DEF PollReschedule, PollMayTake
    <2> QED BY <1>1, <1>3, <2>1, <2>2 DEF PollReschedule, Promise!PlanNext,
               Promise!Plan, Promise!life, Promise!runs, Scheduled, history
  <1> QED BY <1>2, <1>3

(* A run begins in a job or in the trigger's request, and is over in a job *)
(* that began it.                                                          *)
LEMMA RunPromised ==
  ASSUME PInv
  PROVE  /\ \A c \in Calls : TriggerRun(c) => Promise!Begin(request[c].task)
         /\ \A j \in Jobs : JobStart(j) => Promise!Begin(job[j].task)
         /\ \A j \in Jobs : JobCount(j) => Promise!Finish(job[j].task)
  <1>0. TypeOK
    BY DEF PInv, IInv
  <1>1. ASSUME NEW c \in Calls, TriggerRun(c)
        PROVE  Promise!Begin(request[c].task)
    <2>1. request[c].task \in Tasks
      BY <1>0 DEF TypeOK, Requests
    <2>2. Promise!Licensed(request[c].task)
      BY <1>1, <2>1, TouchedIsLicensed DEF TriggerRun, PInv, Touched
    <2> QED BY <1>1, <2>2, ScheduledKept DEF TriggerRun, Promise!Begin,
               Promise!life, Scheduled, row
  <1>2. ASSUME NEW j \in Jobs, job[j].pc # "free"
        PROVE  /\ job[j].task \in Tasks /\ Promise!Licensed(job[j].task)
               /\ job[j].seen \in Nat /\ job[j].seen <= finished[job[j].task]
               /\ finished[job[j].task] \in Nat
    <2>1. /\ job[j].task \in Tasks
          /\ job[j].seen \in Nat /\ job[j].seen <= finished[job[j].task]
      BY <1>0, <1>2 DEF PInv, IInv, CountsOK, TypeOK, JobStates
    <2> QED BY <1>0, <1>2, <2>1, TouchedIsLicensed DEF PInv, Touched, TypeOK
  <1>3. ASSUME NEW j \in Jobs, JobStart(j) PROVE Promise!Begin(job[j].task)
    BY <1>2, <1>3, ScheduledKept DEF JobStart, OthersOfJob, Promise!Begin,
       Promise!life, Scheduled
  <1>4. ASSUME NEW j \in Jobs, JobCount(j) PROVE Promise!Finish(job[j].task)
    <2>1. job[j].task \in executed
      BY <1>4 DEF JobCount, PInv, BegunOK
    <2>2. Counted(j) \in 1 .. finished[job[j].task] + 1
      BY <1>2, <1>4 DEF JobCount, Counted
    <2> QED BY <1>4, <2>1, <2>2, ScheduledKept DEF JobCount, OthersOfJob,
               Promise!Finish, Promise!life, Scheduled
  <1> QED BY <1>1, <1>3, <1>4

LEMMA PromiseInit == Init => Promise!Init
  BY DEF Init, Promise!Init

LEMMA PromiseStep ==
  ASSUME PInv, [Next]_vars
  PROVE  [Promise!Next]_Promise!vars
  <1>0. TypeOK
    BY DEF PInv, IInv
  <1>1. ASSUME NEW t \in Tasks,
               \/ ProposeTask(t) \/ CreateTask(t) \/ ScheduleFirst(t)
               \/ ScheduleFirstFails(t) \/ Tick(t) \/ PassExpiry(t)
        PROVE  Quiet \/ Promise!Next
    BY <1>1, CreationPromised DEF Promise!Next
  <1>2. ASSUME NEW c \in Calls, CallWrite(c) \/ TriggerRun(c)
        PROVE  Promise!Next
    <2>1. request[c].task \in Tasks
      BY <1>0 DEF TypeOK, Requests
    <2>2. \E t \in Tasks : \/ Promise!Approve(t) \/ Promise!Reject(t)
                          \/ Promise!Turn(t) \/ Promise!Begin(t)
      <3>1. CASE CallWrite(c)
        BY <3>1, CallPromised
      <3>2. CASE TriggerRun(c)
        BY <2>1, <3>2, RunPromised
      <3> QED BY <1>2, <3>1, <3>2
    <2> QED BY <2>2 DEF Promise!Next
  <1>3. ASSUME NEW p \in Polls, NEW t \in Tasks,
               PollClose(p, t) \/ PollReschedule(p, t)
        PROVE  Promise!Next
    BY <1>3, PollPromised DEF Promise!Next
  <1>4. ASSUME NEW j \in Jobs, JobStart(j) \/ JobCount(j)
        PROVE  Promise!Next
    <2>1. job[j].pc # "free"
      BY <1>4 DEF JobStart, JobCount
    <2>2. job[j].task \in Tasks
      BY <2>1 DEF PInv, IInv, CountsOK
    <2> QED BY <1>4, <2>2, RunPromised DEF Promise!Next
  <1>5. CASE Crash
    BY <1>5, ScheduledKept DEF Crash, Promise!Next, Promise!GiveUp,
       Promise!runs, Scheduled, row
  <1>6. ASSUME \/ \E j \in Jobs : \/ JobRead(j) \/ JobCreateRun(j)
                                  \/ JobResult(j) \/ JobSettle(j)
                                  \/ JobFails(j)
               \/ \E p \in Polls, t \in Tasks :
                    \/ PollEnqueue(p, t) \/ PollAborts(p, t)
                    \/ PollWriteFails(p, t)
               \/ \E p \in Polls : PollStart(p)
               \/ \E c \in Calls : CallRead(c) \/ CallFault(c)
               \/ Restart \/ UNCHANGED vars
        PROVE  Quiet
    BY <1>6, ScheduledKept DEF JobRead, JobCreateRun, JobResult, JobSettle,
       JobFails, OthersOfJob, PollEnqueue, PollAborts, PollWriteFails,
       PollStart, CallRead, CallFault, Restart, vars, row, history, Quiet
  <1> QED BY <1>1, <1>2, <1>3, <1>4, <1>5, <1>6, QuietStutters
             DEF Next, PollStep, JobStep

(* The scheduler keeps its promise for any number of tasks, requests,      *)
(* polls and jobs, whatever looks are out of date when they are acted on.  *)
THEOREM TaskPromiseKept == Spec => KeepsPromise
  BY PInvariance, PromiseInit, PromiseStep, PTL
     DEF Spec, KeepsPromise, Promise!Spec
=============================================================================
