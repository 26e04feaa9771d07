------------------------- MODULE ApprovalGateProofs -------------------------
(***************************************************************************)
(* What the approval gate guarantees for any number of approvals, calls    *)
(* and sweeps, any timeout policy and any number of faults and restarts.   *)
(* The properties are not inductive as they stand: RestResumeWasDecided    *)
(* needs to know what the gate's answer (saw) says about the row's past,   *)
(* LateCallsBounce that a settled row never becomes pending again.         *)
(***************************************************************************)
EXTENDS ApprovalGate, TLAPS

(* The history agrees with the row, and a settled row stays settled.       *)
HistoryOK ==
  \A a \in Approvals :
    /\ status[a] \in Terminal => status[a] \in held[a]
    /\ held[a] # {} => status[a] \in Terminal

(* What the place a call has reached says about its approval.              *)
CallOK(c) ==
  LET a == request[c].approval IN
  /\ pc[c] # "idle" => status[a] # "absent"
  /\ late[c] => /\ status[a] \in Terminal
                /\ pc[c] \notin {"write", "expireLook", "expire"}
  /\ pc[c] = "expire" => saw[c] = "expired" /\ lapsed[a]
  /\ pc[c] = "answered" => /\ held[a] # {} \/ lapsed[a]
                           /\ saw[c] \in Decisions => saw[c] \in held[a]
  /\ pc[c] = "resumed" =>
       /\ held[a] # {} \/ lapsed[a]
       /\ request[c].kind \in {"rest", "checked"}
            => request[c].decision \in held[a]

CallsOK == \A c \in Calls : CallOK(c)

(* Timers and sweeps only ever work on rows that exist.                    *)
HandlersOK ==
  \A a \in Approvals :
    status[a] = "absent" =>
      /\ ~overdue[a]
      /\ \A s \in Sweeps : a \notin sweepQ[s]
      /\ \A h \in Handlers : timeoutPc[<<h, a>>] = "idle"

IInv == TypeOK /\ HistoryOK /\ CallsOK /\ HandlersOK

(* A step that leaves a call's own variables alone, and only lets its row  *)
(* and the row's history grow the way every write of the gate does, keeps  *)
(* what is known of the call.                                              *)
Grows(a) ==
  /\ status[a] # "absent" => status'[a] # "absent"
  /\ status[a] \in Terminal => status'[a] \in Terminal
  /\ held[a] \subseteq held'[a]

(* What is known of a call outlives a step that leaves it alone.           *)
LEMMA CallFrame ==
  ASSUME NEW c \in Calls, CallOK(c), request' = request,
         pc'[c] = pc[c], saw'[c] = saw[c], late'[c] = late[c],
         Grows(request[c].approval),
         lapsed[request[c].approval] => lapsed'[request[c].approval]
  PROVE  CallOK(c)'
  BY DEF CallOK, Grows

(* Every write of the gate to a row that exists keeps the history right    *)
(* and lets every row grow.                                                *)
LEMMA UpdateGrows ==
  ASSUME TypeOK, HistoryOK, NEW a \in Approvals, NEW s \in Terminal,
         StoreUpdate(a, s)
  PROVE  /\ HistoryOK' /\ \A b \in Approvals : Grows(b)
         /\ s \in held'[a] /\ status'[a] = s
  BY DEF TypeOK, HistoryOK, StoreUpdate, Grows, Terminal, Decisions

(* A step that leaves the rows alone lets them grow.                       *)
LEMMA SameRows ==
  ASSUME HistoryOK, UNCHANGED rows
  PROVE  HistoryOK' /\ \A b \in Approvals : Grows(b)
  BY DEF HistoryOK, rows, Grows

(* The initial states satisfy the invariant.                               *)
LEMMA InitIInv == Init => IInv
  <1> SUFFICES ASSUME Init PROVE IInv
    OBVIOUS
  <1>1. TypeOK
    BY DEF Init, TypeOK, Statuses, CallPcs
  <1>2. HistoryOK
    BY DEF Init, HistoryOK, Terminal, Decisions
  <1>3. CallsOK
    BY DEF Init, CallsOK, CallOK
  <1>4. HandlersOK
    BY DEF Init, HandlersOK
  <1> QED
    BY <1>1, <1>2, <1>3, <1>4 DEF IInv

(* No step leaves the types: each action writes constants of its enums.    *)
LEMMA TypeStep ==
  ASSUME TypeOK, [Next]_vars
  PROVE  TypeOK'
  <1> USE DEF TypeOK, rows, clock, callVars
  <1>1. ASSUME NEW a \in Approvals, RequestApproval(a) PROVE TypeOK'
    BY <1>1 DEF RequestApproval, Statuses
  <1>2. ASSUME NEW a \in Approvals, FinishRequest(a) PROVE TypeOK'
    BY <1>2 DEF FinishRequest, ScheduleTimers
  <1>3. ASSUME NEW a \in Approvals, PassExpiry(a) \/ NotifierFails(a)
        PROVE TypeOK'
    <2>1. CASE PassExpiry(a)
      BY <2>1 DEF PassExpiry
    <2>2. CASE NotifierFails(a)
      BY <2>2 DEF NotifierFails
    <2> QED
      BY <1>3, <2>1, <2>2
  <1>4. ASSUME NEW a \in Approvals, PassTimeout(a) PROVE TypeOK'
    BY <1>4 DEF PassTimeout
  <1>5. ASSUME NEW a \in Approvals, TimerFires(a) PROVE TypeOK'
    BY <1>5 DEF TimerFires, SetTimeoutPc, Handlers
  <1>6. ASSUME NEW a \in Approvals, NEW s \in Sweeps, SweepNext(s, a)
        PROVE TypeOK'
    BY <1>6 DEF SweepNext, SetTimeoutPc, Handlers
  <1>7. ASSUME NEW a \in Approvals, NEW h \in Handlers, TimeoutRead(h, a)
        PROVE TypeOK'
    BY <1>7 DEF TimeoutRead, CancelTimers, SetTimeoutPc
  <1>8. ASSUME NEW a \in Approvals, NEW h \in Handlers, TimeoutWrite(h, a)
        PROVE TypeOK'
    BY <1>8 DEF TimeoutWrite, StoreUpdate, TimeoutStatus, SetTimeoutPc,
                Statuses, Terminal, Decisions
  <1>9. ASSUME NEW a \in Approvals, NEW h \in Handlers, TimeoutFault(h, a)
        PROVE TypeOK'
    BY <1>9 DEF TimeoutFault, SetTimeoutPc
  <1>10. ASSUME NEW c \in Calls, Arrive(c) PROVE TypeOK'
    BY <1>10 DEF Arrive, Goto, CallPcs
  <1>11. ASSUME NEW c \in Calls, Look(c) PROVE TypeOK'
    BY <1>11 DEF Look, Goto, CallPcs
  <1>12. ASSUME NEW c \in Calls, ResolveRead(c) PROVE TypeOK'
    <2>1. request[c].approval \in Approvals
      BY DEF Requests
    <2> QED
      BY <1>12, <2>1 DEF ResolveRead, Decidable, AfterLapse, Checked,
           CancelTimers, Goto, CallPcs, Statuses, Terminal, Decisions
  <1>13. ASSUME NEW c \in Calls, WriteDecision(c) PROVE TypeOK'
    <2>1. request[c].approval \in Approvals /\ request[c].decision \in Decisions
      BY DEF Requests
    <2> QED
      BY <1>13, <2>1 DEF WriteDecision, StoreUpdate, Goto, CallPcs, Statuses,
           Terminal
  <1>14. ASSUME NEW c \in Calls, PersistExpired(c) PROVE TypeOK'
    <2>1. request[c].approval \in Approvals
      BY DEF Requests
    <2> QED
      BY <1>14, <2>1 DEF PersistExpired, StoreUpdate, Goto, CallPcs, Statuses,
           Terminal
  <1>15. ASSUME NEW c \in Calls, Answer(c) PROVE TypeOK'
    BY <1>15 DEF Answer, Goto, CallPcs
  <1>16. ASSUME NEW c \in Calls, CallFault(c) PROVE TypeOK'
    BY <1>16 DEF CallFault, Goto, CallPcs
  <1>17. ASSUME NEW s \in Sweeps, SweepStart(s) PROVE TypeOK'
    BY <1>17 DEF SweepStart, DueRows
  <1>18. CASE Crash
    <2>1. pc' \in [Calls -> CallPcs]
      BY <1>18 DEF Crash, CallPcs
    <2>2. restarts' \in Nat
      BY <1>18 DEF Crash
    <2>3. timeoutPc' \in [Handlers \X Approvals -> {"idle", "reading", "writing"}]
      BY <1>18 DEF Crash
    <2> QED
      BY <1>18, <2>1, <2>2, <2>3 DEF Crash
  <1>19. CASE Restart
    BY <1>19 DEF Restart
  <1>20. CASE UNCHANGED vars
    BY <1>20 DEF vars
  <1> QED
    BY <1>1, <1>2, <1>3, <1>4, <1>5, <1>6, <1>7, <1>8, <1>9, <1>10, <1>11,
       <1>12, <1>13, <1>14, <1>15, <1>16, <1>17, <1>18, <1>19, <1>20
       DEF Next, CallStep

(* Every step keeps the history and lets every row grow: the gate never    *)
(* makes a settled row pending again, and never deletes one.               *)
LEMMA HistoryStep ==
  ASSUME TypeOK, HistoryOK, [Next]_vars
  PROVE  HistoryOK' /\ \A b \in Approvals : Grows(b)
  <1> DEFINE Goal == HistoryOK' /\ \A b \in Approvals : Grows(b)
  <1>1. ASSUME NEW a \in Approvals, RequestApproval(a) PROVE Goal
    <2>1. held[a] = {} /\ "pending" \notin Terminal
      BY <1>1 DEF RequestApproval, HistoryOK, Terminal, Decisions
    <2> QED
      BY <1>1, <2>1 DEF RequestApproval, HistoryOK, Grows, TypeOK
  <1>2. ASSUME NEW a \in Approvals, NEW h \in Handlers, TimeoutWrite(h, a)
        PROVE Goal
    <2>1. TimeoutStatus \in Terminal
      BY DEF TimeoutStatus, Terminal, Decisions
    <2> QED
      BY <1>2, <2>1, UpdateGrows DEF TimeoutWrite
  <1>3. ASSUME NEW c \in Calls, WriteDecision(c) \/ PersistExpired(c) PROVE Goal
    <2>1. /\ request[c].approval \in Approvals
          /\ request[c].decision \in Terminal
          /\ "expired" \in Terminal
      BY DEF TypeOK, Requests, Terminal
    <2> QED
      BY <1>3, <2>1, UpdateGrows DEF WriteDecision, PersistExpired
  <1>4. CASE UNCHANGED rows
    BY <1>4, SameRows
  <1>5. [Next]_vars =>
          \/ UNCHANGED rows
          \/ \E a \in Approvals : RequestApproval(a)
          \/ \E a \in Approvals, h \in Handlers : TimeoutWrite(h, a)
          \/ \E c \in Calls : WriteDecision(c) \/ PersistExpired(c)
    BY DEF Next, CallStep, vars, FinishRequest, NotifierFails,
           PassExpiry, PassTimeout,
           TimerFires, SweepNext, TimeoutRead, TimeoutFault, Arrive, Look,
           ResolveRead, Answer, CallFault, SweepStart, Crash, Restart
  <1> QED
    BY <1>1, <1>2, <1>3, <1>4, <1>5

(* The clock does not go back.                                             *)
LEMMA LapsedStays ==
  ASSUME TypeOK, [Next]_vars
  PROVE  \A a \in Approvals : lapsed[a] => lapsed'[a]
  <1>1. ASSUME NEW a \in Approvals, PassExpiry(a)
        PROVE  \A b \in Approvals : lapsed[b] => lapsed'[b]
    BY <1>1 DEF PassExpiry, TypeOK
  <1>2. [Next]_vars =>
          UNCHANGED lapsed \/ \E a \in Approvals : PassExpiry(a)
    BY DEF Next, CallStep, vars, clock, RequestApproval, FinishRequest,
           NotifierFails, PassTimeout, TimerFires, SweepNext, TimeoutRead,
           TimeoutWrite, TimeoutFault, Arrive, Look, ResolveRead,
           WriteDecision, PersistExpired, Answer, CallFault, SweepStart,
           Crash, Restart
  <1> QED
    BY <1>1, <1>2

(* The places of a call.  Only its own steps, and a crash, move it.        *)
LEMMA CallsStep ==
  ASSUME IInv, [Next]_vars
  PROVE  CallsOK'
  <1> USE DEF IInv
  <1>0. /\ \A b \in Approvals : Grows(b)
        /\ \A b \in Approvals : lapsed[b] => lapsed'[b]
        /\ HistoryOK'
        /\ \A c \in Calls : request[c].approval \in Approvals
    BY HistoryStep, LapsedStays DEF TypeOK, Requests
  <1>1. CASE UNCHANGED <<request, pc, saw, late>>
    BY <1>0, <1>1, CallFrame DEF CallsOK
  <1> DEFINE Others(c) == \A d \in Calls \ {c} : CallOK(d)'
  <1>2. ASSUME NEW c \in Calls, request' = request,
               \A d \in Calls \ {c} :
                 pc'[d] = pc[d] /\ saw'[d] = saw[d] /\ late'[d] = late[d]
        PROVE  Others(c)
    BY <1>0, <1>2, CallFrame DEF CallsOK
  <1>3. ASSUME NEW c \in Calls, Arrive(c) PROVE CallsOK'
    <2>1. Others(c)
      BY <1>2, <1>3 DEF Arrive, Goto, TypeOK
    <2>2. CallOK(c)'
      BY <1>0, <1>3 DEF Arrive, Goto, TypeOK, CallOK, rows
    <2> QED
      BY <2>1, <2>2 DEF CallsOK
  <1>4. ASSUME NEW c \in Calls, Look(c) PROVE CallsOK'
    <2>1. Others(c)
      BY <1>2, <1>4 DEF Look, Goto, TypeOK
    <2>2. CallOK(c)'
      BY <1>0, <1>4 DEF Look, Goto, TypeOK, CallOK, CallsOK, rows, Terminal,
                        Decisions
    <2> QED
      BY <2>1, <2>2 DEF CallsOK
  <1>5. ASSUME NEW c \in Calls, ResolveRead(c) PROVE CallsOK'
    <2>1. Others(c)
      BY <1>2, <1>5 DEF ResolveRead, Goto, TypeOK
    <2>2. CallOK(c) /\ request[c].approval \in Approvals
      BY <1>0 DEF CallsOK
    <2>3. CallOK(c)'
      <3>1. CASE Decidable(request[c].approval)
        BY <1>5, <2>2, <3>1 DEF ResolveRead, Goto, TypeOK, CallOK, rows, clock,
             Decidable, Checked, AfterLapse, Terminal, Decisions
      <3>2. CASE ~Decidable(request[c].approval)
        BY <1>5, <2>2, <3>2 DEF ResolveRead, Goto, TypeOK, CallOK, rows, clock,
             Decidable, Checked, AfterLapse, Terminal, Decisions, Statuses,
             HistoryOK
      <3> QED
        BY <3>1, <3>2
    <2> QED
      BY <2>1, <2>3 DEF CallsOK
  <1>6. ASSUME NEW c \in Calls, WriteDecision(c) PROVE CallsOK'
    <2>1. Others(c)
      BY <1>2, <1>6 DEF WriteDecision, Goto, TypeOK
    <2>2. /\ CallOK(c)
          /\ request[c].approval \in Approvals
          /\ request[c].decision \in Terminal
      BY <1>0 DEF CallsOK, TypeOK, Requests, Terminal
    <2>3. /\ request[c].decision \in held'[request[c].approval]
          /\ status'[request[c].approval] = request[c].decision
      BY <1>6, <2>2, UpdateGrows DEF WriteDecision
    <2>4. CallOK(c)'
      BY <1>6, <2>2, <2>3 DEF WriteDecision, Goto, TypeOK, CallOK, Terminal,
           Decisions
    <2> QED
      BY <2>1, <2>4 DEF CallsOK
  <1>7. ASSUME NEW c \in Calls, PersistExpired(c) PROVE CallsOK'
    <2>1. Others(c)
      BY <1>2, <1>7 DEF PersistExpired, Goto, TypeOK
    <2>2. /\ CallOK(c)
          /\ request[c].approval \in Approvals
          /\ "expired" \in Terminal
      BY <1>0 DEF CallsOK, Terminal
    <2>3. /\ "expired" \in held'[request[c].approval]
          /\ status'[request[c].approval] = "expired"
      BY <1>7, <2>2, UpdateGrows DEF PersistExpired
    <2>4. CallOK(c)'
      BY <1>7, <2>2, <2>3 DEF PersistExpired, Goto, TypeOK, CallOK, Terminal,
           Decisions
    <2> QED
      BY <2>1, <2>4 DEF CallsOK
  <1>8. ASSUME NEW c \in Calls, Answer(c) PROVE CallsOK'
    <2>1. Others(c)
      BY <1>2, <1>8 DEF Answer, Goto, TypeOK
    <2>2. request[c].decision \in Decisions /\ request[c].kind \in Kinds
      BY DEF TypeOK, Requests
    <2>3. /\ pc[c] = "answered" /\ CallOK(c) /\ UNCHANGED <<rows, clock>>
          /\ \/ pc'[c] = "done"
             \/ pc'[c] = "resumed" /\ MayResume(c)
      BY <1>8 DEF Answer, Goto, TypeOK, CallsOK
    <2>4. UNCHANGED <<request, saw, late, timers, creating>>
      BY <1>8 DEF Answer
    <2>5. CallOK(c)'
      BY <2>2, <2>3, <2>4 DEF MayResume, CallOK, rows, clock, Kinds
    <2> QED
      BY <2>1, <2>5 DEF CallsOK
  <1>9. ASSUME NEW c \in Calls, CallFault(c) PROVE CallsOK'
    <2>1. Others(c)
      BY <1>2, <1>9 DEF CallFault, Goto, TypeOK
    <2>2. CallOK(c)'
      BY <1>9 DEF CallFault, Goto, TypeOK, CallOK, CallsOK, rows, clock,
                  Decisions
    <2> QED
      BY <2>1, <2>2 DEF CallsOK
  <1>10. CASE Crash
    <2>1. UNCHANGED <<status, held, lapsed, request, saw, late>>
      BY <1>10 DEF Crash, rows, clock
    <2>2. \A c \in Calls :
            pc'[c] = pc[c] \/ (pc[c] # "idle" /\ pc'[c] = "done")
      <3>1. pc' = [c \in Calls |->
                     IF pc[c] \in {"idle", "resumed"} THEN pc[c] ELSE "done"]
        BY <1>10 DEF Crash
      <3> QED
        BY <3>1
    <2> SUFFICES ASSUME NEW c \in Calls PROVE CallOK(c)'
      BY DEF CallsOK
    <2>3. CallOK(c)
      BY DEF CallsOK
    <2>4. CASE pc'[c] = pc[c]
      BY <2>1, <2>3, <2>4 DEF CallOK
    <2>5. CASE pc[c] # "idle" /\ pc'[c] = "done"
      BY <2>1, <2>3, <2>5 DEF CallOK
    <2> QED
      BY <2>2, <2>4, <2>5
  <1>11. ASSUME NEW a \in Approvals,
                \/ RequestApproval(a) \/ FinishRequest(a) \/ NotifierFails(a)
                \/ PassExpiry(a) \/ PassTimeout(a) \/ TimerFires(a)
                \/ \E s \in Sweeps : SweepNext(s, a)
         PROVE  UNCHANGED <<request, pc, saw, late>>
    BY <1>11 DEF RequestApproval, FinishRequest, NotifierFails, PassExpiry,
                 PassTimeout, TimerFires, SweepNext, callVars
  <1>12. ASSUME NEW a \in Approvals, NEW h \in Handlers,
                TimeoutRead(h, a) \/ TimeoutWrite(h, a) \/ TimeoutFault(h, a)
         PROVE  UNCHANGED <<request, pc, saw, late>>
    BY <1>12 DEF TimeoutRead, TimeoutWrite, TimeoutFault, callVars
  <1>13. ASSUME (\E s \in Sweeps : SweepStart(s)) \/ Restart \/ UNCHANGED vars
         PROVE  UNCHANGED <<request, pc, saw, late>>
    BY <1>13 DEF SweepStart, Restart, vars, callVars
  <1> QED
    BY <1>1, <1>3, <1>4, <1>5, <1>6, <1>7, <1>8, <1>9, <1>10, <1>11, <1>12,
       <1>13 DEF Next, CallStep

(* A handler is started for a row only by its timer, which a deadline of   *)
(* an existing row fires, or by a sweep, which found the row pending.      *)
LEMMA HandlersStep ==
  ASSUME IInv, [Next]_vars
  PROVE  HandlersOK'
  <1> USE DEF HandlersOK, SetTimeoutPc
  <1>0. /\ TypeOK /\ HandlersOK
        /\ \A a \in Approvals : status'[a] = "absent" => status[a] = "absent"
    BY HistoryStep DEF IInv, Grows
  <1>1. ASSUME NEW a \in Approvals, PassTimeout(a) PROVE HandlersOK'
    BY <1>0, <1>1 DEF PassTimeout, rows, TypeOK
  <1>2. ASSUME NEW a \in Approvals, TimerFires(a) PROVE HandlersOK'
    BY <1>0, <1>2 DEF TimerFires, rows, clock, TypeOK
  <1>3. ASSUME NEW s \in Sweeps, SweepStart(s) PROVE HandlersOK'
    BY <1>0, <1>3 DEF SweepStart, DueRows, rows, clock, TypeOK
  <1>4. ASSUME NEW a \in Approvals, NEW s \in Sweeps, SweepNext(s, a)
        PROVE  HandlersOK'
    BY <1>0, <1>4 DEF SweepNext, rows, clock, TypeOK
  <1>5. ASSUME NEW a \in Approvals, NEW h \in Handlers,
               \/ TimeoutRead(h, a) \/ TimeoutWrite(h, a)
               \/ TimeoutFault(h, a)
        PROVE  HandlersOK'
    BY <1>0, <1>5 DEF TimeoutRead, TimeoutWrite, TimeoutFault, rows, clock,
         TypeOK
  <1>6. CASE Crash
    BY <1>0, <1>6 DEF Crash, rows, clock
  <1>7. CASE UNCHANGED <<overdue, sweepQ, timeoutPc>>
    BY <1>0, <1>7
  <1>8. [Next]_vars =>
          \/ UNCHANGED <<overdue, sweepQ, timeoutPc>> \/ Crash
          \/ \E a \in Approvals :
               \/ PassTimeout(a) \/ TimerFires(a)
               \/ \E s \in Sweeps : SweepNext(s, a)
               \/ \E h \in Handlers :
                    \/ TimeoutRead(h, a) \/ TimeoutWrite(h, a)
                    \/ TimeoutFault(h, a)
          \/ \E s \in Sweeps : SweepStart(s)
    BY DEF Next, CallStep, vars, clock, RequestApproval, FinishRequest,
           NotifierFails, PassExpiry, Arrive, Look, ResolveRead, WriteDecision,
           PersistExpired, Answer, CallFault, Restart
  <1> QED
    BY <1>1, <1>2, <1>3, <1>4, <1>5, <1>6, <1>7, <1>8

(* IInv is an inductive invariant of the gate.                             *)
LEMMA Inductive == Spec => []IInv
  <1>1. IInv /\ [Next]_vars => IInv'
    BY TypeStep, HistoryStep, CallsStep, HandlersStep DEF IInv
  <1> QED
    BY InitIInv, <1>1, PTL DEF Spec

-----------------------------------------------------------------------------
(* Whatever interleaving, fault or restart, the gate's rows, timers and    *)
(* in-flight handlers stay within the states the source names.             *)
THEOREM TypeCorrect == Spec => []TypeOK
  <1>1. IInv => TypeOK
    BY DEF IInv
  <1> QED
    BY Inductive, <1>1, PTL

(* An agent resumed by a REST route ran on an approval that really held    *)
(* the decision asked for, for every number of concurrent calls.           *)
THEOREM RestResumeIsDecided == Spec => []RestResumeWasDecided
  <1>1. IInv => RestResumeWasDecided
    BY DEF IInv, CallsOK, CallOK, RestResumeWasDecided
  <1> QED
    BY Inductive, <1>1, PTL

(* A call that starts once the row is settled never overwrites it.         *)
THEOREM LateCallsNeverWrite == Spec => []LateCallsBounce
  <1>1. IInv => LateCallsBounce
    BY DEF IInv, CallsOK, CallOK, LateCallsBounce
  <1> QED
    BY Inductive, <1>1, PTL

(* The gate implements its promise: every step asks, settles, resumes, or  *)
(* changes nothing the callers see.                                        *)
LEMMA PromiseInit == Init => Promise!Init
  BY DEF Init, Promise!Init, Promise!Routes, Requests, Kinds, Decisions

(* Every step of the gate is a step of its promise, or none.               *)
LEMMA PromiseStep ==
  ASSUME IInv, [Next]_vars
  PROVE  [Promise!Next]_Promise!vars
  <1> DEFINE Asked   == {a \in Approvals : status[a] # "absent"}
             Resumed == {c \in Calls : pc[c] = "resumed"}
             Lapsed  == {a \in Approvals : lapsed[a]}
             Stutter == UNCHANGED <<Asked, Lapsed, held, Resumed, request>>
  <1> USE DEF Promise!vars
  <1>0. TypeOK /\ CallsOK
    BY DEF IInv
  <1>1. CASE Stutter
    BY <1>1
  <1>2. ASSUME NEW a \in Approvals, RequestApproval(a) PROVE Promise!Ask(a)
    BY <1>0, <1>2 DEF RequestApproval, Promise!Ask, callVars, clock, TypeOK
  <1>3. ASSUME NEW a \in Approvals, NEW s \in Terminal, StoreUpdate(a, s),
               status[a] # "absent",
               UNCHANGED <<request, Resumed, Lapsed>>
        PROVE  Promise!Settle(a, s)
    <2>1. Asked' = Asked
      BY <1>0, <1>3 DEF StoreUpdate, TypeOK, Terminal, Decisions
    <2> QED
      BY <1>3, <2>1 DEF StoreUpdate, Promise!Settle
  <1>4. ASSUME NEW a \in Approvals, NEW h \in Handlers, TimeoutWrite(h, a)
        PROVE  \E s \in Terminal : Promise!Settle(a, s)
    <2>1. TimeoutStatus \in Terminal
      BY DEF TimeoutStatus, Terminal, Decisions
    <2>2. status[a] # "absent"
      BY <1>4 DEF IInv, HandlersOK, TimeoutWrite
    <2> QED
      BY <1>3, <1>4, <2>1, <2>2 DEF TimeoutWrite, callVars, clock
  <1>5. ASSUME NEW c \in Calls, WriteDecision(c) \/ PersistExpired(c)
        PROVE  \E a \in Approvals, s \in Terminal : Promise!Settle(a, s)
    <2>1. /\ request[c].approval \in Approvals
          /\ request[c].decision \in Terminal /\ "expired" \in Terminal
      BY <1>0 DEF TypeOK, Requests, Terminal
    <2>2. status[request[c].approval] # "absent"
      BY <1>0, <1>5 DEF CallsOK, CallOK, WriteDecision, PersistExpired
    <2>3. UNCHANGED <<request, Resumed, Lapsed>>
      BY <1>0, <1>5 DEF WriteDecision, PersistExpired, Goto, TypeOK, clock
    <2> QED
      BY <1>3, <1>5, <2>1, <2>2, <2>3 DEF WriteDecision, PersistExpired
  <1>6. ASSUME NEW c \in Calls, Answer(c) PROVE Stutter \/ Promise!Resume(c)
    <2>1. UNCHANGED <<Asked, Lapsed, held, request>>
      BY <1>6 DEF Answer, rows, clock
    <2>2. CASE MayResume(c) /\ Goto(c, "resumed")
      <3>1. Resumed' = Resumed \cup {c} /\ c \notin Resumed
        BY <1>0, <1>6, <2>2 DEF Answer, Goto, TypeOK
      <3>2. CallOK(c) /\ pc[c] = "answered"
        BY <1>0, <1>6 DEF Answer, CallsOK
      <3>3. request[c].decision \in Decisions
        BY <1>0 DEF TypeOK, Requests
      <3>4. LET r == request[c] IN
              /\ held[r.approval] # {} \/ r.approval \in Lapsed
              /\ r.kind \in Promise!Routes => r.decision \in held[r.approval]
        BY <1>0, <2>2, <3>2, <3>3
           DEF Promise!Routes, CallOK, MayResume, TypeOK, Requests
      <3> HIDE DEF Resumed, Lapsed, Asked
      <3> QED
        BY <2>1, <3>1, <3>4 DEF Promise!Resume, Resumed, Lapsed, Asked
    <2>3. CASE Goto(c, "done")
      BY <1>0, <1>6, <2>1, <2>3 DEF Answer, Goto, TypeOK
    <2> QED
      BY <1>6, <2>2, <2>3 DEF Answer
  <1>7. ASSUME NEW c \in Calls,
               Arrive(c) \/ Look(c) \/ ResolveRead(c) \/ CallFault(c)
        PROVE  Stutter
    BY <1>0, <1>7 DEF Arrive, Look, ResolveRead, AfterLapse, CallFault, Goto,
                      TypeOK, rows, clock
  <1>8. CASE Crash
    BY <1>0, <1>8 DEF Crash, TypeOK, rows, clock
  <1>10. ASSUME NEW a \in Approvals, PassExpiry(a) PROVE Promise!Lapse(a)
    BY <1>0, <1>10 DEF PassExpiry, Promise!Lapse, rows, callVars, TypeOK
  <1>9. [Next]_vars =>
          \/ Stutter \/ Crash
          \/ \E a \in Approvals : RequestApproval(a) \/ PassExpiry(a)
          \/ \E a \in Approvals, h \in Handlers : TimeoutWrite(h, a)
          \/ \E c \in Calls :
               \/ Arrive(c) \/ Look(c) \/ ResolveRead(c) \/ CallFault(c)
               \/ WriteDecision(c) \/ PersistExpired(c) \/ Answer(c)
    BY DEF Next, CallStep, vars, rows, clock, callVars, FinishRequest,
           NotifierFails, PassTimeout, TimerFires, SweepNext, TimeoutRead,
           TimeoutFault, SweepStart, Restart
  <1> QED
    BY <1>1, <1>2, <1>4, <1>5, <1>6, <1>7, <1>8, <1>9, <1>10
       DEF Promise!Next, Promise!Outcomes, Terminal, Decisions

(* The approval gate implements ApprovalPromise, for any timeout policy    *)
(* and any number of calls, sweeps, faults and crashes.                    *)
THEOREM PromiseKept == Spec => ImplementsPromise
  BY Inductive, PromiseInit, PromiseStep, PTL
     DEF Spec, ImplementsPromise, Promise!Spec

(* A settled approval never becomes pending again.                         *)
THEOREM SettledStays ==
  Spec => [][\A a \in Approvals :
               status[a] \in Terminal => status'[a] \in Terminal]_vars
  <1>1. IInv /\ [Next]_vars =>
          [\A a \in Approvals :
             status[a] \in Terminal => status'[a] \in Terminal]_vars
    BY HistoryStep DEF IInv, Grows
  <1> QED
    BY Inductive, <1>1, PTL DEF Spec
=============================================================================
