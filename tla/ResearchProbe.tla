---------------------------- MODULE ResearchProbe ----------------------------
(***************************************************************************)
(* Research probes of one phone and one target: the probe runner           *)
(* (src/src/research/runner/probe-runner.ts) in its BullMQ worker, the     *)
(* WAHA webhook that hands it the target's messages, the operator's        *)
(* routes, the hourly schedule tick, over the session repository.          *)
(*                                                                         *)
(* The runner sends a scripted message, waits for the answer on a Redis    *)
(* channel, and goes on.  The webhook writes the answer's row, then a      *)
(* Redis buffer, then publishes; the runner reads the buffer, subscribes   *)
(* and reads it again.  A publication that nobody listens to is lost.      *)
(* updateStatus is a read and a write in one READ COMMITTED transaction,   *)
(* so another write may come between; the other transitions do not read.   *)
(***************************************************************************)
EXTENDS Naturals

CONSTANTS
  MaxSessions,  \* bound: sessions ever created
  N,            \* turns of the script
  Patient,      \* turns with continueOnTimeout
  Calls,        \* the operator's requests on a session
  Deliveries,   \* webhook calls of WAHA in progress; slots are reused
  Messages,     \* the target's messages; a message may be delivered twice
  OptOuts,      \* the messages that isOptOutMessage recognises
  MaxAttempts,  \* attempts of a run job (3)
  MaxPosts,     \* POSTs of the WAHA client for one message (3)
  MaxRetries,   \* MAX_RETRIES of the retry route (2)
  MaxPosted,    \* bound: of those, the ones created by POST
  MaxFaults     \* bound: failures of any kind, and crashes

ASSUME ProbeConstants ==
  /\ MaxSessions \in Nat /\ N \in Nat \ {0} /\ Patient \subseteq 1..N
  /\ OptOuts \subseteq Messages
  /\ MaxAttempts \in Nat \ {0} /\ MaxPosts \in Nat \ {0}
  /\ MaxRetries \in Nat
  /\ MaxPosted \in Nat /\ MaxFaults \in Nat

Sessions == 1..MaxSessions
Turns    == 1..N

Terminal == {"completed", "failed", "aborted"}
Active   == {"queued", "running", "waiting_response"}
Statuses == {"absent", "paused"} \cup Active \cup Terminal
Codes    == {"none", "OPT_OUT_DETECTED", "MANUAL_ABORT", "RESPONSE_TIMEOUT",
             "WAHA_UNREACHABLE", "WAHA_SESSION_NOT_WORKING", "SCRIPT_INVALID"}
Ops      == {"pause", "resume", "abort", "retry"}

(* The run job of a session: its place in start(), the turn it is at, the  *)
(* call site of the updateStatus it is in, the attempts begun, and the     *)
(* POSTs of the message in hand that failed.                               *)
Sites   == {"start", "await", "advance"}
Idle    == {"none", "counting", "adding", "queued", "done", "dead"}
Working == {"check", "store", "look", "send", "record", "early", "subscribe",
            "recheck", "hook", "waiting", "timedout", "invalid", "unsent",
            "refused", "unanswered", "bump", "complete", "analyse"}
NoRun   == [pc |-> "none", turn |-> 1, site |-> "start", attempts |-> 0,
            posts |-> 0]

VARIABLES
  status,      \* ResearchSession.status
  code,        \* failCode
  turn,        \* currentTurn: exchanges completed
  retries,     \* retryCount
  outbound,    \* turns with an outbound row
  inbound,     \* [Turns of the session, and one more -> the inbound row]
  recorded,    \* messages that have a row (wahaMessageId is unique)
  buffer,      \* turns with an answer in the Redis buffer
  optedOut,    \* the target is banned
  run,         \* the run job of each session
  analysed,    \* sessions handed to the analysis queue
  delivery,    \* webhook calls: [pc, message, session, turn]
  request,     \* what each operator's call asks (never changes)
  callPc,
  tick,        \* the schedule tick found the target free
  sent,        \* history: messages that went out, per session and turn
  faults

rows   == <<status, code, turn, retries, outbound, inbound, recorded,
            optedOut>>
vars   == <<rows, buffer, run, analysed, delivery, request, callPc, tick,
            sent, faults>>

RunStates == [pc : Idle \cup Working, turn : 1..N+1, site : Sites,
              attempts : 0..MaxAttempts, posts : 0..MaxPosts-1]
NoDelivery == [pc |-> "idle", message |-> "none", session |-> 0, turn |-> 0]
DeliveryStates ==
  [pc : {"idle", "seek", "optout", "persist", "buffer", "publish", "abort"},
   message : Messages \cup {"none"}, session : 0..MaxSessions, turn : 0..N+1]

TypeOK ==
  /\ status \in [Sessions -> Statuses]
  /\ code \in [Sessions -> Codes]
  /\ turn \in [Sessions -> 0..N]
  /\ retries \in [Sessions -> 0..1]
  /\ outbound \in [Sessions -> SUBSET Turns]
  /\ inbound \in [Sessions -> [1..N+1 -> {"none", "reply", "timeout"}]]
  /\ recorded \in SUBSET Messages
  /\ buffer \in [Sessions -> SUBSET (1..N+1)]
  /\ optedOut \in BOOLEAN
  /\ run \in [Sessions -> RunStates]
  /\ analysed \in SUBSET Sessions
  /\ delivery \in [Deliveries -> DeliveryStates]
  /\ request \in [Calls -> [op : Ops, session : Sessions]]
  /\ callPc \in [Calls -> {"idle", "check", "store", "clone", "done"}]
  /\ tick \in BOOLEAN
  /\ sent \in [Sessions -> [Turns -> Nat]]
  /\ faults \in Nat

Init ==
  /\ status = [s \in Sessions |-> "absent"]
  /\ code = [s \in Sessions |-> "none"]
  /\ turn = [s \in Sessions |-> 0]
  /\ retries = [s \in Sessions |-> 0]
  /\ outbound = [s \in Sessions |-> {}]
  /\ inbound = [s \in Sessions |-> [i \in 1..N+1 |-> "none"]]
  /\ recorded = {} /\ optedOut = FALSE
  /\ buffer = [s \in Sessions |-> {}]
  /\ run = [s \in Sessions |-> NoRun]
  /\ analysed = {}
  /\ delivery = [d \in Deliveries |-> NoDelivery]
  /\ request \in [Calls -> [op : Ops, session : Sessions]]
  /\ callPc = [c \in Calls |-> "idle"]
  /\ tick = FALSE
  /\ sent = [s \in Sessions |-> [i \in Turns |-> 0]]
  /\ faults = 0

-----------------------------------------------------------------------------
(* Creating sessions.                                                      *)

IsNext(s) == status[s] = "absent" /\ \A t \in 1..s-1 : status[t] # "absent"

(* The row; its run job, when it is to have one, is added later.           *)
NewSession(s, pc) ==
  /\ IsNext(s)
  /\ status' = [status EXCEPT ![s] = "queued"]
  /\ run' = [run EXCEPT ![s].pc = pc]
  /\ UNCHANGED <<code, turn, retries, outbound, inbound, recorded, optedOut,
                 buffer, analysed, delivery, request, sent, faults>>

(* POST /research/sessions and /batch.                                     *)
CreateSession(s) ==
  s <= MaxPosted /\ NewSession(s, "adding") /\ UNCHANGED <<callPc, tick>>

(* The retry route's clone is counted first.                               *)
CountRetry(s) ==
  /\ run[s].pc = "counting"
  /\ retries' = [retries EXCEPT ![s] = @ + 1]
  /\ run' = [run EXCEPT ![s].pc = "adding"]
  /\ UNCHANGED <<status, code, turn, outbound, inbound, recorded, optedOut,
                 buffer, analysed, delivery, request, callPc, tick, sent,
                 faults>>

AddJob(s) ==
  /\ run[s].pc = "adding"
  /\ run' = [run EXCEPT ![s].pc = "queued"]
  /\ UNCHANGED <<rows, buffer, analysed, delivery, request, callPc, tick,
                 sent, faults>>

(* processDueSchedules: a target that has a session is left for an hour;   *)
(* else the row is created.  Nobody adds its job.                          *)
TickLook ==
  /\ ~tick
  /\ \A s \in Sessions : status[s] \notin Active \cup {"paused"}
  /\ tick' = TRUE
  /\ UNCHANGED <<rows, buffer, run, analysed, delivery, request, callPc, sent,
                 faults>>

TickCreate(s) ==
  tick /\ NewSession(s, "none") /\ tick' = FALSE /\ UNCHANGED callPc

Lost == {"counting", "adding"}

-----------------------------------------------------------------------------
(* The runner.  A thrown error fails the attempt; the job is tried again   *)
(* until its attempts are used up.                                         *)

OthersOfRun == <<analysed, delivery, request, callPc, tick>>
At(s, pc)   == run[s].pc = pc
Stopped(pc) == [NoRun EXCEPT !.pc = pc]
Goto(s, pc) == run' = [run EXCEPT ![s].pc = pc, ![s].site = "start",
                                  ![s].posts = 0]
Stop(s, pc) == run' = [run EXCEPT ![s] = Stopped(pc)]
Enter(s, site) == run' = [run EXCEPT ![s].pc = "check", ![s].site = site]
Again(n) == [NoRun EXCEPT !.pc = "queued", !.attempts = n]
Throws(s) == IF run[s].attempts < MaxAttempts
             THEN run' = [run EXCEPT ![s] =
                    Again(run[s].attempts)]
             ELSE Stop(s, "dead")

(* start(): a terminal session is left alone; any other, a paused one too, *)
(* is run from the turn after the last complete exchange.                  *)
Begun(s, pc) == [NoRun EXCEPT !.pc = pc, !.turn = turn[s] + 1,
                              !.attempts = run[s].attempts + 1]
RunStart(s) ==
  /\ At(s, "queued")
  /\ run' = [run EXCEPT ![s] = IF status[s] \in Terminal
                               THEN Stopped("done") ELSE Begun(s, "check")]
  /\ UNCHANGED <<rows, buffer, sent, OthersOfRun, faults>>

(* Its script, phone or target is gone, or the script has no turns.        *)
RunInvalid(s) ==
  /\ At(s, "queued") /\ status[s] \notin Terminal
  /\ faults < MaxFaults /\ faults' = faults + 1
  /\ run' = [run EXCEPT ![s] = Begun(s, "invalid")]
  /\ UNCHANGED <<rows, buffer, sent, OthersOfRun>>

(* updateStatus, at its three sites: the status it writes, and what comes  *)
(* after it, whether or not it wrote.                                      *)
StatusAtWaiting(site) ==                                        \* mutant
  IF site = "await" THEN "waiting" ELSE "running"
StatusAt(site) == IF site = "await" THEN "waiting_response" ELSE "running"
LoopAt(i)      == IF i > N THEN "complete" ELSE "look"
AfterStatus(s) ==
  CASE run[s].site = "start" -> LoopAt(run[s].turn)
    [] run[s].site = "await" -> "early"
    [] OTHER                 -> "bump"

StatusCheck(s) ==
  /\ At(s, "check")
  /\ IF status[s] \in Terminal THEN Goto(s, AfterStatus(s))
     ELSE run' = [run EXCEPT ![s].pc = "store"]
  /\ UNCHANGED <<rows, buffer, sent, OthersOfRun, faults>>

StatusStore(s) ==
  /\ At(s, "store")
  /\ status' = [status EXCEPT ![s] = StatusAt(run[s].site)]
  /\ Goto(s, AfterStatus(s))
  /\ UNCHANGED <<code, turn, retries, outbound, inbound, recorded, optedOut,
                 buffer, sent, OthersOfRun, faults>>

(* After the jitter: a turn whose outbound row exists is not sent again.   *)
LookBlind(s) ==                                                 \* mutant
  /\ At(s, "look") /\ Goto(s, "send")
  /\ UNCHANGED <<rows, buffer, sent, OthersOfRun, faults>>
Look(s) ==
  /\ At(s, "look")
  /\ IF run[s].turn \in outbound[s] THEN Enter(s, "await")
     ELSE Goto(s, "send")
  /\ UNCHANGED <<rows, buffer, sent, OthersOfRun, faults>>

(* sendText, one POST after another: the one that is answered ends it.     *)
GoesOut(s) == sent' = [sent EXCEPT ![s][run[s].turn] = @ + 1]

Send(s) ==
  /\ At(s, "send")
  /\ GoesOut(s) /\ Goto(s, "record")
  /\ UNCHANGED <<rows, buffer, OthersOfRun, faults>>

(* A POST that fails at WAHA, on the network or at the time limit, or      *)
(* whose answer cannot be read, may have gone out.  All but the last, and  *)
(* the one that ran out of time, are repeated; else markFailed follows.    *)
PostFails(s) ==
  /\ At(s, "send") /\ faults < MaxFaults /\ faults' = faults + 1
  /\ GoesOut(s) \/ UNCHANGED sent
  /\ \/ /\ run[s].posts + 1 < MaxPosts
        /\ run' = [run EXCEPT ![s].posts = @ + 1]
     \/ Goto(s, "unsent")
  /\ UNCHANGED <<rows, buffer, OthersOfRun>>

(* A POST that WAHA refuses (4xx) is not repeated.                         *)
PostRefused(s) ==
  /\ At(s, "send") /\ faults < MaxFaults /\ faults' = faults + 1
  /\ Goto(s, "refused")
  /\ UNCHANGED <<rows, buffer, sent, OthersOfRun>>

(* The outbound row, and the timeout job, which only repeats what the      *)
(* runner's own timer does.                                                *)
Record(s) ==
  /\ At(s, "record")
  /\ outbound' = [outbound EXCEPT ![s] = @ \cup {run[s].turn}]
  /\ Enter(s, "await")
  /\ UNCHANGED <<status, code, turn, retries, inbound, recorded, optedOut,
                 buffer, sent, OthersOfRun, faults>>

(* waitForResponse: the buffer, the subscription, the buffer again, and    *)
(* only then a handler for what is published.                              *)
Buffered(s) == run[s].turn \in buffer[s]

ReadBuffer(s) ==
  /\ \/ At(s, "early")
     \/ At(s, "recheck")
  /\ IF Buffered(s) THEN Enter(s, "advance")
     ELSE Goto(s, IF At(s, "early") THEN "subscribe" ELSE "hook")
  /\ UNCHANGED <<rows, buffer, sent, OthersOfRun, faults>>

Listen(s) ==
  /\ \/ At(s, "subscribe") /\ Goto(s, "recheck")
     \/ At(s, "hook") /\ Goto(s, "waiting")
  /\ UNCHANGED <<rows, buffer, sent, OthersOfRun, faults>>

(* The runner's timer, or the timeout job's publication.                   *)
TimeoutCancelled(s) ==                                          \* mutant
  /\ At(s, "waiting") /\ inbound[s][run[s].turn] = "none"
  /\ Goto(s, "timedout")
  /\ UNCHANGED <<rows, buffer, sent, OthersOfRun, faults>>
Timeout(s) ==
  /\ At(s, "waiting") /\ Goto(s, "timedout")
  /\ UNCHANGED <<rows, buffer, sent, OthersOfRun, faults>>

(* The timeout's row: there is one inbound row per turn, so a turn that    *)
(* has one by now makes the insertion throw.                               *)
AfterTimeout(s) ==
  IF run[s].turn \in Patient THEN Enter(s, "advance")
  ELSE Goto(s, "unanswered")
RecordTimeoutLater(s) ==                                        \* mutant
  /\ At(s, "timedout") /\ AfterTimeout(s)
  /\ UNCHANGED <<rows, buffer, sent, OthersOfRun, faults>>
RecordTimeoutIgnores(s) ==                                      \* mutant
  LET i == run[s].turn IN
  /\ At(s, "timedout") /\ AfterTimeout(s)
  /\ inbound' = IF inbound[s][i] = "none"
                THEN [inbound EXCEPT ![s][i] = "timeout"] ELSE inbound
  /\ UNCHANGED <<status, code, turn, retries, outbound, recorded, optedOut,
                 buffer, sent, OthersOfRun, faults>>
RecordTimeout(s) ==
  LET i == run[s].turn IN
  /\ At(s, "timedout")
  /\ \/ /\ inbound[s][i] = "none" /\ AfterTimeout(s)
        /\ inbound' = [inbound EXCEPT ![s][i] = "timeout"]
     \/ inbound[s][i] # "none" /\ Throws(s) /\ UNCHANGED inbound
  /\ UNCHANGED <<status, code, turn, retries, outbound, recorded, optedOut,
                 buffer, sent, OthersOfRun, faults>>

(* markFailed, whatever the status is.                                     *)
Failing == {"invalid", "unsent", "refused", "unanswered"}
FailCode(pc) == CASE pc = "invalid" -> "SCRIPT_INVALID"
                  [] pc = "unsent"  -> "WAHA_UNREACHABLE"
                  [] pc = "refused" -> "WAHA_SESSION_NOT_WORKING"
                  [] OTHER          -> "RESPONSE_TIMEOUT"
MarkFailed(s) ==
  /\ run[s].pc \in Failing
  /\ status' = [status EXCEPT ![s] = "failed"]
  /\ code' = [code EXCEPT ![s] = FailCode(run[s].pc)]
  /\ Stop(s, "done")
  /\ UNCHANGED <<turn, retries, outbound, inbound, recorded, optedOut, buffer,
                 sent, OthersOfRun, faults>>

(* updateCurrentTurn, and round the loop.                                  *)
Bump(s) ==
  LET i == run[s].turn IN
  /\ At(s, "bump")
  /\ turn' = [turn EXCEPT ![s] = i]
  /\ run' = [run EXCEPT ![s].pc = LoopAt(i + 1), ![s].turn = i + 1]
  /\ UNCHANGED <<status, code, retries, outbound, inbound, recorded, optedOut,
                 buffer, sent, OthersOfRun, faults>>

(* markCompleted, whatever the status is; then the analysis job.           *)
Complete(s) ==
  /\ At(s, "complete")
  /\ status' = [status EXCEPT ![s] = "completed"]
  /\ Goto(s, "analyse")
  /\ UNCHANGED <<code, turn, retries, outbound, inbound, recorded, optedOut,
                 buffer, sent, OthersOfRun, faults>>

Analyse(s) ==
  /\ At(s, "analyse")
  /\ analysed' = analysed \cup {s}
  /\ Stop(s, "done")
  /\ UNCHANGED <<rows, buffer, delivery, request, callPc, tick, sent, faults>>

(* Any operation of the runner throws, a POST's answer without a body too; *)
(* the job itself cannot be added.                                         *)
RunFault(s) ==
  /\ run[s].pc \in Working /\ faults < MaxFaults
  /\ Throws(s)
  /\ faults' = faults + 1
  /\ UNCHANGED <<rows, buffer, sent, OthersOfRun>>

CreationFault(s) ==
  /\ run[s].pc \in Lost /\ faults < MaxFaults
  /\ Stop(s, "none")
  /\ faults' = faults + 1
  /\ UNCHANGED <<rows, buffer, sent, OthersOfRun>>

-----------------------------------------------------------------------------
(* The webhook and handleInbound.                                          *)

OthersOfDelivery == <<turn, retries, outbound, analysed, request, callPc,
                      tick, sent>>
InDelivery(d, pc) == delivery[d].pc = pc
MoveTo(d, pc) == delivery' = [delivery EXCEPT ![d].pc = pc]
Answer(d) == delivery' = [delivery EXCEPT ![d] = NoDelivery]

(* A message arrives, for the first time or again; one that has its row    *)
(* already is answered at once.                                            *)
Arrive(d) ==
  /\ InDelivery(d, "idle")
  /\ \E m \in Messages \ recorded :
       delivery' = [delivery EXCEPT ![d] =
         [NoDelivery EXCEPT !.pc = "seek", !.message = m]]
  /\ UNCHANGED <<OthersOfDelivery, status, code, inbound, recorded, optedOut,
                 buffer, run, faults>>

(* The newest session under way gets it, as the answer to the turn after   *)
(* the last complete one, be it sent already or not.                       *)
UnderWay == {s \in Sessions : status[s] \in {"running", "waiting_response"}}
Seek(d) ==
  /\ InDelivery(d, "seek")
  /\ \/ UnderWay = {} /\ Answer(d)
     \/ \E s \in UnderWay :
          /\ \A t \in UnderWay : t <= s
          /\ delivery' = [delivery EXCEPT
               ![d].session = s, ![d].turn = turn[s] + 1,
               ![d].pc = IF delivery[d].message \in OptOuts THEN "optout"
                         ELSE "persist"]
  /\ UNCHANGED <<OthersOfDelivery, status, code, inbound, recorded, optedOut,
                 buffer, run, faults>>

(* The transaction of an opt-out, whatever the session's status is by now. *)
OptOut(d) ==
  LET s == delivery[d].session IN
  /\ InDelivery(d, "optout")
  /\ status' = [status EXCEPT ![s] = "aborted"]
  /\ code' = [code EXCEPT ![s] = "OPT_OUT_DETECTED"]
  /\ optedOut' = TRUE
  /\ MoveTo(d, "abort")
  /\ UNCHANGED <<OthersOfDelivery, inbound, recorded, buffer, run, faults>>

(* The inbound row; a violated constraint is answered already_processed.   *)
PersistUnchecked(d) ==                                          \* mutant
  /\ InDelivery(d, "persist") /\ MoveTo(d, "buffer")
  /\ recorded' = recorded \cup {delivery[d].message}
  /\ UNCHANGED <<OthersOfDelivery, status, code, inbound, optedOut, buffer,
                 run, faults>>
Persist(d) ==
  LET s == delivery[d].session
      i == delivery[d].turn
      m == delivery[d].message IN
  /\ InDelivery(d, "persist")
  /\ \/ /\ inbound[s][i] = "none" /\ m \notin recorded
        /\ inbound' = [inbound EXCEPT ![s][i] = "reply"]
        /\ recorded' = recorded \cup {m}
        /\ MoveTo(d, "buffer")
     \/ /\ inbound[s][i] # "none" \/ m \in recorded
        /\ Answer(d)
        /\ UNCHANGED <<inbound, recorded>>
  /\ UNCHANGED <<OthersOfDelivery, status, code, optedOut, buffer, run,
                 faults>>

SetBuffer(d) ==
  /\ InDelivery(d, "buffer")
  /\ buffer' = [buffer EXCEPT ![delivery[d].session] =
                  @ \cup {delivery[d].turn}]
  /\ MoveTo(d, "publish")
  /\ UNCHANGED <<OthersOfDelivery, status, code, inbound, recorded, optedOut,
                 run, faults>>

(* The publication reaches a runner that waits on this turn's channel.     *)
Publish(d) ==
  LET s == delivery[d].session IN
  /\ \/ InDelivery(d, "publish")
     \/ InDelivery(d, "abort")
  /\ IF ~At(s, "waiting") \/ run[s].turn # delivery[d].turn
     THEN UNCHANGED run
     ELSE IF InDelivery(d, "abort") THEN Stop(s, "done")
     ELSE Enter(s, "advance")
  /\ Answer(d)
  /\ UNCHANGED <<OthersOfDelivery, status, code, inbound, recorded, optedOut,
                 buffer, faults>>

DeliveryFault(d) ==
  /\ ~InDelivery(d, "idle") /\ faults < MaxFaults
  /\ Answer(d)
  /\ faults' = faults + 1
  /\ UNCHANGED <<OthersOfDelivery, status, code, inbound, recorded, optedOut,
                 buffer, run>>

(* The buffer is kept for five minutes; a turn may wait longer.  (The      *)
(* buffer of a turn that is complete is read no more.)                     *)
BufferExpires(s, i) ==
  /\ i \in buffer[s] /\ i > turn[s]
  /\ buffer' = [buffer EXCEPT ![s] = @ \ {i}]
  /\ UNCHANGED <<rows, run, analysed, delivery, request, callPc, tick, sent,
                 faults>>

-----------------------------------------------------------------------------
(* The operator's routes.                                                  *)

OthersOfCall == <<turn, outbound, inbound, recorded, optedOut, buffer,
                  analysed, delivery, request, sent>>
SetCall(c, pc) == callPc' = [callPc EXCEPT ![c] = pc]

NonRetryable == {"OPT_OUT_DETECTED"}
Accepts(op, s) ==
  CASE op = "pause"  -> status[s] \in Active
    [] op = "resume" -> status[s] = "paused"
    [] op = "abort"  -> status[s] \notin Terminal
    [] OTHER         -> /\ status[s] = "failed" /\ code[s] \notin NonRetryable
                        /\ retries[s] < MaxRetries

CallRead(c) ==
  LET op == request[c].op
      s  == request[c].session IN
  /\ callPc[c] = "idle" /\ status[s] # "absent"
  /\ SetCall(c, IF ~Accepts(op, s) THEN "done"
                ELSE IF op = "retry" THEN "clone"
                ELSE IF op = "abort" THEN "store" ELSE "check")
  /\ UNCHANGED <<OthersOfCall, status, code, retries, run, tick, faults>>

(* Pause and resume go through updateStatus.                               *)
CallCheck(c) ==
  /\ callPc[c] = "check"
  /\ SetCall(c, IF status[request[c].session] \in Terminal THEN "done"
                ELSE "store")
  /\ UNCHANGED <<OthersOfCall, status, code, retries, run, tick, faults>>

(* No route tells the runner; a session resumed gets no new job.           *)
CallStore(c) ==
  LET op == request[c].op
      s  == request[c].session IN
  /\ callPc[c] = "store"
  /\ SetCall(c, "done")
  /\ status' = [status EXCEPT ![s] = CASE op = "pause"  -> "paused"
                                       [] op = "resume" -> "queued"
                                       [] OTHER         -> "aborted"]
  /\ code' = IF op = "abort" THEN [code EXCEPT ![s] = "MANUAL_ABORT"]
             ELSE code
  /\ UNCHANGED <<OthersOfCall, retries, run, tick, faults>>

(* Retry clones the row; the clone's counter starts at 0 and gets 1.       *)
CallClone(c, s) ==
  /\ callPc[c] = "clone"
  /\ NewSession(s, "counting")
  /\ SetCall(c, "done")
  /\ UNCHANGED tick

-----------------------------------------------------------------------------
(* The process.  BullMQ delivers a stalled job once more, or gives it up;  *)
(* what a handler had still to do is lost.                                 *)

Crash ==
  /\ faults < MaxFaults
  /\ faults' = faults + 1
  /\ \E stalled \in SUBSET {s \in Sessions : run[s].pc \in Working} :
       run' = [s \in Sessions |->
         CASE s \in stalled               -> Again(run[s].attempts - 1)
           [] run[s].pc \in Idle \ Lost   -> run[s]
           [] run[s].pc \in Lost          -> NoRun
           [] OTHER                       -> Stopped("dead")]
  /\ delivery' = [d \in Deliveries |-> NoDelivery]
  /\ callPc' = [c \in Calls |-> IF callPc[c] = "idle" THEN "idle" ELSE "done"]
  /\ tick' = FALSE
  /\ UNCHANGED <<rows, buffer, analysed, request, sent>>

-----------------------------------------------------------------------------
RunStep(s) ==
  \/ RunStart(s) \/ StatusCheck(s) \/ StatusStore(s) \/ Look(s) \/ Send(s)
  \/ Record(s) \/ ReadBuffer(s) \/ Listen(s) \/ Timeout(s)
  \/ RecordTimeout(s) \/ MarkFailed(s) \/ Bump(s) \/ Complete(s) \/ Analyse(s)

RunTrouble(s) ==
  RunInvalid(s) \/ PostFails(s) \/ PostRefused(s) \/ RunFault(s)

DeliveryStep(d) ==
  \/ Seek(d) \/ OptOut(d) \/ Persist(d) \/ SetBuffer(d) \/ Publish(d)

Next ==
  \/ \E s \in Sessions :
       \/ CreateSession(s) \/ CountRetry(s) \/ AddJob(s) \/ TickCreate(s)
       \/ RunStep(s) \/ RunTrouble(s) \/ CreationFault(s)
       \/ \E i \in 1..N+1 : BufferExpires(s, i)
       \/ \E c \in Calls : CallClone(c, s)
  \/ TickLook
  \/ \E d \in Deliveries : Arrive(d) \/ DeliveryStep(d) \/ DeliveryFault(d)
  \/ \E c \in Calls : CallRead(c) \/ CallCheck(c) \/ CallStore(c)
  \/ Crash

Spec == Init /\ [][Next]_vars

(* The worker takes queued jobs and carries a run on; the timer of a wait  *)
(* fires.  Nobody has to answer, and nothing has to be created.            *)
Fairness == \A s \in Sessions : WF_<<run[s]>>(RunStep(s))
FairSpec == Spec /\ Fairness

-----------------------------------------------------------------------------
(* A message of the script goes out once, and once more at most for each   *)
(* POST that failed after it went out, which the WAHA client repeats       *)
(* (waha-research-client.ts:86-173), and for each failure or crash between *)
(* the sending and its row (probe-runner.ts:255-293).  A retried attempt   *)
(* whose message has its row does not send it again.                       *)
SentOnce == \A s \in Sessions, i \in Turns : sent[s][i] <= 1 + faults

(* The conversation is in order: no message goes out before every earlier  *)
(* turn has its answer or its timeout on record (probe-runner.ts:240).     *)
TurnsInOrder ==
  \A s \in Sessions, i \in Turns : sent[s][i] > 0 =>
    \A j \in 1..i-1 : inbound[s][j] # "none"

(* A session that failed for want of a response has none for that turn:    *)
(* an answer persisted while the timer fired wins (probe-runner.ts:346).   *)
TimeoutIsTrue ==
  \A s \in Sessions : code[s] = "RESPONSE_TIMEOUT" =>
    turn[s] < N /\ inbound[s][turn[s] + 1] = "timeout"

(* What is handed to the analysis is a whole conversation: every message   *)
(* was sent and recorded, and every turn answered or timed out, whatever   *)
(* was lost on the way (probe-runner.ts:379-393).                          *)
AnalysedIsWhole ==
  \A s \in analysed : \A i \in Turns :
    i \in outbound[s] /\ inbound[s][i] # "none"

(* The conversations keep their promise (ProbePromise): a delayed webhook, *)
(* a timer that loses its race, a retried attempt or a stale write of the  *)
(* status neither skips a turn nor answers one that is over, and once a    *)
(* run is over it neither says nor passes anything (probe-runner.ts:       *)
(* 247-393, research-webhook.ts:151-190).                                  *)
Outcome(s) == IF status[s] \in Terminal \cup {"absent"} THEN status[s]
              ELSE "open"
Stage(s)   == CASE At(s, "record")              -> "spoke"
                [] run[s].pc \in {"done", "dead"} -> "over"
                [] OTHER                        -> "open"
Promise == INSTANCE ProbePromise
             WITH outcome <- [s \in Sessions |-> Outcome(s)],
                  why     <- code,
                  said    <- outbound,
                  heard   <- inbound,
                  stage   <- [s \in Sessions |-> Stage(s)]

KeepsPromise == Promise!Spec

(* A run job comes to an end: no lost publication leaves the runner        *)
(* waiting for ever (probe-runner.ts:139-154).                             *)
RunsFinish ==
  \A s \in Sessions : []<>(run[s].pc \in Idle \ {"queued"})

(* opt-out-detector.ts:4-5: "When the target agent sends an opt-out signal *)
(* the probe must abort immediately".  A message on its way may still go   *)
(* out, but no further turn may be taken up.  It does not hold: the abort  *)
(* is published, not buffered, and the runner does not look at the status. *)
NoTurnAfterOptOut ==
  [][\A s \in Sessions : optedOut /\ At(s, "look") => run'[s].pc # "send"]_vars
=============================================================================
