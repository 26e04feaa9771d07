------------------------- MODULE ResearchProbeProofs -------------------------
(***************************************************************************)
(* What the research probes guarantee for any number of sessions, turns,   *)
(* webhook calls, attempts, failures and crashes.  The invariant says what *)
(* the place a run has reached means for the rows of its session: the turn *)
(* it is at is the one after the last complete exchange, and past the wait *)
(* there is an answer or a timeout on record.  From it follow the safety   *)
(* properties, that an attempt has only so many steps, and that the runs   *)
(* implement ProbePromise.                                                 *)
(***************************************************************************)
EXTENDS ResearchProbe, Integers, TLAPS

InStatus(s) == run[s].pc \in {"check", "store"}
Ends        == {"complete", "analyse"}
Sent        == {"early", "subscribe", "recheck", "hook", "waiting",
                "timedout", "unanswered", "bump"}

(* The run job.                                                            *)
RunOK(s) ==
  /\ status[s] = "absent" => run[s] = NoRun /\ retries[s] = 0
  /\ At(s, "counting") => retries[s] = 0
  /\ run[s].pc \in Lost => run[s].attempts = 0
  /\ At(s, "queued") => run[s].attempts < MaxAttempts
  /\ run[s].pc \in Working =>
       run[s].turn = turn[s] + 1 /\ run[s].attempts >= 1
  /\ run[s].pc \in Ends => run[s].turn = N + 1
  /\ run[s].pc \in Working \ ({"check", "store", "invalid"} \cup Ends) =>
       run[s].turn <= N
  /\ InStatus(s) /\ run[s].site # "start" => run[s].turn <= N
  /\ run[s].pc \in Sent \/ (InStatus(s) /\ run[s].site # "start") =>
       run[s].turn \in outbound[s]
  /\ At(s, "bump") \/ (InStatus(s) /\ run[s].site = "advance") =>
       inbound[s][run[s].turn] # "none"
  /\ At(s, "unanswered") => inbound[s][run[s].turn] = "timeout"
  /\ run[s].pc \in {"send", "unsent", "refused", "record"} =>
       run[s].turn \notin outbound[s]

(* What was sent, answered, given up and analysed.                         *)
SentOK(s, i) ==
  /\ sent[s][i] > 0 => i <= turn[s] + 1
  /\ sent[s][i] <= 1 + faults
  /\ i \notin outbound[s] /\ ~(At(s, "record") /\ run[s].turn = i) =>
       sent[s][i] <= faults

Whole(s) ==
  \A j \in 1..turn[s] : j \in outbound[s] /\ inbound[s][j] # "none"

CodeOK(s) ==
  code[s] = "RESPONSE_TIMEOUT" =>
    At(s, "done") /\ turn[s] < N /\ inbound[s][turn[s] + 1] = "timeout"

SessionOK(s) ==
  /\ RunOK(s) /\ Whole(s) /\ CodeOK(s)
  /\ \A i \in Turns : SentOK(s, i)
  /\ s \in analysed => turn[s] = N

SessionsOK == \A s \in Sessions : SessionOK(s)

(* What is buffered or about to be was persisted before.                   *)
BufferOK ==
  \A s \in Sessions : \A i \in buffer[s] : inbound[s][i] = "reply"

DeliveryOK(d) ==
  /\ ~InDelivery(d, "idle") => delivery[d].message \in Messages
  /\ ~InDelivery(d, "idle") /\ ~InDelivery(d, "seek") =>
       delivery[d].session \in Sessions /\ delivery[d].turn \in 1..N+1
  /\ InDelivery(d, "buffer") \/ InDelivery(d, "publish") =>
       inbound[delivery[d].session][delivery[d].turn] = "reply"

DeliveriesOK == \A d \in Deliveries : DeliveryOK(d)

IInv == TypeOK /\ SessionsOK /\ BufferOK /\ DeliveriesOK

-----------------------------------------------------------------------------
(* Types.                                                                  *)

RunType == run \in [Sessions -> RunStates]

LEMMA Bounds ==
  /\ N \in Nat /\ N >= 1 /\ 1 \in 1..N+1 /\ 0 \in 0..N
  /\ MaxAttempts \in Nat /\ 0 \in 0..MaxAttempts
  /\ MaxPosts \in Nat /\ 0 \in 0..MaxPosts-1
  /\ NoRun \in RunStates /\ NoDelivery \in DeliveryStates
  <1>1. /\ N \in Nat /\ N >= 1 /\ 1 \in 1..N+1 /\ 0 \in 0..N
        /\ MaxAttempts \in Nat /\ 0 \in 0..MaxAttempts
        /\ MaxPosts \in Nat /\ 0 \in 0..MaxPosts-1
        /\ 0 \in 0..MaxSessions /\ 0 \in 0..N+1
    BY ProbeConstants
  <1>2. NoRun \in RunStates
    BY <1>1 DEF NoRun, RunStates, Idle, Sites
  <1>3. NoDelivery \in DeliveryStates
    BY <1>1 DEF NoDelivery, DeliveryStates
  <1> QED BY <1>1, <1>2, <1>3

Others(s) == \A t \in Sessions \ {s} : run'[t] = run[t]

(* What the ways of writing a run's record leave in it.                    *)
LEMMA RunWrites ==
  ASSUME RunType, NEW s \in Sessions
  PROVE  /\ \A pc \in Idle \cup Working : Goto(s, pc) =>
              /\ RunType' /\ Others(s) /\ run'[s].pc = pc
              /\ run'[s].turn = run[s].turn /\ run'[s].site = "start"
              /\ run'[s].attempts = run[s].attempts
         /\ \A pc \in Idle : Stop(s, pc) =>
              RunType' /\ Others(s) /\ run'[s] = Stopped(pc)
         /\ \A site \in Sites : Enter(s, site) =>
              /\ RunType' /\ Others(s) /\ run'[s].pc = "check"
              /\ run'[s].turn = run[s].turn /\ run'[s].site = site
              /\ run'[s].attempts = run[s].attempts
         /\ Throws(s) =>
              /\ RunType' /\ Others(s)
              /\ \/ /\ run'[s] = Again(run[s].attempts)
                    /\ run[s].attempts < MaxAttempts
                 \/ run'[s] = Stopped("dead")
  <1> USE DEF RunType, Others
  <1>1. ASSUME NEW pc \in Idle \cup Working, Goto(s, pc)
        PROVE  /\ RunType' /\ Others(s) /\ run'[s].pc = pc
               /\ run'[s].turn = run[s].turn /\ run'[s].site = "start"
               /\ run'[s].attempts = run[s].attempts
    BY <1>1, Bounds DEF Goto, RunStates, Sites
  <1>2. ASSUME NEW pc \in Idle, Stop(s, pc)
        PROVE  RunType' /\ Others(s) /\ run'[s] = Stopped(pc)
    <2>1. Stopped(pc) \in RunStates
      BY <1>2, Bounds DEF Stopped, RunStates
    <2> QED BY <1>2, <2>1 DEF Stop
  <1>3. ASSUME NEW site \in Sites, Enter(s, site)
        PROVE  /\ RunType' /\ Others(s) /\ run'[s].pc = "check"
               /\ run'[s].turn = run[s].turn /\ run'[s].site = site
               /\ run'[s].attempts = run[s].attempts
    <2>1. "check" \in Idle \cup Working
      BY DEF Working
    <2> QED BY <1>3, <2>1 DEF Enter, RunStates
  <1>4. ASSUME Throws(s)
        PROVE  /\ RunType' /\ Others(s)
               /\ \/ /\ run'[s] = Again(run[s].attempts)
                     /\ run[s].attempts < MaxAttempts
                  \/ run'[s] = Stopped("dead")
    <2>1. CASE run[s].attempts < MaxAttempts
      <3>1. Again(run[s].attempts) \in RunStates
        BY Bounds DEF Again, RunStates, Idle
      <3> QED BY <1>4, <2>1, <3>1 DEF Throws
    <2>2. CASE ~(run[s].attempts < MaxAttempts)
      BY <1>2, <1>4, <2>2 DEF Throws, Idle
    <2> QED BY <2>1, <2>2
  <1> QED BY <1>1, <1>2, <1>3, <1>4

(* An attempt that begins.                                                 *)
LEMMA Begins ==
  ASSUME RunType, NEW s \in Sessions, turn[s] \in 0..N,
         run[s].attempts < MaxAttempts, NEW pc \in {"check", "invalid"},
         run' = [run EXCEPT ![s] = Begun(s, pc)]
  PROVE  /\ RunType' /\ Others(s) /\ run'[s].pc = pc
         /\ run'[s].turn = turn[s] + 1 /\ run'[s].site = "start"
         /\ run'[s].attempts = run[s].attempts + 1
  <1>1. run[s] \in RunStates
    BY DEF RunType
  <1>2. run[s].attempts + 1 \in 0..MaxAttempts /\ turn[s] + 1 \in 1..N+1
    BY <1>1, Bounds DEF RunStates
  <1>3. PICK x : x = Begun(s, pc)
    OBVIOUS
  <1>4. /\ x.pc = pc /\ x.turn = turn[s] + 1 /\ x.site = "start"
        /\ x.attempts = run[s].attempts + 1 /\ x.posts = 0
        /\ x = [pc |-> x.pc, turn |-> x.turn, site |-> x.site,
                attempts |-> x.attempts, posts |-> x.posts]
    BY <1>3 DEF Begun, NoRun
  <1>5. x \in RunStates
    BY <1>2, <1>4, Bounds DEF RunStates, Working, Sites
  <1>6. run' = [run EXCEPT ![s] = x]
    BY <1>3
  <1>7. run'[s] = x /\ RunType' /\ Others(s)
    BY <1>5, <1>6 DEF RunType, Others
  <1> QED BY <1>4, <1>7

(* A POST that fails or is refused.                                        *)
LEMMA Posts ==
  ASSUME RunType, NEW s \in Sessions, PostFails(s) \/ PostRefused(s)
  PROVE  /\ RunType' /\ Others(s) /\ run'[s].turn = run[s].turn
         /\ run'[s].attempts = run[s].attempts
         /\ \/ run'[s].pc \in {"unsent", "refused"} /\ run'[s].site = "start"
            \/ /\ PostFails(s)
               /\ run'[s].pc = "send" /\ run'[s].site = run[s].site
               /\ run'[s].posts = run[s].posts + 1 /\ run[s].posts \in Nat
  <1>1. CASE \E pc \in {"unsent", "refused"} : Goto(s, pc)
    BY <1>1, RunWrites DEF Working
  <1>2. CASE /\ PostFails(s) /\ run[s].posts + 1 < MaxPosts
             /\ run' = [run EXCEPT ![s].posts = @ + 1]
    <2>1. run[s] \in RunStates /\ run[s].pc = "send"
      BY <1>2 DEF RunType, PostFails, At
    <2>2. run[s].posts \in Nat /\ run[s].posts + 1 \in 0..MaxPosts-1
      BY <1>2, <2>1, Bounds DEF RunStates
    <2>3. PICK x : x = [run[s] EXCEPT !.posts = run[s].posts + 1]
      OBVIOUS
    <2>4. /\ x \in RunStates /\ x.pc = "send" /\ x.turn = run[s].turn
          /\ x.site = run[s].site /\ x.attempts = run[s].attempts
          /\ x.posts = run[s].posts + 1
      BY <2>1, <2>2, <2>3 DEF RunStates
    <2>5. run' = [run EXCEPT ![s] = x]
      BY <1>2, <2>3 DEF RunType
    <2>6. run'[s] = x /\ RunType' /\ Others(s)
      BY <2>4, <2>5 DEF RunType, Others
    <2> QED BY <1>2, <2>2, <2>4, <2>6
  <1> QED BY <1>1, <1>2 DEF PostFails, PostRefused

-----------------------------------------------------------------------------
(* The types of everything but the runs.                                   *)
RestType ==
  /\ status \in [Sessions -> Statuses] /\ code \in [Sessions -> Codes]
  /\ turn \in [Sessions -> 0..N] /\ retries \in [Sessions -> 0..1]
  /\ outbound \in [Sessions -> SUBSET Turns]
  /\ inbound \in [Sessions -> [1..N+1 -> {"none", "reply", "timeout"}]]
  /\ recorded \in SUBSET Messages
  /\ buffer \in [Sessions -> SUBSET (1..N+1)]
  /\ optedOut \in BOOLEAN /\ analysed \in SUBSET Sessions
  /\ delivery \in [Deliveries -> DeliveryStates]
  /\ request \in [Calls -> [op : Ops, session : Sessions]]
  /\ callPc \in [Calls -> {"idle", "check", "store", "clone", "done"}]
  /\ tick \in BOOLEAN /\ sent \in [Sessions -> [Turns -> Nat]]
  /\ faults \in Nat

LEMMA TypeParts == TypeOK <=> RunType /\ RestType
  BY DEF TypeOK, RunType, RestType

(* One entry of a table of tables is written.                              *)
LEMMA Nested ==
  ASSUME NEW A, NEW B, NEW C, NEW f \in [A -> [B -> C]],
         NEW a \in A, NEW b \in B, NEW c \in C
  PROVE  /\ [f EXCEPT ![a][b] = c] \in [A -> [B -> C]]
         /\ [f EXCEPT ![a][b] = c][a][b] = c
         /\ \A x \in A, y \in B : x # a \/ y # b =>
              [f EXCEPT ![a][b] = c][x][y] = f[x][y]
  OBVIOUS

(* Where a run can go next.                                                *)
LEMMA Places ==
  ASSUME TypeOK, NEW s \in Sessions
  PROVE  /\ \A i \in Nat : LoopAt(i) \in {"complete", "look"}
         /\ AfterStatus(s) \in {"complete", "look", "early", "bump"}
         /\ run[s].site = "start" => AfterStatus(s) = LoopAt(run[s].turn)
         /\ run[s].site = "await" => AfterStatus(s) = "early"
         /\ run[s].site = "advance" => AfterStatus(s) = "bump"
         /\ run[s].site \in Sites /\ run[s].turn \in 1..N+1
         /\ run[s].attempts \in 0..MaxAttempts
         /\ run[s].pc \in Idle \cup Working
  <1>1. run[s] \in RunStates
    BY DEF TypeOK
  <1>2. /\ run[s].site \in Sites /\ run[s].turn \in 1..N+1
        /\ run[s].attempts \in 0..MaxAttempts
        /\ run[s].pc \in Idle \cup Working
    BY <1>1 DEF RunStates
  <1>3. \A i \in Nat : LoopAt(i) \in {"complete", "look"}
    BY DEF LoopAt
  <1>4. run[s].turn \in Nat
    BY <1>2, Bounds
  <1>5. LoopAt(run[s].turn) \in {"complete", "look"}
    BY <1>3, <1>4
  <1>6. CASE run[s].site = "start"
    BY <1>2, <1>3, <1>5, <1>6 DEF AfterStatus
  <1>7. CASE run[s].site = "await"
    BY <1>2, <1>3, <1>7 DEF AfterStatus
  <1>8. CASE run[s].site = "advance"
    BY <1>2, <1>3, <1>8 DEF AfterStatus
  <1> QED BY <1>2, <1>6, <1>7, <1>8 DEF Sites

(* A run's step leaves every record in its type and every other run alone. *)
LEMMA RunTyped ==
  ASSUME TypeOK, NEW s \in Sessions, RunOK(s), RunStep(s) \/ RunTrouble(s)
  PROVE  TypeOK' /\ Others(s)
  <1> USE Places, Bounds
  <1>t. RunType /\ RestType
    BY TypeParts
  <1>p. Working \subseteq Idle \cup Working /\ Idle \subseteq Idle \cup Working
    OBVIOUS
  <1>1. CASE RunStart(s)
    <2>1. turn[s] \in 0..N /\ run[s].attempts < MaxAttempts
      BY <1>1 DEF TypeOK, RunStart, RunOK
    <2>2. \/ Stop(s, "done")
          \/ run' = [run EXCEPT ![s] = Begun(s, "check")]
      BY <1>1 DEF RunStart, Stop
    <2>3. RunType' /\ Others(s)
      BY <1>t, <2>1, <2>2, RunWrites, Begins DEF Idle
    <2> QED BY <1>1, <1>t, <2>3, TypeParts
            DEF RunStart, RestType, rows, OthersOfRun, TypeOK, RunType
  <1>2. CASE StatusCheck(s)
    <2>1. AfterStatus(s) \in Idle \cup Working
      BY DEF Working
    <2>2. CASE status[s] \in Terminal
      <3>1. RunType' /\ Others(s)
        BY <1>2, <1>t, <2>1, <2>2, RunWrites DEF StatusCheck
      <3> QED BY <1>2, <1>t, <3>1
              DEF StatusCheck, RestType, rows, OthersOfRun, TypeOK, RunType
    <2>3. CASE status[s] \notin Terminal
      <3>1. RunType' /\ Others(s)
        BY <1>2, <1>t, <2>3
           DEF StatusCheck, RunType, Others, RunStates, Working
      <3> QED BY <1>2, <1>t, <3>1
              DEF StatusCheck, RestType, rows, OthersOfRun, TypeOK, RunType
    <2> QED BY <2>2, <2>3
  <1>3. CASE StatusStore(s)
    <2>1. AfterStatus(s) \in Idle \cup Working
      BY DEF Working
    <2>2. RunType' /\ Others(s)
      BY <1>3, <1>t, <2>1, RunWrites DEF StatusStore
    <2>3. StatusAt(run[s].site) \in Statuses
      BY DEF StatusAt, Statuses, Active
    <2> QED BY <1>3, <1>t, <2>2, <2>3
            DEF StatusStore, RestType, OthersOfRun, TypeOK, RunType
  <1>4. CASE Look(s)
    <2>1. RunType' /\ Others(s)
      BY <1>4, <1>t, RunWrites DEF Look, Working, Sites
    <2> QED BY <1>4, <1>t, <2>1
            DEF Look, RestType, rows, OthersOfRun, TypeOK, RunType
  <1>5. CASE Send(s)
    <2>1. RunType' /\ Others(s)
      BY <1>5, <1>t, RunWrites DEF Send, Working
    <2>3. run[s].turn \in Turns
      BY <1>5 DEF Send, RunOK, At, Working, Ends, Turns
    <2>4. sent \in [Sessions -> [Turns -> Nat]]
      BY <1>t DEF RestType
    <2>5. sent[s][run[s].turn] + 1 \in Nat
      BY <2>3, <2>4
    <2>6. sent' \in [Sessions -> [Turns -> Nat]]
      <3>1. [sent EXCEPT ![s][run[s].turn] = sent[s][run[s].turn] + 1]
              \in [Sessions -> [Turns -> Nat]]
        BY <2>3, <2>4, <2>5, Nested
      <3> QED BY <1>5, <2>4, <3>1 DEF Send, GoesOut
    <2> QED BY <1>5, <1>t, <2>1, <2>6
            DEF Send, RestType, rows, OthersOfRun, TypeOK, RunType
  <1>6. CASE Record(s)
    <2>1. RunType' /\ Others(s)
      BY <1>6, <1>t, RunWrites DEF Record, Sites
    <2>2. run[s].turn \in Turns
      BY <1>6 DEF Record, RunOK, At, Working, Ends, Turns
    <2>3. outbound' \in [Sessions -> SUBSET Turns]
      BY <1>6, <1>t, <2>2 DEF Record, RestType
    <2> QED BY <1>6, <1>t, <2>1, <2>3
            DEF Record, RestType, OthersOfRun, TypeOK, RunType
  <1>7. CASE ReadBuffer(s)
    <2>1. RunType' /\ Others(s)
      BY <1>7, <1>t, RunWrites DEF ReadBuffer, Working, Sites
    <2> QED BY <1>7, <1>t, <2>1
            DEF ReadBuffer, RestType, rows, OthersOfRun, TypeOK, RunType
  <1>8. CASE Listen(s) \/ Timeout(s)
    <2>1. RunType' /\ Others(s)
      BY <1>8, <1>t, RunWrites DEF Listen, Timeout, Working
    <2> QED BY <1>8, <1>t, <2>1
       DEF Listen, Timeout, RestType, rows, OthersOfRun, TypeOK, RunType
  <1>9. CASE RecordTimeout(s)
    <2>1. AfterTimeout(s) \/ Throws(s) => RunType' /\ Others(s)
      BY <1>t, RunWrites DEF AfterTimeout, Working, Sites
    <2>2. inbound' \in [Sessions -> [1..N+1 -> {"none", "reply", "timeout"}]]
      <3>1. inbound \in [Sessions -> [1..N+1 -> {"none", "reply", "timeout"}]]
        BY <1>t DEF RestType
      <3>2. LET i == run[s].turn IN
            \/ inbound' = inbound
            \/ inbound' = [inbound EXCEPT ![s][i] = "timeout"]
        BY <1>9 DEF RecordTimeout
      <3>3. [inbound EXCEPT ![s][run[s].turn] = "timeout"]
              \in [Sessions -> [1..N+1 -> {"none", "reply", "timeout"}]]
        BY <3>1, Nested
      <3> QED BY <3>1, <3>2, <3>3
    <2>3. RunType' /\ Others(s)
      BY <1>9, <2>1 DEF RecordTimeout
    <2> QED BY <1>9, <1>t, <2>2, <2>3
            DEF RecordTimeout, RestType, OthersOfRun, TypeOK, RunType
  <1>10. CASE MarkFailed(s)
    <2>1. RunType' /\ Others(s)
      BY <1>10, <1>t, RunWrites DEF MarkFailed, Idle
    <2> QED BY <1>10, <1>t, <2>1
            DEF MarkFailed, RestType, OthersOfRun, TypeOK, RunType, Statuses,
                Terminal, Codes, FailCode
  <1>11. CASE Bump(s)
    <2>1. run[s].turn \in 0..N /\ run[s].turn + 1 \in 1..N+1
      BY <1>11 DEF Bump, RunOK, At, Working, Ends
    <2>2. LoopAt(run[s].turn + 1) \in Idle \cup Working
      <3>1. run[s].turn + 1 \in Nat
        BY <2>1
      <3> QED BY <3>1 DEF Working
    <2>3. RunType' /\ Others(s)
      BY <1>11, <1>t, <2>1, <2>2 DEF Bump, RunType, Others, RunStates
    <2>4. turn' \in [Sessions -> 0..N]
      BY <1>11, <1>t, <2>1 DEF Bump, RestType
    <2> QED BY <1>11, <1>t, <2>3, <2>4
            DEF Bump, RestType, OthersOfRun, TypeOK, RunType
  <1>12. CASE Complete(s)
    <2>1. RunType' /\ Others(s)
      BY <1>12, <1>t, RunWrites DEF Complete, Working
    <2> QED BY <1>12, <1>t, <2>1
            DEF Complete, RestType, OthersOfRun, TypeOK, RunType, Statuses,
                Terminal
  <1>13. CASE Analyse(s)
    <2>1. RunType' /\ Others(s)
      BY <1>13, <1>t, RunWrites DEF Analyse, Idle
    <2> QED BY <1>13, <1>t, <2>1
            DEF Analyse, RestType, rows, TypeOK, RunType
  <1>14. CASE RunFault(s)
    <2>1. RunType' /\ Others(s)
      BY <1>14, <1>t, RunWrites DEF RunFault
    <2> QED BY <1>14, <1>t, <2>1
            DEF RunFault, RestType, rows, OthersOfRun, TypeOK, RunType
  <1>15. CASE RunInvalid(s)
    <2>1. turn[s] \in 0..N /\ run[s].attempts < MaxAttempts
      BY <1>15 DEF TypeOK, RunInvalid, RunOK
    <2>2. RunType' /\ Others(s)
      BY <1>15, <1>t, <2>1, Begins DEF RunInvalid
    <2> QED BY <1>15, <1>t, <2>2
            DEF RunInvalid, RestType, rows, OthersOfRun, TypeOK, RunType
  <1>16. CASE PostRefused(s)
    <2>1. RunType' /\ Others(s)
      BY <1>16, <1>t, Posts
    <2> QED BY <1>16, <1>t, <2>1
            DEF PostRefused, RestType, rows, OthersOfRun, TypeOK, RunType
  <1>17. CASE PostFails(s)
    <2>1. RunType' /\ Others(s)
      BY <1>17, <1>t, Posts
    <2>2. run[s].turn \in Turns
      BY <1>17 DEF PostFails, RunOK, At, Working, Ends, Turns
    <2>3. sent \in [Sessions -> [Turns -> Nat]]
      BY <1>t DEF RestType
    <2>4. sent[s][run[s].turn] + 1 \in Nat
      BY <2>2, <2>3
    <2>5. sent' \in [Sessions -> [Turns -> Nat]]
      <3>1. [sent EXCEPT ![s][run[s].turn] = sent[s][run[s].turn] + 1]
              \in [Sessions -> [Turns -> Nat]]
        BY <2>2, <2>3, <2>4, Nested
      <3> QED BY <1>17, <2>3, <3>1 DEF PostFails, GoesOut
    <2>6. faults' \in Nat
      BY <1>17, <1>t DEF PostFails, RestType
    <2>7. UNCHANGED <<rows, buffer, OthersOfRun>>
      BY <1>17 DEF PostFails
    <2>8. RestType'
      BY <1>t, <2>5, <2>6, <2>7 DEF RestType, rows, OthersOfRun
    <2> QED BY <2>1, <2>8, Zenon DEF TypeOK, RunType, RestType
  <1> QED BY <1>1, <1>2, <1>3, <1>4, <1>5, <1>6, <1>7, <1>8, <1>9, <1>10,
             <1>11, <1>12, <1>13, <1>14, <1>15, <1>16, <1>17
          DEF RunStep, RunTrouble

(* A session is created in its type, with its job yet to be added or none. *)
LEMMA CreationTyped ==
  ASSUME TypeOK, NEW s \in Sessions, NEW pc \in {"adding", "none", "counting"},
         NewSession(s, pc), callPc' \in [Calls -> {"idle", "check", "store",
                                                   "clone", "done"}],
         tick' \in BOOLEAN
  PROVE  /\ TypeOK' /\ Others(s)
         /\ run'[s] = [run[s] EXCEPT !.pc = pc]
  <1>t. RunType /\ RestType
    BY TypeParts
  <1>1. RunType' /\ Others(s) /\ run'[s] = [run[s] EXCEPT !.pc = pc]
    <2>1. run' = [run EXCEPT ![s].pc = pc] /\ run \in [Sessions -> RunStates]
      BY <1>t DEF NewSession, RunType
    <2>2. run'[s] = [run[s] EXCEPT !.pc = pc] /\ Others(s)
      BY <2>1 DEF Others
    <2>3. [run[s] EXCEPT !.pc = pc] \in RunStates
      BY <2>1 DEF RunStates, Idle
    <2> QED BY <2>1, <2>2, <2>3 DEF RunType
  <1>2. status' \in [Sessions -> Statuses]
    BY <1>t DEF NewSession, RestType, Statuses, Active
  <1>3. RestType'
    BY <1>t, <1>2 DEF NewSession, RestType
  <1> QED BY <1>1, <1>3 DEF TypeOK, RunType, RestType

LEMMA DeliveryTyped ==
  ASSUME TypeOK, DeliveriesOK, NEW d \in Deliveries,
         Arrive(d) \/ DeliveryStep(d) \/ DeliveryFault(d)
  PROVE  /\ TypeOK'
         /\ ~Publish(d) => run' = run
         /\ Publish(d) => Others(delivery[d].session)
  <1>t. RunType /\ RestType /\ delivery[d] \in DeliveryStates
    BY TypeParts DEF RestType
  <1>o. DeliveryOK(d)
    BY DEF DeliveriesOK
  <1>n. [delivery EXCEPT ![d] = NoDelivery]
          \in [Deliveries -> DeliveryStates]
    BY <1>t, Bounds DEF RestType
  <1>m. ASSUME NEW pc \in {"buffer", "publish", "abort"}, MoveTo(d, pc)
        PROVE  delivery' \in [Deliveries -> DeliveryStates]
    <2>1. [delivery[d] EXCEPT !.pc = pc] \in DeliveryStates
      BY <1>t DEF DeliveryStates
    <2>2. delivery' = [delivery EXCEPT ![d] = [delivery[d] EXCEPT !.pc = pc]]
      BY <1>m, <1>t DEF MoveTo, RestType
    <2> QED BY <1>t, <2>1, <2>2 DEF RestType
  <1>s. ~InDelivery(d, "idle") /\ ~InDelivery(d, "seek") =>
          delivery[d].session \in Sessions /\ delivery[d].turn \in 1..N+1
    BY <1>o DEF DeliveryOK
  <1>1. CASE Arrive(d)
    <2>1. delivery' \in [Deliveries -> DeliveryStates]
      <3>1. PICK m \in Messages : delivery' = [delivery EXCEPT ![d] =
              [NoDelivery EXCEPT !.pc = "seek", !.message = m]]
        BY <1>1 DEF Arrive
      <3>2. [NoDelivery EXCEPT !.pc = "seek", !.message = m] \in DeliveryStates
        BY Bounds DEF DeliveryStates
      <3> QED BY <1>t, <3>1, <3>2 DEF RestType
    <2> QED BY <1>1, <1>t, <2>1
            DEF Arrive, OthersOfDelivery, TypeOK, RunType, RestType, Publish,
                InDelivery
  <1>2. CASE Seek(d)
    <2>1. delivery' \in [Deliveries -> DeliveryStates]
      <3>1. CASE Answer(d)
        BY <1>n, <3>1 DEF Answer
      <3>2. CASE ~Answer(d)
        <4>1. PICK s \in Sessions :
                delivery' = [delivery EXCEPT
                  ![d].session = s, ![d].turn = turn[s] + 1,
                  ![d].pc = IF delivery[d].message \in OptOuts THEN "optout"
                            ELSE "persist"]
          BY <1>2, <3>2 DEF Seek, UnderWay
        <4>2. s \in 0..MaxSessions /\ turn[s] + 1 \in 0..N+1
          BY <1>t, Bounds, ProbeConstants DEF Sessions, RestType
        <4> QED BY <1>t, <4>1, <4>2 DEF RestType, DeliveryStates
      <3> QED BY <3>1, <3>2
    <2> QED BY <1>2, <1>t, <2>1
            DEF Seek, OthersOfDelivery, TypeOK, RunType, RestType, Publish,
                InDelivery
  <1>3. CASE OptOut(d)
    <2>1. delivery' \in [Deliveries -> DeliveryStates]
      BY <1>3, <1>m DEF OptOut
    <2>2. /\ status' \in [Sessions -> Statuses] /\ code' \in [Sessions -> Codes]
          /\ optedOut' \in BOOLEAN
      BY <1>3, <1>t DEF OptOut, RestType, Statuses, Terminal, Codes
    <2> QED BY <1>3, <1>t, <2>1, <2>2
            DEF OptOut, OthersOfDelivery, TypeOK, RunType, RestType, Publish,
                InDelivery
  <1>4. CASE Persist(d)
    <2>1. delivery' \in [Deliveries -> DeliveryStates]
      BY <1>4, <1>m, <1>n DEF Persist, Answer
    <2>2. recorded' \in SUBSET Messages
      <3>1. delivery[d].message \in Messages
        BY <1>4, <1>o DEF Persist, DeliveryOK, InDelivery
      <3> QED BY <1>4, <1>t, <3>1 DEF Persist, RestType
    <2>3. inbound' \in [Sessions -> [1..N+1 -> {"none", "reply", "timeout"}]]
      <3>1. inbound \in [Sessions -> [1..N+1 -> {"none", "reply", "timeout"}]]
        BY <1>t DEF RestType
      <3>2. delivery[d].session \in Sessions /\ delivery[d].turn \in 1..N+1
        BY <1>4, <1>s DEF Persist, InDelivery
      <3>3. [inbound EXCEPT ![delivery[d].session][delivery[d].turn] = "reply"]
             \in [Sessions -> [1..N+1 -> {"none", "reply", "timeout"}]]
        BY <3>1, <3>2, Nested
      <3> QED BY <1>4, <3>1, <3>3 DEF Persist
    <2> QED BY <1>4, <1>t, <2>1, <2>2, <2>3
            DEF Persist, OthersOfDelivery, TypeOK, RunType, RestType, Publish,
                InDelivery
  <1>5. CASE SetBuffer(d)
    <2>1. delivery' \in [Deliveries -> DeliveryStates]
      BY <1>5, <1>m DEF SetBuffer
    <2>2. delivery[d].session \in Sessions /\ delivery[d].turn \in 1..N+1
      BY <1>5, <1>s DEF SetBuffer, InDelivery
    <2>3. buffer' \in [Sessions -> SUBSET (1..N+1)]
      BY <1>5, <1>t, <2>2 DEF SetBuffer, RestType
    <2> QED BY <1>5, <1>t, <2>1, <2>3
            DEF SetBuffer, OthersOfDelivery, TypeOK, RunType, RestType,
                Publish, InDelivery
  <1>6. CASE Publish(d)
    <2>1. delivery[d].session \in Sessions
      BY <1>6, <1>s DEF Publish, InDelivery
    <2>2. delivery' \in [Deliveries -> DeliveryStates]
      BY <1>6, <1>n DEF Publish, Answer
    <2>3. RunType' /\ Others(delivery[d].session)
      <3>1. CASE run' = run
        BY <1>t, <3>1 DEF RunType, Others
      <3>2. CASE run' # run
        <4>1. \/ Stop(delivery[d].session, "done")
              \/ Enter(delivery[d].session, "advance")
          BY <1>6, <3>2 DEF Publish
        <4> QED BY <1>t, <2>1, <4>1, RunWrites DEF Idle, Sites
      <3> QED BY <3>1, <3>2
    <2> QED BY <1>6, <1>t, <2>2, <2>3
            DEF Publish, OthersOfDelivery, TypeOK, RunType, RestType
  <1>7. CASE DeliveryFault(d)
    <2>1. delivery' \in [Deliveries -> DeliveryStates]
      BY <1>7, <1>n DEF DeliveryFault, Answer
    <2> QED BY <1>7, <1>t, <2>1
            DEF DeliveryFault, OthersOfDelivery, TypeOK, RunType, RestType,
                Publish, InDelivery
  <1> QED BY <1>1, <1>2, <1>3, <1>4, <1>5, <1>6, <1>7 DEF DeliveryStep

(* A crash leaves each run as it was, undone, queued again or dead.        *)
LEMMA AfterCrash ==
  ASSUME TypeOK, SessionsOK, Crash, NEW s \in Sessions
  PROVE  \/ run'[s] = run[s] /\ run[s].pc \in Idle \ Lost
         \/ run'[s] = NoRun /\ run[s].pc \in Lost
         \/ run'[s] = Stopped("dead") /\ run[s].pc \in Working
         \/ /\ run'[s] = Again(run[s].attempts - 1) /\ run[s].pc \in Working
            /\ run[s].attempts - 1 \in 0..MaxAttempts
            /\ run[s].attempts - 1 < MaxAttempts
  <1>1. PICK stalled \in SUBSET {t \in Sessions : run[t].pc \in Working} :
          run' = [t \in Sessions |->
            CASE t \in stalled               -> Again(run[t].attempts - 1)
              [] run[t].pc \in Idle \ Lost   -> run[t]
              [] run[t].pc \in Lost          -> NoRun
              [] OTHER                       -> Stopped("dead")]
    BY DEF Crash
  <1>2. run'[s] =
          CASE s \in stalled               -> Again(run[s].attempts - 1)
            [] run[s].pc \in Idle \ Lost   -> run[s]
            [] run[s].pc \in Lost          -> NoRun
            [] OTHER                       -> Stopped("dead")
    BY <1>1
  <1>3. run[s].pc \in Idle \cup Working /\ run[s].attempts \in 0..MaxAttempts
    BY Places
  <1>4. run[s].pc \in Idle => run[s].pc \notin Working
    BY DEF Idle, Working
  <1>5. CASE s \in stalled
    <2>1. /\ run[s].pc \in Working
          /\ run[s].pc \notin Idle /\ run[s].pc \notin Lost
      BY <1>1, <1>4, <1>5 DEF Lost, Idle
    <2>2. run'[s] = Again(run[s].attempts - 1)
      BY <1>2, <1>5, <2>1
    <2>3. run[s].attempts >= 1
      BY <2>1 DEF SessionsOK, SessionOK, RunOK
    <2> QED BY <1>3, <2>1, <2>2, <2>3, Bounds
  <1>6. CASE s \notin stalled /\ run[s].pc \in Idle \ Lost
    BY <1>2, <1>6
  <1>7. CASE s \notin stalled /\ run[s].pc \in Lost
    BY <1>2, <1>7
  <1>8. CASE s \notin stalled /\ run[s].pc \notin Idle
    <2>1. run[s].pc \notin Lost
      BY <1>8 DEF Lost, Idle
    <2> QED BY <1>2, <1>3, <1>8, <2>1
  <1> QED BY <1>5, <1>6, <1>7, <1>8

LEMMA TypeStep ==
  ASSUME TypeOK, SessionsOK, DeliveriesOK, [Next]_vars
  PROVE  TypeOK'
  <1>t. RunType /\ RestType
    BY TypeParts
  <1>r. \A s \in Sessions : RunOK(s)
    BY DEF SessionsOK, SessionOK
  <1>1. CASE UNCHANGED vars
    BY <1>1 DEF TypeOK, vars, rows
  <1>2. ASSUME NEW s \in Sessions, CreateSession(s) \/ TickCreate(s)
        PROVE  TypeOK'
    BY <1>2, <1>t, CreationTyped DEF CreateSession, TickCreate, RestType
  <1>3. ASSUME NEW s \in Sessions, NEW c \in Calls, CallClone(c, s)
        PROVE  TypeOK'
    BY <1>3, <1>t, CreationTyped DEF CallClone, SetCall, RestType
  <1>4. ASSUME NEW s \in Sessions, CountRetry(s)
        PROVE  TypeOK'
    <2>1. retries' \in [Sessions -> 0..1]
      BY <1>4, <1>r, <1>t DEF CountRetry, RunOK, At, RestType
    <2>2. RunType'
      BY <1>4, <1>t DEF CountRetry, RunType, RunStates, Idle
    <2> QED BY <1>4, <1>t, <2>1, <2>2
            DEF CountRetry, TypeOK, RunType, RestType
  <1>5. ASSUME NEW s \in Sessions, AddJob(s) \/ CreationFault(s)
        PROVE  TypeOK'
    <2>1. RunType'
      <3>1. CASE AddJob(s)
        BY <1>t, <3>1 DEF AddJob, RunType, RunStates, Idle
      <3>2. CASE CreationFault(s)
        BY <1>t, <3>2, RunWrites DEF CreationFault, Idle
      <3> QED BY <1>5, <3>1, <3>2
    <2> QED BY <1>5, <1>t, <2>1
            DEF AddJob, CreationFault, TypeOK, RunType, RestType, rows,
                OthersOfRun
  <1>6. ASSUME NEW s \in Sessions, RunStep(s) \/ RunTrouble(s)
        PROVE  TypeOK'
    BY <1>6, <1>r, RunTyped
  <1>7. ASSUME NEW s \in Sessions, NEW i \in 1..N+1, BufferExpires(s, i)
        PROVE  TypeOK'
    BY <1>7, <1>t DEF BufferExpires, TypeOK, RunType, RestType, rows
  <1>8. CASE TickLook
    BY <1>8, <1>t DEF TickLook, TypeOK, RunType, RestType, rows
  <1>9. ASSUME NEW d \in Deliveries,
               Arrive(d) \/ DeliveryStep(d) \/ DeliveryFault(d)
        PROVE  TypeOK'
    BY <1>9, DeliveryTyped
  <1>10. ASSUME NEW c \in Calls, CallRead(c) \/ CallCheck(c)
         PROVE  TypeOK'
    <2>1. callPc' \in [Calls -> {"idle", "check", "store", "clone", "done"}]
      BY <1>10, <1>t DEF CallRead, CallCheck, SetCall, RestType
    <2> QED BY <1>10, <1>t, <2>1
            DEF CallRead, CallCheck, OthersOfCall, TypeOK, RunType, RestType
  <1>11. ASSUME NEW c \in Calls, CallStore(c)
         PROVE  TypeOK'
    <2>1. callPc' \in [Calls -> {"idle", "check", "store", "clone", "done"}]
      BY <1>11, <1>t DEF CallStore, SetCall, RestType
    <2>2. code' \in [Sessions -> Codes]
      BY <1>11, <1>t DEF CallStore, RestType, Codes
    <2>3. status' \in [Sessions -> Statuses]
      <3>1. (CASE request[c].op = "pause"  -> "paused"
               [] request[c].op = "resume" -> "queued"
               [] OTHER                    -> "aborted") \in Statuses
        BY DEF Statuses, Active, Terminal
      <3> QED BY <1>11, <1>t, <3>1 DEF CallStore, RestType
    <2> QED BY <1>11, <1>t, <2>1, <2>2, <2>3
            DEF CallStore, OthersOfCall, TypeOK, RunType, RestType
  <1>12. CASE Crash
    <2>1. DOMAIN run' = Sessions /\ run' = [s \in Sessions |-> run'[s]]
      BY <1>12 DEF Crash
    <2>2. \A s \in Sessions : run'[s] \in RunStates
      <3> TAKE s \in Sessions
      <3>1. run[s] \in RunStates /\ NoRun \in RunStates
        BY <1>t, Bounds DEF RunType
      <3>2. /\ Stopped("dead") \in RunStates
            /\ \A n \in 0..MaxAttempts : Again(n) \in RunStates
        BY Bounds DEF Stopped, Again, RunStates, Idle
      <3> QED BY <1>12, <3>1, <3>2, AfterCrash
    <2>3. RunType'
      BY <2>1, <2>2 DEF RunType
    <2>4. /\ delivery' \in [Deliveries -> DeliveryStates]
          /\ callPc' \in [Calls -> {"idle", "check", "store", "clone", "done"}]
          /\ tick' \in BOOLEAN
      BY <1>12, Bounds DEF Crash
    <2> QED BY <1>12, <1>t, <2>3, <2>4
            DEF Crash, TypeOK, RunType, RestType, rows
  <1> QED BY <1>1, <1>2, <1>3, <1>4, <1>5, <1>6, <1>7, <1>8, <1>9, <1>10,
             <1>11, <1>12 DEF Next

-----------------------------------------------------------------------------
(* Sessions.  A step that does not work on a session leaves it Kept.       *)
Rows(s) ==
  /\ turn'[s] = turn[s] /\ outbound'[s] = outbound[s] /\ sent'[s] = sent[s]
  /\ \A i \in 1..N+1 :
       inbound[s][i] # "none" => inbound'[s][i] = inbound[s][i]
  /\ s \in analysed' => s \in analysed
  /\ faults' >= faults

Kept(s) ==
  /\ Rows(s)
  /\ run'[s] = run[s] /\ retries'[s] = retries[s]
  /\ status'[s] = "absent" => status[s] = "absent"
  /\ code'[s] = "RESPONSE_TIMEOUT" => code[s] = "RESPONSE_TIMEOUT"

(* A run that moves, with no row of its session lost.                      *)
LEMMA SessionMoves ==
  ASSUME TypeOK, TypeOK', NEW s \in Sessions, SessionOK(s), Rows(s), RunOK(s)',
         code'[s] = "RESPONSE_TIMEOUT" =>
           code[s] = "RESPONSE_TIMEOUT" /\ At(s, "done")',
         At(s, "record") =>
           \/ At(s, "record")' /\ run'[s].turn = run[s].turn
           \/ faults' > faults
  PROVE  SessionOK(s)'
  <1>t. /\ turn[s] \in 0..N /\ outbound[s] \in SUBSET Turns
        /\ sent[s] \in [Turns -> Nat] /\ faults \in Nat /\ faults' \in Nat
    BY DEF TypeOK
  <1>1. Whole(s)'
    BY <1>t, Bounds DEF SessionOK, Whole, Rows
  <1>2. CodeOK(s)'
    BY <1>t, Bounds DEF SessionOK, CodeOK, Rows
  <1>3. ASSUME NEW i \in Turns
        PROVE  SentOK(s, i)'
    <2>1. SentOK(s, i) /\ sent[s][i] \in Nat
      BY <1>t DEF SessionOK
    <2>2. CASE ~At(s, "record")
      BY <1>t, <2>1, <2>2 DEF SentOK, Rows
    <2>3. CASE run'[s].pc = "record" /\ run'[s].turn = run[s].turn
      BY <1>t, <2>1, <2>3 DEF SentOK, Rows, At
    <2>4. CASE faults' > faults
      BY <1>t, <2>1, <2>4 DEF SentOK, Rows
    <2> QED BY <2>2, <2>3, <2>4 DEF At
  <1>4. s \in analysed' => turn'[s] = N
    BY DEF SessionOK, Rows
  <1> QED BY <1>1, <1>2, <1>3, <1>4 DEF SessionOK

LEMMA SessionFrame ==
  ASSUME TypeOK, TypeOK', NEW s \in Sessions, SessionOK(s), Kept(s)
  PROVE  SessionOK(s)'
  <1>1. run[s].turn \in 1..N+1
    BY Places
  <1>2. /\ Rows(s) /\ run'[s] = run[s] /\ retries'[s] = retries[s]
        /\ status'[s] = "absent" => status[s] = "absent"
    BY DEF Kept
  <1>3. /\ turn'[s] = turn[s] /\ outbound'[s] = outbound[s]
        /\ inbound[s][run[s].turn] # "none" =>
             inbound'[s][run[s].turn] = inbound[s][run[s].turn]
    BY <1>1, <1>2 DEF Rows
  <1>4. RunOK(s)'
    BY <1>2, <1>3 DEF SessionOK, RunOK, At, InStatus
  <1>5. code'[s] = "RESPONSE_TIMEOUT" =>
          code[s] = "RESPONSE_TIMEOUT" /\ At(s, "done")'
    BY <1>2 DEF Kept, SessionOK, CodeOK, At
  <1> QED BY <1>2, <1>4, <1>5, SessionMoves DEF At

(* A run that is over, or waits for its next attempt, claims nothing.      *)
LEMMA RunRests ==
  ASSUME TypeOK, NEW s \in Sessions, RunOK(s), run[s].pc # "none",
         status'[s] = "absent" => status[s] = "absent",
         \/ \E pc \in {"done", "dead", "none"} : run'[s] = Stopped(pc)
         \/ run'[s] = NoRun
         \/ \E n \in Nat : run'[s] = Again(n) /\ n < MaxAttempts
  PROVE  RunOK(s)'
  <1>1. status'[s] # "absent"
    BY DEF RunOK, NoRun
  <1>2. CASE \E pc \in {"done", "dead", "none"} : run'[s] = Stopped(pc)
    <2>1. PICK pc \in {"done", "dead", "none"} : run'[s] = Stopped(pc)
      BY <1>2
    <2>2. run'[s].pc = pc
      BY <2>1 DEF Stopped, NoRun
    <2> QED BY <1>1, <2>2 DEF RunOK, At, InStatus, Working, Lost, Ends, Sent
  <1>3. CASE run'[s] = NoRun
    <2>1. run'[s].pc = "none"
      BY <1>3 DEF NoRun
    <2> QED BY <1>1, <2>1 DEF RunOK, At, InStatus, Working, Lost, Ends, Sent
  <1>4. CASE \E n \in Nat : run'[s] = Again(n) /\ n < MaxAttempts
    <2>1. run'[s].pc = "queued" /\ run'[s].attempts < MaxAttempts
      BY <1>4 DEF Again, NoRun
    <2> QED BY <1>1, <2>1 DEF RunOK, At, InStatus, Working, Lost, Ends, Sent
  <1> QED BY <1>2, <1>3, <1>4

LEMMA Elsewhere ==
  ASSUME TypeOK, NEW s \in Sessions, RunOK(s), RunStep(s) \/ RunTrouble(s),
         NEW t \in Sessions \ {s}
  PROVE  Kept(t)
  <1>1. run'[t] = run[t]
    BY RunTyped DEF Others
  <1>2. /\ status'[t] = status[t] /\ retries' = retries
        /\ code'[t] = code[t]
    BY DEF RunStep, RunStart, StatusCheck, StatusStore, Look, Send, Record,
           ReadBuffer, Listen, Timeout, RecordTimeout, MarkFailed, Bump,
           Complete, Analyse, RunFault, RunTrouble, RunInvalid, PostFails,
           PostRefused, GoesOut, rows, OthersOfRun, TypeOK
  <1>3. turn'[t] = turn[t] /\ outbound'[t] = outbound[t]
    BY DEF RunStep, RunStart, StatusCheck, StatusStore, Look, Send, Record,
           ReadBuffer, Listen, Timeout, RecordTimeout, MarkFailed, Bump,
           Complete, Analyse, RunFault, RunTrouble, RunInvalid, PostFails,
           PostRefused, GoesOut, rows, OthersOfRun, TypeOK
  <1>4. sent'[t] = sent[t] /\ inbound'[t] = inbound[t]
    BY DEF RunStep, RunStart, StatusCheck, StatusStore, Look, Send, Record,
           ReadBuffer, Listen, Timeout, RecordTimeout, MarkFailed, Bump,
           Complete, Analyse, RunFault, RunTrouble, RunInvalid, PostFails,
           PostRefused, GoesOut, rows, OthersOfRun, TypeOK
  <1>5. (t \in analysed' => t \in analysed) /\ faults' >= faults
    <2>1. faults \in Nat
      BY DEF TypeOK
    <2> QED
      BY <2>1
         DEF RunStep, RunStart, StatusCheck, StatusStore, Look, Send, Record,
           ReadBuffer, Listen, Timeout, RecordTimeout, MarkFailed, Bump,
           Complete, Analyse, RunFault, RunTrouble, RunInvalid, PostFails,
           PostRefused, GoesOut, rows, OthersOfRun
  <1> QED BY <1>1, <1>2, <1>3, <1>4, <1>5 DEF Kept, Rows

(* What the invariant says of a run at each place, read off for a step.    *)
LEMMA AtWork ==
  ASSUME TypeOK, NEW s \in Sessions, SessionOK(s), run[s].pc \in Working
  PROVE  /\ status[s] # "absent" /\ code[s] # "RESPONSE_TIMEOUT"
         /\ run[s].turn = turn[s] + 1 /\ run[s].attempts \in 1..MaxAttempts
         /\ run[s].turn \in 1..N+1 /\ turn[s] \in 0..N
         /\ run[s].pc # "none"
  <1>1. /\ run[s].turn \in 1..N+1 /\ run[s].attempts \in 0..MaxAttempts
        /\ turn[s] \in 0..N
    BY Places DEF TypeOK
  <1>2. RunOK(s) /\ CodeOK(s)
    BY DEF SessionOK
  <1>3. run[s].pc # "none" /\ run[s].pc # "done"
    BY DEF Working
  <1>4. status[s] # "absent"
    BY <1>2, <1>3 DEF RunOK, NoRun
  <1>5. code[s] # "RESPONSE_TIMEOUT"
    BY <1>2, <1>3 DEF CodeOK, At
  <1>6. run[s].turn = turn[s] + 1 /\ run[s].attempts >= 1
    BY <1>2 DEF RunOK
  <1> QED BY <1>1, <1>3, <1>4, <1>5, <1>6, Bounds

(* Steps that only move the run.                                           *)
LEMMA RunMoves ==
  ASSUME TypeOK, TypeOK', NEW s \in Sessions, SessionOK(s), Rows(s), RunOK(s)',
         run[s].pc \in Working \/ At(s, "queued"), code' = code,
         ~At(s, "record") \/ faults' > faults
  PROVE  SessionOK(s)'
  <1>1. code[s] # "RESPONSE_TIMEOUT"
    BY DEF SessionOK, CodeOK, At, Working
  <1> QED BY <1>1, SessionMoves

(* updateStatus is over: the run goes where its site says.                 *)
LEMMA StatusOver ==
  ASSUME TypeOK, TypeOK', NEW s \in Sessions, SessionOK(s), Rows(s),
         InStatus(s), Goto(s, AfterStatus(s)), status'[s] # "absent",
         retries' = retries
  PROVE  RunOK(s)'
  <1>1. run[s].pc \in Working
    BY DEF InStatus, Working
  <1>2. AfterStatus(s) \in Idle \cup Working
    BY Places DEF Working
  <1>3. /\ run'[s].pc = AfterStatus(s) /\ run'[s].turn = run[s].turn
        /\ run'[s].site = "start" /\ run'[s].attempts = run[s].attempts
    BY <1>2, RunWrites, TypeParts
  <1>4. turn'[s] = turn[s] /\ outbound'[s] = outbound[s]
    BY DEF Rows
  <1>5. run[s].turn = turn[s] + 1 /\ run[s].attempts >= 1
    BY <1>1, AtWork, Bounds
  <1>6. RunOK(s) /\ run[s].turn \in 1..N+1
    BY Places DEF SessionOK
  <1>7. CASE run[s].site = "start"
    <2>1. run'[s].pc = LoopAt(run[s].turn)
      BY <1>3, <1>7, Places
    <2>2. CASE run[s].turn > N
      <3>1. run'[s].pc = "complete" /\ run[s].turn = N + 1
        BY <1>6, <2>1, <2>2, Bounds DEF LoopAt
      <3> QED BY <1>3, <1>4, <1>5, <3>1
              DEF RunOK, At, InStatus, Working, Lost, Ends, Sent
    <2>3. CASE ~(run[s].turn > N)
      <3>1. run'[s].pc = "look" /\ run[s].turn <= N
        BY <1>6, <2>1, <2>3, Bounds DEF LoopAt
      <3> QED BY <1>3, <1>4, <1>5, <3>1
              DEF RunOK, At, InStatus, Working, Lost, Ends, Sent
    <2> QED BY <2>2, <2>3
  <1>8. CASE run[s].site = "await"
    <2>1. run'[s].pc = "early"
      BY <1>3, <1>8, Places
    <2>2. run[s].turn <= N /\ run[s].turn \in outbound[s]
      BY <1>6, <1>8 DEF RunOK
    <2> QED BY <1>3, <1>4, <1>5, <2>1, <2>2
            DEF RunOK, At, InStatus, Working, Lost, Ends, Sent
  <1>9. CASE run[s].site = "advance"
    <2>1. run'[s].pc = "bump"
      BY <1>3, <1>9, Places
    <2>2. /\ run[s].turn <= N /\ run[s].turn \in outbound[s]
          /\ inbound[s][run[s].turn] # "none"
      BY <1>6, <1>9 DEF RunOK
    <2>3. inbound'[s][run[s].turn] # "none"
      BY <1>6, <2>2 DEF Rows
    <2> QED BY <1>3, <1>4, <1>5, <2>1, <2>2, <2>3
            DEF RunOK, At, InStatus, Working, Lost, Ends, Sent
  <1> QED BY <1>7, <1>8, <1>9, Places DEF Sites

(* An error ends the attempt and, when attempts are left, queues the next. *)
LEMMA AfterThrow ==
  ASSUME TypeOK, NEW s \in Sessions, SessionOK(s), run[s].pc \in Working,
         Throws(s), status'[s] = status[s]
  PROVE  RunOK(s)'
  <1>1. /\ run[s].pc # "none" /\ run[s].attempts \in 1..MaxAttempts
        /\ RunOK(s) /\ run[s].attempts \in Nat
    BY AtWork, Bounds DEF SessionOK
  <1>2. \/ run'[s] = Again(run[s].attempts) /\ run[s].attempts < MaxAttempts
        \/ run'[s] = Stopped("dead")
    BY RunWrites, TypeParts
  <1>3. CASE run'[s] = Stopped("dead")
    <2>1. \E pc \in {"done", "dead", "none"} : run'[s] = Stopped(pc)
      BY <1>3
    <2> QED BY <1>1, <2>1, RunRests
  <1>4. CASE run'[s] = Again(run[s].attempts) /\ run[s].attempts < MaxAttempts
    <2>1. \E n \in Nat : run'[s] = Again(n) /\ n < MaxAttempts
      BY <1>1, <1>4
    <2> QED BY <1>1, <2>1, RunRests
  <1> QED BY <1>2, <1>3, <1>4

(* A POST: what went out has its row to come, or is paid for.              *)
LEMMA PostSession ==
  ASSUME TypeOK, TypeOK', NEW s \in Sessions, SessionOK(s),
         Send(s) \/ PostFails(s)
  PROVE  SessionOK(s)'
  <1>1. /\ code' = code /\ retries' = retries /\ status' = status
        /\ turn' = turn /\ outbound' = outbound /\ inbound' = inbound
        /\ analysed' = analysed
    BY DEF Send, PostFails, rows, OthersOfRun
  <1>2. /\ run[s].pc = "send" /\ run[s].pc \in Working
        /\ ~At(s, "record") /\ RunOK(s) /\ RunType
    BY TypeParts DEF Send, PostFails, At, Working, SessionOK
  <1>3. /\ status[s] # "absent" /\ code[s] # "RESPONSE_TIMEOUT"
        /\ run[s].turn = turn[s] + 1 /\ run[s].attempts \in 1..MaxAttempts
        /\ turn[s] \in 0..N /\ run[s].attempts >= 1
    BY <1>2, AtWork, Bounds
  <1>4. /\ run[s].turn \notin outbound[s] /\ run[s].turn <= N
        /\ run[s].turn \in Turns
    BY <1>2, Places DEF RunOK, Ends, Turns
  <1>5. /\ run'[s].pc \in {"record", "send", "unsent", "refused"}
        /\ Send(s) => run'[s].pc = "record"
        /\ run'[s].turn = run[s].turn /\ run'[s].attempts = run[s].attempts
    <2>1. CASE Send(s)
      <3>1. Goto(s, "record")
        BY <2>1 DEF Send
      <3>2. ~PostFails(s) \/ run'[s].pc = "record"
        BY <1>2, <3>1, RunWrites DEF Working
      <3> QED BY <1>2, <2>1, <3>1, RunWrites DEF Working
    <2>2. CASE ~Send(s)
      BY <1>2, <2>2, Posts
    <2> QED BY <2>1, <2>2
  <1>6. RunOK(s)'
    BY <1>1, <1>3, <1>4, <1>5
       DEF RunOK, At, InStatus, Working, Lost, Ends, Sent
  <1>7. Whole(s)' /\ CodeOK(s)' /\ (s \in analysed' => turn'[s] = N)
    BY <1>1, <1>3 DEF SessionOK, Whole, CodeOK
  <1>8. ASSUME NEW i \in Turns
        PROVE  SentOK(s, i)'
    <2>1. /\ SentOK(s, i) /\ sent \in [Sessions -> [Turns -> Nat]]
          /\ faults \in Nat
      BY DEF SessionOK, TypeOK
    <2>2. sent[s][run[s].turn] + 1 \in Nat /\ sent[s][i] \in Nat
      BY <1>4, <2>1
    <2>3. \/ sent' = [sent EXCEPT ![s][run[s].turn] = sent[s][run[s].turn] + 1]
          \/ sent' = sent
      BY DEF Send, PostFails, GoesOut
    <2>4. \/ Send(s) /\ faults' = faults
          \/ faults' = faults + 1
      BY DEF Send, PostFails
    <2>5. CASE i = run[s].turn
      <3>1. sent'[s][i] = sent[s][i] + 1 \/ sent'[s][i] = sent[s][i]
        BY <1>4, <2>1, <2>2, <2>3, <2>5, Nested
      <3>2. sent[s][i] <= faults
        BY <1>2, <1>4, <2>1, <2>5 DEF SentOK
      <3>3. Send(s) => run'[s].pc = "record" /\ run'[s].turn = i
        BY <1>5, <2>5
      <3>4. i <= turn'[s] + 1
        BY <1>1, <1>3, <2>5
      <3>5. CASE Send(s) /\ faults' = faults
        BY <2>1, <2>2, <3>1, <3>2, <3>3, <3>4, <3>5 DEF SentOK, At
      <3>6. CASE faults' = faults + 1
        BY <2>1, <2>2, <3>1, <3>2, <3>4, <3>6 DEF SentOK
      <3> QED BY <2>4, <3>5, <3>6
    <2>6. CASE i # run[s].turn
      <3>1. sent'[s][i] = sent[s][i]
        BY <1>4, <2>1, <2>2, <2>3, <2>6, Nested
      <3>2. i \notin outbound[s] => sent[s][i] <= faults
        BY <1>2, <2>1 DEF SentOK
      <3> QED BY <1>1, <2>1, <2>2, <2>4, <3>1, <3>2 DEF SentOK
    <2> QED BY <2>5, <2>6
  <1> QED BY <1>6, <1>7, <1>8 DEF SessionOK

(* A run that is not about to start is under way.                          *)
LEMMA RunPlaces ==
  ASSUME NEW s \in Sessions, RunStep(s) \/ RunTrouble(s)
  PROVE  RunStart(s) \/ RunInvalid(s) \/ run[s].pc \in Working
  <1>1. CASE StatusCheck(s) \/ StatusStore(s) \/ Look(s) \/ Send(s) \/ Record(s)
    BY <1>1 DEF StatusCheck, StatusStore, Look, Send, Record, At, Working
  <1>2. CASE ReadBuffer(s) \/ Listen(s) \/ Timeout(s) \/ RecordTimeout(s)
    BY <1>2 DEF ReadBuffer, Listen, Timeout, RecordTimeout, At, Working
  <1>3. CASE MarkFailed(s) \/ Bump(s) \/ Complete(s) \/ Analyse(s)
    BY <1>3 DEF MarkFailed, Failing, Bump, Complete, Analyse, At, Working
  <1>4. CASE PostFails(s) \/ PostRefused(s) \/ RunFault(s)
    BY <1>4 DEF PostFails, PostRefused, RunFault, At, Working
  <1> QED BY <1>1, <1>2, <1>3, <1>4 DEF RunStep, RunTrouble

LEMMA RunSession ==
  ASSUME TypeOK, BufferOK, NEW s \in Sessions, SessionOK(s),
         RunStep(s) \/ RunTrouble(s)
  PROVE  SessionOK(s)'
  <1>a. TypeOK' /\ RunType /\ faults \in Nat
    BY RunTyped, TypeParts DEF SessionOK, TypeOK
  <1>b. RunOK(s)
    BY DEF SessionOK
  <1>p. /\ Idle \subseteq Idle \cup Working
        /\ Working \subseteq Idle \cup Working
        /\ run[s].turn \in 1..N+1 /\ run[s].attempts \in 0..MaxAttempts
    BY Places
  <1>1. CASE RunStart(s) \/ RunInvalid(s)
    <2>1. Rows(s) /\ code' = code /\ status' = status /\ retries' = retries
      BY <1>1, <1>a DEF RunStart, RunInvalid, Rows, rows, OthersOfRun
    <2>2. At(s, "queued") /\ run[s].attempts < MaxAttempts /\ run[s].pc # "none"
      BY <1>1, <1>b DEF RunStart, RunInvalid, RunOK, At
    <2>3. status[s] # "absent"
      BY <1>b, <2>2 DEF RunOK, NoRun
    <2>4. RunOK(s)'
      <3>1. CASE Stop(s, "done")
        <4>1. run'[s] = Stopped("done")
          BY <1>a, <3>1, RunWrites DEF Idle
        <4> QED BY <1>b, <2>1, <2>2, <4>1, RunRests
      <3>2. ASSUME NEW pc \in {"check", "invalid"},
                   run' = [run EXCEPT ![s] = Begun(s, pc)]
            PROVE  RunOK(s)'
        <4>1. turn[s] \in 0..N
          BY DEF TypeOK
        <4>2. /\ run'[s].pc = pc /\ run'[s].turn = turn[s] + 1
              /\ run'[s].site = "start"
              /\ run'[s].attempts = run[s].attempts + 1
          BY <1>a, <2>2, <3>2, <4>1, Begins
        <4>3. turn'[s] = turn[s] /\ run'[s].attempts >= 1
          BY <1>p, <2>1, <4>2, Bounds DEF Rows
        <4> QED BY <2>1, <2>3, <4>2, <4>3
                DEF RunOK, At, InStatus, Working, Lost, Ends, Sent
      <3> QED BY <1>1, <3>1, <3>2 DEF RunStart, RunInvalid, Stop
    <2> QED BY <1>a, <2>1, <2>2, <2>4, RunMoves DEF At
  <1>w. CASE run[s].pc \in Working
    <2>w. /\ status[s] # "absent" /\ code[s] # "RESPONSE_TIMEOUT"
          /\ run[s].turn = turn[s] + 1 /\ run[s].attempts \in 1..MaxAttempts
          /\ turn[s] \in 0..N /\ run[s].pc # "none" /\ run[s].attempts >= 1
      BY <1>w, AtWork, Bounds
    <2>2. CASE StatusCheck(s)
      <3>1. /\ Rows(s) /\ code' = code /\ status' = status
            /\ retries' = retries /\ InStatus(s)
        BY <2>2, <1>a DEF StatusCheck, Rows, rows, OthersOfRun, InStatus, At
      <3>2. RunOK(s)'
        <4>1. CASE status[s] \in Terminal
          BY <1>a, <2>2, <2>w, <3>1, <4>1, StatusOver DEF StatusCheck
        <4>2. CASE status[s] \notin Terminal
          <5>1. run'[s] = [run[s] EXCEPT !.pc = "store"]
            BY <1>a, <2>2, <4>2 DEF StatusCheck, RunType
          <5>2. /\ run'[s].pc = "store" /\ run'[s].turn = run[s].turn
                /\ run'[s].site = run[s].site
                /\ run'[s].attempts = run[s].attempts
            BY <1>a, <5>1 DEF RunType, RunStates
          <5>3. /\ turn'[s] = turn[s] /\ outbound'[s] = outbound[s]
                /\ inbound'[s][run[s].turn] = inbound[s][run[s].turn]
            BY <2>2 DEF StatusCheck, rows
          <5> QED BY <1>b, <2>w, <3>1, <5>2, <5>3
                  DEF RunOK, At, InStatus, Working, Lost, Ends, Sent
        <4> QED BY <4>1, <4>2
      <3> QED BY <1>a, <1>w, <2>2, <3>1, <3>2, RunMoves DEF StatusCheck, At
    <2>3. CASE StatusStore(s)
      <3>1. Rows(s) /\ code' = code /\ retries' = retries /\ InStatus(s)
        BY <2>3, <1>a DEF StatusStore, Rows, OthersOfRun, InStatus, At
      <3>2. status'[s] # "absent"
        BY <2>3 DEF StatusStore, StatusAt, TypeOK
      <3>3. RunOK(s)'
        BY <1>a, <2>3, <3>1, <3>2, StatusOver DEF StatusStore
      <3> QED BY <1>a, <1>w, <2>3, <3>1, <3>3, RunMoves DEF StatusStore, At
    <2>4. CASE Look(s)
      <3>1. Rows(s) /\ code' = code /\ retries' = retries /\ status' = status
        BY <2>4, <1>a DEF Look, Rows, rows, OthersOfRun
      <3>2. /\ turn'[s] = turn[s] /\ outbound'[s] = outbound[s]
            /\ run[s].turn <= N
        BY <1>b, <2>4 DEF Look, rows, RunOK, At, Working, Ends
      <3>3. RunOK(s)'
        <4>1. CASE run[s].turn \in outbound[s]
          <5>1. /\ run'[s].pc = "check" /\ run'[s].turn = run[s].turn
                /\ run'[s].site = "await"
                /\ run'[s].attempts = run[s].attempts
            BY <1>a, <2>4, <4>1, RunWrites DEF Look, Sites
          <5> QED BY <2>w, <3>1, <3>2, <4>1, <5>1
                  DEF RunOK, At, InStatus, Working, Lost, Ends, Sent
        <4>2. CASE run[s].turn \notin outbound[s]
          <5>1. /\ run'[s].pc = "send" /\ run'[s].turn = run[s].turn
                /\ run'[s].attempts = run[s].attempts
            BY <1>a, <2>4, <4>2, RunWrites DEF Look, Working
          <5> QED BY <2>w, <3>1, <3>2, <4>2, <5>1
                  DEF RunOK, At, InStatus, Working, Lost, Ends, Sent
        <4> QED BY <4>1, <4>2
      <3> QED BY <1>a, <1>w, <2>4, <3>1, <3>3, RunMoves DEF Look, At
    <2>5. CASE ReadBuffer(s)
      <3>1. Rows(s) /\ code' = code /\ retries' = retries /\ status' = status
        BY <2>5, <1>a DEF ReadBuffer, Rows, rows, OthersOfRun
      <3>2. /\ turn'[s] = turn[s] /\ outbound'[s] = outbound[s]
            /\ inbound' = inbound
            /\ run[s].turn <= N /\ run[s].turn \in outbound[s]
        BY <1>b, <2>5 DEF ReadBuffer, rows, RunOK, At, Working, Ends, Sent
      <3>3. RunOK(s)'
        <4>1. CASE Buffered(s)
          <5>1. /\ run'[s].pc = "check" /\ run'[s].turn = run[s].turn
                /\ run'[s].site = "advance"
                /\ run'[s].attempts = run[s].attempts
            BY <1>a, <2>5, <4>1, RunWrites DEF ReadBuffer, Sites
          <5>2. inbound[s][run[s].turn] # "none"
            BY <4>1 DEF Buffered, BufferOK
          <5> QED BY <2>w, <3>1, <3>2, <5>1, <5>2
                  DEF RunOK, At, InStatus, Working, Lost, Ends, Sent
        <4>2. CASE ~Buffered(s)
          <5>1. \E pc \in {"subscribe", "hook"} : Goto(s, pc)
            BY <2>5, <4>2 DEF ReadBuffer
          <5>2. /\ run'[s].pc \in {"subscribe", "hook"}
                /\ run'[s].turn = run[s].turn /\ run'[s].site = "start"
                /\ run'[s].attempts = run[s].attempts
            BY <1>a, <5>1, RunWrites DEF Working
          <5> QED BY <2>w, <3>1, <3>2, <5>2
                  DEF RunOK, At, InStatus, Working, Lost, Ends, Sent
        <4> QED BY <4>1, <4>2
      <3> QED BY <1>a, <1>w, <2>5, <3>1, <3>3, RunMoves DEF ReadBuffer, At
    <2>6. CASE Listen(s) \/ Timeout(s)
      <3>1. Rows(s) /\ code' = code /\ retries' = retries /\ status' = status
        BY <2>6, <1>a DEF Listen, Timeout, Rows, rows, OthersOfRun
      <3>2. /\ turn'[s] = turn[s] /\ outbound'[s] = outbound[s]
            /\ run[s].turn <= N /\ run[s].turn \in outbound[s]
        BY <1>b, <2>6
           DEF Listen, Timeout, rows, RunOK, At, Working, Ends, Sent
      <3>3. \E pc \in {"recheck", "waiting", "timedout"} : Goto(s, pc)
        BY <2>6 DEF Listen, Timeout
      <3>4. /\ run'[s].pc \in {"recheck", "waiting", "timedout"}
            /\ run'[s].turn = run[s].turn /\ run'[s].site = "start"
            /\ run'[s].attempts = run[s].attempts
        BY <1>a, <3>3, RunWrites DEF Working
      <3>5. RunOK(s)'
        BY <2>w, <3>1, <3>2, <3>4
           DEF RunOK, At, InStatus, Working, Lost, Ends, Sent
      <3>6. ~At(s, "record")
        BY <2>6 DEF Listen, Timeout, At
      <3> QED BY <1>a, <1>w, <3>1, <3>5, <3>6, RunMoves
    <2>7. CASE Send(s) \/ PostFails(s)
      BY <1>a, <2>7, PostSession
    <2>8. CASE Record(s)
      <3>1. /\ code' = code /\ retries' = retries /\ status' = status
            /\ turn' = turn /\ inbound' = inbound /\ sent' = sent
            /\ analysed' = analysed /\ faults' = faults
        BY <2>8 DEF Record, OthersOfRun
      <3>2. outbound'[s] = outbound[s] \cup {run[s].turn}
        BY <2>8 DEF Record, TypeOK
      <3>3. /\ run'[s].pc = "check" /\ run'[s].turn = run[s].turn
            /\ run'[s].site = "await" /\ run'[s].attempts = run[s].attempts
        BY <1>a, <2>8, RunWrites DEF Record, Sites
      <3>4. run[s].turn <= N /\ At(s, "record")
        BY <1>b, <2>8 DEF Record, RunOK, At, Working, Ends
      <3>5. RunOK(s)'
        BY <2>w, <3>1, <3>2, <3>3, <3>4
           DEF RunOK, At, InStatus, Working, Lost, Ends, Sent
      <3>6. Whole(s)' /\ CodeOK(s)' /\ (s \in analysed' => turn'[s] = N)
        BY <2>w, <3>1, <3>2 DEF SessionOK, Whole, CodeOK
      <3>7. ASSUME NEW i \in Turns
            PROVE  SentOK(s, i)'
        <4>1. SentOK(s, i)
          BY DEF SessionOK
        <4> QED BY <3>1, <3>2, <3>3, <4>1 DEF SentOK, At
      <3> QED BY <3>5, <3>6, <3>7 DEF SessionOK
    <2>9. CASE RecordTimeout(s)
      <3>1. /\ code' = code /\ retries' = retries /\ status' = status
            /\ turn' = turn /\ outbound' = outbound /\ sent' = sent
            /\ analysed' = analysed /\ faults' = faults
        BY <2>9 DEF RecordTimeout, OthersOfRun
      <3>2. /\ At(s, "timedout") /\ run[s].turn <= N
            /\ run[s].turn \in outbound[s]
        BY <1>b, <2>9 DEF RecordTimeout, RunOK, At, Working, Ends, Sent
      <3>3. inbound[s] \in [1..N+1 -> {"none", "reply", "timeout"}]
        BY DEF TypeOK
      <3>4. CASE inbound[s][run[s].turn] # "none"
        <4>1. Throws(s) /\ inbound' = inbound
          BY <2>9, <3>4 DEF RecordTimeout
        <4>2. Rows(s)
          BY <1>a, <3>1, <4>1 DEF Rows
        <4>3. RunOK(s)'
          BY <1>w, <3>1, <4>1, AfterThrow
        <4> QED BY <1>a, <1>w, <3>1, <3>2, <4>2, <4>3, RunMoves DEF At
      <3>5. CASE inbound[s][run[s].turn] = "none"
        <4>1. /\ AfterTimeout(s)
              /\ inbound' = [inbound EXCEPT ![s][run[s].turn] = "timeout"]
          BY <2>9, <3>5 DEF RecordTimeout
        <4>2. inbound \in [Sessions -> [1..N+1 -> {"none", "reply", "timeout"}]]
          BY DEF TypeOK
        <4>3. /\ inbound'[s][run[s].turn] = "timeout"
              /\ \A i \in 1..N+1 : i # run[s].turn =>
                   inbound'[s][i] = inbound[s][i]
          <5>1. inbound'[s] = [inbound[s] EXCEPT ![run[s].turn] = "timeout"]
            BY <4>1, <4>2
          <5> QED BY <1>p, <3>3, <5>1
        <4>4. Rows(s)
          BY <1>a, <3>1, <3>5, <4>3 DEF Rows
        <4>5. \/ /\ run'[s].pc = "check" /\ run'[s].site = "advance"
              \/ /\ run'[s].pc = "unanswered"
          BY <1>a, <4>1, RunWrites DEF AfterTimeout, Sites, Working
        <4>6. /\ run'[s].turn = run[s].turn
              /\ run'[s].attempts = run[s].attempts
          BY <1>a, <4>1, RunWrites DEF AfterTimeout, Sites, Working
        <4>7. RunOK(s)'
          BY <2>w, <3>1, <3>2, <4>3, <4>5, <4>6
             DEF RunOK, At, InStatus, Working, Lost, Ends, Sent
        <4> QED BY <1>a, <1>w, <3>1, <3>2, <4>4, <4>7, RunMoves DEF At
      <3> QED BY <3>4, <3>5
    <2>10. CASE MarkFailed(s)
      <3>1. /\ retries' = retries /\ turn' = turn /\ outbound' = outbound
            /\ inbound' = inbound /\ sent' = sent /\ analysed' = analysed
            /\ faults' = faults
        BY <2>10 DEF MarkFailed, OthersOfRun
      <3>2. run'[s] = Stopped("done")
        BY <1>a, <2>10, RunWrites DEF MarkFailed, Idle
      <3>3. run'[s].pc = "done" /\ ~At(s, "record")
        BY <2>10, <3>2 DEF MarkFailed, Failing, At, Stopped, NoRun
      <3>4. RunOK(s)'
        <4>1. status'[s] # "absent"
          BY <2>10 DEF MarkFailed, TypeOK
        <4>2. \E pc \in {"done", "dead", "none"} : run'[s] = Stopped(pc)
          BY <3>2
        <4> QED BY <1>b, <2>w, <4>1, <4>2, RunRests
      <3>5. CodeOK(s)'
        <4>1. CASE ~At(s, "unanswered")
          <5>1. FailCode(run[s].pc) # "RESPONSE_TIMEOUT"
            BY <2>10, <4>1 DEF MarkFailed, Failing, FailCode, At
          <5>2. code'[s] = FailCode(run[s].pc)
            BY <2>10 DEF MarkFailed, TypeOK
          <5> QED BY <5>1, <5>2 DEF CodeOK
        <4>2. CASE At(s, "unanswered")
          <5>1. run[s].turn <= N /\ inbound[s][run[s].turn] = "timeout"
            BY <1>b, <4>2 DEF RunOK, At, Working, Ends
          <5>2. turn[s] < N
            BY <2>w, <5>1, Bounds
          <5> QED BY <2>w, <3>1, <3>3, <5>1, <5>2 DEF CodeOK, At
        <4> QED BY <4>1, <4>2
      <3>6. Whole(s)' /\ (s \in analysed' => turn'[s] = N)
        BY <3>1 DEF SessionOK, Whole
      <3>7. ASSUME NEW i \in Turns
            PROVE  SentOK(s, i)'
        <4>1. SentOK(s, i)
          BY DEF SessionOK
        <4> QED BY <3>1, <3>3, <4>1 DEF SentOK, At
      <3> QED BY <3>4, <3>5, <3>6, <3>7 DEF SessionOK
    <2>11. CASE Bump(s)
      <3>1. /\ code' = code /\ retries' = retries /\ status' = status
            /\ outbound' = outbound /\ inbound' = inbound /\ sent' = sent
            /\ analysed' = analysed /\ faults' = faults
        BY <2>11 DEF Bump, OthersOfRun
      <3>2. /\ run[s].turn <= N /\ run[s].turn \in outbound[s]
            /\ inbound[s][run[s].turn] # "none" /\ ~At(s, "record")
        BY <1>b, <2>11 DEF Bump, RunOK, At, Working, Ends, Sent
      <3>3. turn'[s] = run[s].turn /\ turn'[s] = turn[s] + 1
        BY <2>11, <2>w DEF Bump, TypeOK
      <3>4. run' = [run EXCEPT ![s].pc = LoopAt(run[s].turn + 1),
                               ![s].turn = run[s].turn + 1]
        BY <2>11 DEF Bump
      <3>5. /\ run'[s].pc = LoopAt(run[s].turn + 1)
            /\ run'[s].turn = run[s].turn + 1
            /\ run'[s].attempts = run[s].attempts
        BY <1>a, <3>4 DEF RunType, RunStates
      <3>6. RunOK(s)'
        <4>1. CASE run[s].turn + 1 > N
          <5>1. run'[s].pc = "complete" /\ run'[s].turn = N + 1
            BY <1>p, <3>2, <3>5, <4>1, Bounds DEF LoopAt
          <5> QED BY <2>w, <3>1, <3>3, <3>5, <5>1
                  DEF RunOK, At, InStatus, Working, Lost, Ends, Sent
        <4>2. CASE ~(run[s].turn + 1 > N)
          <5>1. run'[s].pc = "look" /\ run'[s].turn <= N
            BY <1>p, <3>2, <3>5, <4>2, Bounds DEF LoopAt
          <5> QED BY <2>w, <3>1, <3>3, <3>5, <5>1
                  DEF RunOK, At, InStatus, Working, Lost, Ends, Sent
        <4> QED BY <4>1, <4>2
      <3>7. Whole(s)'
        <4>1. \A j \in 1..turn'[s] : j \in 1..turn[s] \/ j = run[s].turn
          BY <2>w, <3>3, Bounds
        <4> QED BY <3>1, <3>2, <4>1 DEF SessionOK, Whole
      <3>8. CodeOK(s)'
        BY <2>w, <3>1 DEF CodeOK
      <3>9. s \notin analysed'
        BY <2>w, <3>1, <3>2, Bounds DEF SessionOK
      <3>10. ASSUME NEW i \in Turns
             PROVE  SentOK(s, i)'
        <4>1. SentOK(s, i) /\ i \in Nat
          BY Bounds DEF SessionOK, Turns
        <4>2. sent'[s][i] > 0 => i <= turn'[s] + 1
          BY <2>w, <3>1, <3>3, <4>1 DEF SentOK
        <4> QED BY <3>1, <3>2, <4>1, <4>2 DEF SentOK
      <3> QED BY <3>6, <3>7, <3>8, <3>9, <3>10 DEF SessionOK
    <2>12. CASE Complete(s)
      <3>1. Rows(s) /\ code' = code /\ retries' = retries
        BY <2>12, <1>a DEF Complete, Rows, OthersOfRun
      <3>2. /\ run'[s].pc = "analyse" /\ run'[s].turn = run[s].turn
            /\ run'[s].attempts = run[s].attempts
        BY <1>a, <2>12, RunWrites DEF Complete, Working
      <3>3. run[s].turn = N + 1 /\ ~At(s, "record")
        BY <1>b, <2>12 DEF Complete, RunOK, At, Ends
      <3>4. status'[s] # "absent" /\ turn'[s] = turn[s]
        BY <2>12 DEF Complete, TypeOK
      <3>5. RunOK(s)'
        BY <2>w, <3>2, <3>3, <3>4
           DEF RunOK, At, InStatus, Working, Lost, Ends, Sent
      <3> QED BY <1>a, <1>w, <3>1, <3>3, <3>5, RunMoves
    <2>13. CASE Analyse(s)
      <3>1. /\ retries' = retries /\ turn' = turn /\ outbound' = outbound
            /\ inbound' = inbound /\ sent' = sent /\ code' = code
            /\ faults' = faults /\ status' = status
        BY <2>13 DEF Analyse, rows
      <3>2. run'[s] = Stopped("done")
        BY <1>a, <2>13, RunWrites DEF Analyse, Idle
      <3>3. run'[s].pc = "done" /\ ~At(s, "record")
        BY <2>13, <3>2 DEF Analyse, At, Stopped, NoRun
      <3>4. RunOK(s)'
        <4>1. \E pc \in {"done", "dead", "none"} : run'[s] = Stopped(pc)
          BY <3>2
        <4> QED BY <1>b, <2>w, <3>1, <4>1, RunRests
      <3>5. turn'[s] = N
        <4>1. run[s].turn = N + 1
          BY <1>b, <2>13 DEF Analyse, RunOK, At, Ends
        <4> QED BY <2>w, <3>1, <4>1, Bounds
      <3>6. Whole(s)' /\ CodeOK(s)'
        BY <2>w, <3>1 DEF SessionOK, Whole, CodeOK
      <3>7. ASSUME NEW i \in Turns
            PROVE  SentOK(s, i)'
        <4>1. SentOK(s, i)
          BY DEF SessionOK
        <4> QED BY <3>1, <3>3, <4>1 DEF SentOK, At
      <3> QED BY <3>4, <3>5, <3>6, <3>7 DEF SessionOK
    <2>14. CASE RunFault(s)
      <3>1. /\ Rows(s) /\ code' = code /\ status' = status
            /\ faults' > faults
        BY <2>14, <1>a DEF RunFault, Rows, rows, OthersOfRun
      <3>2. RunOK(s)'
        BY <1>w, <2>14, <3>1, AfterThrow DEF RunFault
      <3> QED BY <1>a, <1>w, <3>1, <3>2, RunMoves
    <2>15. CASE PostRefused(s)
      <3>1. /\ Rows(s) /\ code' = code /\ status' = status
            /\ faults' > faults /\ retries' = retries
        BY <2>15, <1>a DEF PostRefused, Rows, rows, OthersOfRun
      <3>2. /\ run[s].turn \notin outbound[s] /\ run[s].turn <= N
            /\ turn'[s] = turn[s] /\ outbound'[s] = outbound[s]
        BY <1>b, <2>15, <3>1
           DEF PostRefused, RunOK, At, Working, Ends, Rows
      <3>3. /\ run'[s].pc = "refused" /\ run'[s].turn = run[s].turn
            /\ run'[s].attempts = run[s].attempts
        BY <1>a, <2>15, RunWrites DEF PostRefused, Working
      <3>4. RunOK(s)'
        BY <2>w, <3>1, <3>2, <3>3
           DEF RunOK, At, InStatus, Working, Lost, Ends, Sent
      <3> QED BY <1>a, <1>w, <3>1, <3>4, RunMoves
    <2>16. ~RunStart(s) /\ ~RunInvalid(s)
      BY <1>w DEF RunStart, RunInvalid, At, Working
    <2> QED BY <2>2, <2>3, <2>4, <2>5, <2>6, <2>7, <2>8, <2>9, <2>10, <2>11,
               <2>12, <2>13, <2>14, <2>15, <2>16 DEF RunStep, RunTrouble
  <1>2. RunStart(s) \/ RunInvalid(s) \/ run[s].pc \in Working
    BY RunPlaces
  <1> QED BY <1>1, <1>w, <1>2

-----------------------------------------------------------------------------
(* The other actors.  Most of their steps leave every session Kept.        *)
Quiet ==
  \/ UNCHANGED vars \/ TickLook
  \/ \E s \in Sessions, i \in 1..N+1 : BufferExpires(s, i)
  \/ \E d \in Deliveries :
       Arrive(d) \/ Seek(d) \/ OptOut(d) \/ Persist(d) \/ SetBuffer(d)
       \/ DeliveryFault(d)
  \/ \E c \in Calls : CallRead(c) \/ CallCheck(c) \/ CallStore(c)

LEMMA QuietKeeps ==
  ASSUME TypeOK, DeliveriesOK, Quiet, NEW t \in Sessions
  PROVE  Kept(t)
  <1>t. /\ faults \in Nat /\ status \in [Sessions -> Statuses]
        /\ code \in [Sessions -> Codes]
        /\ inbound \in [Sessions -> [1..N+1 -> {"none", "reply", "timeout"}]]
    BY DEF TypeOK
  <1>0. CASE UNCHANGED vars
    BY <1>t, <1>0 DEF Kept, Rows, vars, rows
  <1>1. CASE TickLook
    BY <1>t, <1>1 DEF TickLook, Kept, Rows, rows
  <1>2. ASSUME NEW s \in Sessions, NEW i \in 1..N+1, BufferExpires(s, i)
        PROVE  Kept(t)
    BY <1>t, <1>2 DEF BufferExpires, Kept, Rows, rows
  <1>3. ASSUME NEW d \in Deliveries, Arrive(d) \/ Seek(d) \/ SetBuffer(d)
                                     \/ DeliveryFault(d)
        PROVE  Kept(t)
    <2>1. CASE DeliveryFault(d)
      BY <1>t, <2>1 DEF DeliveryFault, OthersOfDelivery, Kept, Rows
    <2>2. CASE ~DeliveryFault(d)
      <3>1. UNCHANGED <<OthersOfDelivery, status, code, inbound, run, faults>>
        BY <1>3, <2>2 DEF Arrive, Seek, SetBuffer
      <3>2. /\ turn' = turn /\ outbound' = outbound /\ sent' = sent
            /\ analysed' = analysed /\ retries' = retries
            /\ faults' = faults /\ inbound' = inbound
        BY <3>1 DEF OthersOfDelivery
      <3> QED BY <1>t, <3>1, <3>2 DEF Kept, Rows
    <2> QED BY <2>1, <2>2
  <1>4. ASSUME NEW d \in Deliveries, OptOut(d)
        PROVE  Kept(t)
    <2>1. /\ status'[t] = "absent" => status[t] = "absent"
          /\ code'[t] = "RESPONSE_TIMEOUT" => code[t] = "RESPONSE_TIMEOUT"
      BY <1>t, <1>4 DEF OptOut
    <2> QED BY <1>t, <1>4, <2>1 DEF OptOut, OthersOfDelivery, Kept, Rows
  <1>5. ASSUME NEW d \in Deliveries, Persist(d)
        PROVE  Kept(t)
    <2>1. \A i \in 1..N+1 :
            inbound[t][i] # "none" => inbound'[t][i] = inbound[t][i]
      <3>1. CASE inbound' = inbound
        BY <3>1
      <3>2. CASE inbound' # inbound
        <4>1. /\ inbound[delivery[d].session][delivery[d].turn] = "none"
              /\ inbound' = [inbound EXCEPT
                   ![delivery[d].session][delivery[d].turn] = "reply"]
          BY <1>5, <3>2 DEF Persist
        <4> QED BY <1>t, <4>1
      <3> QED BY <3>1, <3>2
    <2> QED BY <1>t, <1>5, <2>1 DEF Persist, OthersOfDelivery, Kept, Rows
  <1>6. ASSUME NEW c \in Calls, CallRead(c) \/ CallCheck(c)
        PROVE  Kept(t)
    BY <1>t, <1>6 DEF CallRead, CallCheck, OthersOfCall, Kept, Rows
  <1>7. ASSUME NEW c \in Calls, CallStore(c)
        PROVE  Kept(t)
    <2>1. status'[t] = "absent" => status[t] = "absent"
      <3>1. (CASE request[c].op = "pause"  -> "paused"
               [] request[c].op = "resume" -> "queued"
               [] OTHER                    -> "aborted") # "absent"
        OBVIOUS
      <3> QED BY <1>t, <1>7, <3>1 DEF CallStore
    <2>2. code'[t] = "RESPONSE_TIMEOUT" => code[t] = "RESPONSE_TIMEOUT"
      BY <1>t, <1>7 DEF CallStore
    <2> QED BY <1>t, <1>7, <2>1, <2>2 DEF CallStore, OthersOfCall, Kept, Rows
  <1> QED BY <1>0, <1>1, <1>2, <1>3, <1>4, <1>5, <1>6, <1>7 DEF Quiet

(* A session that is created, counted or handed its job.                   *)
LEMMA Creation ==
  ASSUME TypeOK, TypeOK', SessionsOK, NEW s \in Sessions,
         \/ \E pc \in {"adding", "none", "counting"} : NewSession(s, pc)
         \/ CountRetry(s) \/ AddJob(s) \/ CreationFault(s)
  PROVE  SessionsOK'
  <1>t. /\ faults \in Nat /\ run \in [Sessions -> RunStates]
        /\ status \in [Sessions -> Statuses] /\ RunType
        /\ retries \in [Sessions -> 0..1]
    BY DEF TypeOK, RunType
  <1>s. RunOK(s) /\ SessionOK(s)
    BY DEF SessionsOK, SessionOK
  <1>1. \A t \in Sessions : Rows(t)
    BY <1>t DEF NewSession, CountRetry, AddJob, CreationFault, Rows, rows,
                OthersOfRun
  <1>2. code' = code
    BY DEF NewSession, CountRetry, AddJob, CreationFault, rows, OthersOfRun
  <1>3. ASSUME NEW t \in Sessions \ {s}
        PROVE  Kept(t)
    <2>1. run'[t] = run[t]
      BY <1>t, RunWrites
         DEF NewSession, CountRetry, AddJob, CreationFault, Others, Stop
    <2>2. retries'[t] = retries[t] /\ status'[t] = status[t]
      BY <1>t DEF NewSession, CountRetry, AddJob, CreationFault, rows,
                  OthersOfRun
    <2> QED BY <1>1, <1>2, <2>1, <2>2 DEF Kept
  <1>4. run[s].pc # "record" /\ run[s].pc # "done" /\ RunOK(s)'
    <2>1. ASSUME NEW pc \in {"adding", "none", "counting"}, NewSession(s, pc)
          PROVE  run[s].pc = "none" /\ RunOK(s)'
      <3>1. run[s] = NoRun /\ retries[s] = 0 /\ run[s].pc = "none"
        BY <1>s, <2>1 DEF NewSession, IsNext, RunOK, NoRun
      <3>2. run'[s] = [run[s] EXCEPT !.pc = pc]
        BY <1>t, <2>1 DEF NewSession
      <3>3. run'[s].pc = pc /\ run'[s].attempts = 0
        BY <3>1, <3>2 DEF NoRun
      <3>4. status'[s] # "absent" /\ retries'[s] = 0
        BY <1>t, <2>1, <3>1 DEF NewSession
      <3> QED BY <3>1, <3>3, <3>4
              DEF RunOK, At, InStatus, Working, Lost, Ends, Sent
    <2>2. ASSUME CountRetry(s) \/ AddJob(s)
          PROVE  run[s].pc \in Lost /\ RunOK(s)'
      <3>1. run[s].pc \in Lost /\ run[s].attempts = 0 /\ run[s].pc # "none"
        BY <1>s, <2>2 DEF CountRetry, AddJob, At, RunOK, Lost
      <3>2. status'[s] # "absent"
        BY <1>s, <2>2, <3>1 DEF CountRetry, AddJob, rows, RunOK, NoRun
      <3>3. run'[s].pc \in {"adding", "queued"} /\ run'[s].attempts = 0
        BY <1>t, <2>2, <3>1 DEF CountRetry, AddJob, RunStates
      <3> QED BY <3>1, <3>2, <3>3, Bounds, ProbeConstants
              DEF RunOK, At, InStatus, Working, Lost, Ends, Sent
    <2>3. ASSUME CreationFault(s)
          PROVE  run[s].pc \in Lost /\ RunOK(s)'
      <3>1. run[s].pc \in Lost /\ run[s].pc # "none"
        BY <2>3 DEF CreationFault, Lost
      <3>2. run'[s] = Stopped("none") /\ status' = status
        BY <1>t, <2>3, RunWrites DEF CreationFault, Idle, rows
      <3>3. \E pc \in {"done", "dead", "none"} : run'[s] = Stopped(pc)
        BY <3>2
      <3> QED BY <1>s, <3>1, <3>2, <3>3, RunRests
    <2> QED BY <2>1, <2>2, <2>3 DEF Lost
  <1>5. code[s] # "RESPONSE_TIMEOUT"
    BY <1>s, <1>4 DEF SessionOK, CodeOK, At
  <1>6. SessionOK(s)'
    BY <1>1, <1>2, <1>4, <1>5, <1>s, SessionMoves DEF At
  <1>7. ASSUME NEW t \in Sessions \ {s}
        PROVE  SessionOK(t)'
    BY <1>3, SessionFrame DEF SessionsOK
  <1> QED BY <1>6, <1>7 DEF SessionsOK

(* A publication that a runner waits for carries an answer on record.      *)
LEMMA PublishSession ==
  ASSUME TypeOK, TypeOK', SessionsOK, DeliveriesOK,
         NEW d \in Deliveries, Publish(d),
         NEW s \in Sessions, s = delivery[d].session
  PROVE  SessionsOK'
  <1>t. RunType /\ faults \in Nat
    BY DEF TypeOK, RunType
  <1>d. DeliveryOK(d)
    BY DEF DeliveriesOK
  <1>1. \A t \in Sessions : Rows(t)
    BY <1>t DEF Publish, OthersOfDelivery, Rows
  <1>2. status' = status /\ code' = code /\ retries' = retries
    BY DEF Publish, OthersOfDelivery
  <1>3. ASSUME NEW t \in Sessions, run'[t] = run[t]
        PROVE  SessionOK(t)'
    <2>1. Kept(t)
      BY <1>1, <1>2, <1>3 DEF Kept
    <2> QED BY <2>1, SessionFrame DEF SessionsOK
  <1>4. CASE run' = run
    BY <1>3, <1>4 DEF SessionsOK
  <1>5. CASE run' # run
    <2>1. /\ At(s, "waiting") /\ run[s].turn = delivery[d].turn
          /\ \/ Stop(s, "done")
             \/ Enter(s, "advance") /\ InDelivery(d, "publish")
      BY <1>5 DEF Publish
    <2>2. Others(s)
      BY <1>t, <1>d, <2>1, RunWrites DEF Idle, Sites
    <2>3. run[s].pc \in Working /\ ~At(s, "record") /\ SessionOK(s)
      BY <1>d, <2>1 DEF At, Working, SessionsOK
    <2>4. /\ run[s].pc # "none" /\ RunOK(s) /\ status[s] # "absent"
          /\ run[s].turn = turn[s] + 1 /\ run[s].attempts >= 1
      BY <1>d, <2>3, AtWork, Bounds DEF SessionOK
    <2>5. RunOK(s)'
      <3>1. CASE Stop(s, "done")
        <4>1. run'[s] = Stopped("done")
          BY <1>t, <1>d, <3>1, RunWrites DEF Idle
        <4>2. \E pc \in {"done", "dead", "none"} : run'[s] = Stopped(pc)
          BY <4>1
        <4> QED BY <1>2, <1>d, <2>4, <4>2, RunRests
      <3>2. CASE Enter(s, "advance") /\ InDelivery(d, "publish")
        <4>1. /\ run'[s].pc = "check" /\ run'[s].turn = run[s].turn
              /\ run'[s].site = "advance"
              /\ run'[s].attempts = run[s].attempts
          BY <1>t, <1>d, <3>2, RunWrites DEF Sites
        <4>2. inbound[s][run[s].turn] = "reply"
          BY <1>d, <2>1, <3>2 DEF DeliveryOK
        <4>3. run[s].turn <= N /\ run[s].turn \in outbound[s]
          BY <2>1, <2>4 DEF RunOK, At, Working, Ends, Sent
        <4>4. /\ turn'[s] = turn[s] /\ outbound'[s] = outbound[s]
              /\ inbound'[s][run[s].turn] = "reply"
          BY <4>2 DEF Publish, OthersOfDelivery
        <4> QED BY <1>2, <2>4, <4>1, <4>3, <4>4
                DEF RunOK, At, InStatus, Working, Lost, Ends, Sent
      <3> QED BY <2>1, <3>1, <3>2
    <2>6. SessionOK(s)'
      BY <1>1, <1>2, <1>d, <2>3, <2>5, RunMoves
    <2>7. ASSUME NEW t \in Sessions \ {s}
          PROVE  SessionOK(t)'
      BY <1>3, <2>2 DEF Others
    <2> QED BY <2>6, <2>7 DEF SessionsOK
  <1> QED BY <1>4, <1>5

LEMMA CrashSessions ==
  ASSUME TypeOK, TypeOK', SessionsOK, Crash
  PROVE  SessionsOK'
  <1> SUFFICES ASSUME NEW s \in Sessions PROVE SessionOK(s)'
    BY DEF SessionsOK
  <1>1. /\ Rows(s) /\ status' = status /\ code' = code /\ retries' = retries
        /\ faults' > faults
    BY DEF Crash, Rows, rows, TypeOK
  <1>2. SessionOK(s) /\ RunOK(s)
    BY DEF SessionsOK, SessionOK
  <1>3. CASE run'[s] = run[s]
    <2>1. Kept(s)
      BY <1>1, <1>3 DEF Kept
    <2> QED BY <1>2, <2>1, SessionFrame
  <1>4. CASE run'[s] # run[s]
    <2>1. /\ run[s].pc \in Lost \cup Working
          /\ \/ run'[s] = NoRun
             \/ run'[s] = Stopped("dead")
             \/ \E n \in Nat : run'[s] = Again(n) /\ n < MaxAttempts
      BY <1>4, AfterCrash, Bounds
    <2>2. run[s].pc # "none" /\ run[s].pc # "done"
      BY <2>1 DEF Lost, Working
    <2>3. \/ \E pc \in {"done", "dead", "none"} : run'[s] = Stopped(pc)
          \/ run'[s] = NoRun
          \/ \E n \in Nat : run'[s] = Again(n) /\ n < MaxAttempts
      BY <2>1
    <2>4. RunOK(s)'
      BY <1>1, <1>2, <2>2, <2>3, RunRests
    <2>5. code[s] # "RESPONSE_TIMEOUT"
      BY <1>2, <2>2 DEF SessionOK, CodeOK, At
    <2> QED BY <1>1, <1>2, <2>4, <2>5, SessionMoves
  <1> QED BY <1>3, <1>4

LEMMA SessionsStep ==
  ASSUME IInv, [Next]_vars
  PROVE  SessionsOK'
  <1>t. /\ TypeOK /\ SessionsOK /\ BufferOK /\ DeliveriesOK /\ TypeOK'
    BY TypeStep DEF IInv
  <1>1. CASE Quiet
    <2>1. \A s \in Sessions : Kept(s)
      BY <1>1, <1>t, QuietKeeps
    <2> QED BY <1>t, <2>1, SessionFrame DEF SessionsOK
  <1>2. ASSUME NEW s \in Sessions,
               \/ \E pc \in {"adding", "none", "counting"} : NewSession(s, pc)
               \/ CountRetry(s) \/ AddJob(s) \/ CreationFault(s)
        PROVE  SessionsOK'
    BY <1>2, <1>t, Creation
  <1>3. ASSUME NEW s \in Sessions, RunStep(s) \/ RunTrouble(s)
        PROVE  SessionsOK'
    <2>1. SessionOK(s)'
      BY <1>3, <1>t, RunSession DEF SessionsOK
    <2>2. ASSUME NEW t \in Sessions \ {s}
          PROVE  SessionOK(t)'
      <3>1. Kept(t)
        BY <1>3, <1>t, Elsewhere DEF SessionsOK, SessionOK
      <3> QED BY <1>t, <3>1, SessionFrame DEF SessionsOK
    <2> QED BY <2>1, <2>2 DEF SessionsOK
  <1>4. ASSUME NEW d \in Deliveries, Publish(d)
        PROVE  SessionsOK'
    <2>1. delivery[d].session \in Sessions
      BY <1>4, <1>t DEF DeliveriesOK, DeliveryOK, Publish, InDelivery
    <2> QED BY <1>4, <1>t, <2>1, PublishSession
  <1>5. CASE Crash
    BY <1>5, <1>t, CrashSessions
  <1>6. \/ Quiet \/ Crash
        \/ \E s \in Sessions :
             \/ \E pc \in {"adding", "none", "counting"} : NewSession(s, pc)
             \/ CountRetry(s) \/ AddJob(s) \/ CreationFault(s)
             \/ RunStep(s) \/ RunTrouble(s)
        \/ \E d \in Deliveries : Publish(d)
    BY DEF Next, Quiet, CreateSession, TickCreate, CallClone, DeliveryStep
  <1> QED BY <1>1, <1>2, <1>3, <1>4, <1>5, <1>6

-----------------------------------------------------------------------------
(* The buffer and the webhook calls.                                       *)
Creates(s) ==
  \/ CreateSession(s) \/ CountRetry(s) \/ AddJob(s) \/ TickCreate(s)
  \/ CreationFault(s) \/ \E c \in Calls : CallClone(c, s)

(* Who writes an inbound row, the buffer and the webhook calls.            *)
LEMMA Writers ==
  ASSUME [Next]_vars
  PROVE  /\ \/ inbound' = inbound
            \/ \E s \in Sessions : RecordTimeout(s)
            \/ \E d \in Deliveries : Persist(d)
         /\ \/ buffer' = buffer
            \/ \E s \in Sessions, i \in 1..N+1 : BufferExpires(s, i)
            \/ \E d \in Deliveries : SetBuffer(d)
         /\ \/ delivery' = delivery
            \/ \E d \in Deliveries :
                 Arrive(d) \/ DeliveryStep(d) \/ DeliveryFault(d)
            \/ Crash
  <1>1. CASE UNCHANGED vars
    BY <1>1 DEF vars, rows
  <1>2. ASSUME NEW s \in Sessions, Creates(s)
        PROVE  inbound' = inbound /\ buffer' = buffer /\ delivery' = delivery
    BY <1>2 DEF Creates, CreateSession, CountRetry, AddJob, TickCreate,
                CreationFault, CallClone, NewSession, rows, OthersOfRun
  <1>3. ASSUME NEW s \in Sessions, RunStep(s) \/ RunTrouble(s)
        PROVE  /\ inbound' = inbound \/ RecordTimeout(s)
               /\ buffer' = buffer /\ delivery' = delivery
    BY <1>3 DEF RunStep, RunStart, StatusCheck, StatusStore, Look, Send,
           Record, ReadBuffer, Listen, Timeout, RecordTimeout, MarkFailed,
           Bump, Complete, Analyse, RunFault, RunTrouble, RunInvalid,
           PostFails, PostRefused, GoesOut, rows, OthersOfRun
  <1>4. ASSUME NEW s \in Sessions, NEW i \in 1..N+1, BufferExpires(s, i)
        PROVE  inbound' = inbound /\ delivery' = delivery
    BY <1>4 DEF BufferExpires, rows
  <1>5. CASE TickLook
    BY <1>5 DEF TickLook, rows
  <1>6. ASSUME NEW d \in Deliveries,
               Arrive(d) \/ DeliveryStep(d) \/ DeliveryFault(d)
        PROVE  /\ inbound' = inbound \/ Persist(d)
               /\ buffer' = buffer \/ SetBuffer(d)
    BY <1>6 DEF Arrive, DeliveryStep, Seek, OptOut, Persist, SetBuffer,
                Publish, DeliveryFault, OthersOfDelivery
  <1>7. ASSUME NEW c \in Calls, CallRead(c) \/ CallCheck(c) \/ CallStore(c)
        PROVE  inbound' = inbound /\ buffer' = buffer /\ delivery' = delivery
    BY <1>7 DEF CallRead, CallCheck, CallStore, OthersOfCall
  <1>8. CASE Crash
    BY <1>8 DEF Crash, rows
  <1> QED BY <1>1, <1>2, <1>3, <1>4, <1>5, <1>6, <1>7, <1>8 DEF Next, Creates

(* An answer on record stays.                                              *)
LEMMA RepliesStay ==
  ASSUME TypeOK, [Next]_vars, NEW s \in Sessions, NEW i \in 1..N+1,
         inbound[s][i] = "reply"
  PROVE  inbound'[s][i] = "reply"
  <1>t. inbound \in [Sessions -> [1..N+1 -> {"none", "reply", "timeout"}]]
    BY DEF TypeOK
  <1>1. ASSUME NEW t \in Sessions, RecordTimeout(t)
        PROVE  inbound'[s][i] = "reply"
    <2>1. \/ inbound' = inbound
          \/ /\ inbound[t][run[t].turn] = "none"
             /\ inbound' = [inbound EXCEPT ![t][run[t].turn] = "timeout"]
      BY <1>1 DEF RecordTimeout
    <2>2. CASE inbound' # inbound
      <3>1. inbound'[s] =
              IF s = t THEN [inbound[s] EXCEPT ![run[t].turn] = "timeout"]
              ELSE inbound[s]
        BY <1>t, <2>1, <2>2
      <3>2. s = t => i # run[t].turn
        BY <2>1, <2>2
      <3> QED BY <1>t, <3>1, <3>2
    <2> QED BY <2>2
  <1>2. ASSUME NEW d \in Deliveries, Persist(d)
        PROVE  inbound'[s][i] = "reply"
    <2>1. \/ inbound' = inbound
          \/ inbound' = [inbound EXCEPT
               ![delivery[d].session][delivery[d].turn] = "reply"]
      BY <1>2 DEF Persist
    <2>2. CASE inbound' # inbound
      <3>1. inbound'[s] =
              IF s = delivery[d].session
              THEN [inbound[s] EXCEPT ![delivery[d].turn] = "reply"]
              ELSE inbound[s]
        BY <1>t, <2>1, <2>2
      <3> QED BY <1>t, <3>1
    <2> QED BY <2>2
  <1> QED BY <1>1, <1>2, Writers

LEMMA BufferStep ==
  ASSUME IInv, [Next]_vars
  PROVE  BufferOK'
  <1>t. /\ TypeOK /\ BufferOK /\ DeliveriesOK
        /\ buffer \in [Sessions -> SUBSET (1..N+1)]
    BY DEF IInv, TypeOK
  <1> SUFFICES ASSUME NEW s \in Sessions, NEW i \in buffer'[s]
               PROVE  inbound'[s][i] = "reply"
    BY DEF BufferOK
  <1>1. CASE i \in buffer[s]
    <2>1. i \in 1..N+1 /\ inbound[s][i] = "reply"
      BY <1>1, <1>t DEF BufferOK
    <2> QED BY <1>t, <2>1, RepliesStay
  <1>2. CASE i \notin buffer[s]
    <2>1. ASSUME NEW t \in Sessions, NEW j \in 1..N+1, BufferExpires(t, j)
          PROVE  FALSE
      BY <1>2, <1>t, <2>1 DEF BufferExpires
    <2>2. PICK d \in Deliveries : SetBuffer(d)
      BY <1>2, <2>1, Writers
    <2>3. s = delivery[d].session /\ i = delivery[d].turn
      BY <1>2, <1>t, <2>2 DEF SetBuffer
    <2>4. inbound[s][i] = "reply" /\ i \in 1..N+1
      BY <1>t, <2>2, <2>3 DEF DeliveriesOK, DeliveryOK, SetBuffer, InDelivery
    <2> QED BY <1>t, <2>4, RepliesStay
  <1> QED BY <1>1, <1>2

LEMMA DeliveriesStep ==
  ASSUME IInv, [Next]_vars
  PROVE  DeliveriesOK'
  <1>t. /\ TypeOK /\ DeliveriesOK /\ N \in Nat
        /\ delivery \in [Deliveries -> DeliveryStates]
        /\ turn \in [Sessions -> 0..N]
        /\ inbound \in [Sessions -> [1..N+1 -> {"none", "reply", "timeout"}]]
    BY Bounds DEF IInv, TypeOK
  <1> SUFFICES ASSUME NEW d \in Deliveries PROVE DeliveryOK(d)'
    BY DEF DeliveriesOK
  <1>0. DeliveryOK(d) /\ delivery[d] \in DeliveryStates
    BY <1>t DEF DeliveriesOK
  <1>1. CASE delivery'[d] = delivery[d]
    BY <1>0, <1>1, <1>t, RepliesStay DEF DeliveryOK, InDelivery
  <1>2. CASE delivery'[d].pc = "idle"
    BY <1>2 DEF DeliveryOK, InDelivery
  <1>3. CASE delivery'[d] # delivery[d] /\ delivery'[d].pc # "idle"
    <2>1. NoDelivery.pc = "idle"
      BY DEF NoDelivery
    <2>2. ~Crash
      BY <1>3, <2>1 DEF Crash
    <2>3. PICK e \in Deliveries :
            Arrive(e) \/ DeliveryStep(e) \/ DeliveryFault(e)
      BY <1>3, <2>2, Writers
    <2>4. e = d /\ ~Answer(d)
      BY <1>3, <1>t, <2>1, <2>3
         DEF Arrive, DeliveryStep, Seek, OptOut, Persist, SetBuffer, Publish,
             DeliveryFault, MoveTo, Answer
    <2>5. CASE Arrive(d)
      <3>1. PICK m \in Messages : delivery'[d] =
              [NoDelivery EXCEPT !.pc = "seek", !.message = m]
        BY <1>t, <2>5 DEF Arrive
      <3>2. delivery'[d].pc = "seek" /\ delivery'[d].message \in Messages
        BY <3>1 DEF NoDelivery
      <3> QED BY <3>2 DEF DeliveryOK, InDelivery
    <2>6. CASE Seek(d)
      <3>1. PICK s \in Sessions :
              delivery' = [delivery EXCEPT
                ![d].session = s, ![d].turn = turn[s] + 1,
                ![d].pc = IF delivery[d].message \in OptOuts THEN "optout"
                          ELSE "persist"]
        BY <2>4, <2>6 DEF Seek, UnderWay
      <3>2. delivery'[d] = [delivery[d] EXCEPT
              !.session = s, !.turn = turn[s] + 1,
              !.pc = IF delivery[d].message \in OptOuts THEN "optout"
                     ELSE "persist"]
        BY <1>t, <3>1
      <3>3. /\ delivery'[d].session = s /\ delivery'[d].turn = turn[s] + 1
            /\ delivery'[d].pc \in {"optout", "persist"}
            /\ delivery'[d].message = delivery[d].message
        BY <1>0, <3>2 DEF DeliveryStates
      <3>4. delivery[d].message \in Messages
        BY <1>0, <2>6 DEF Seek, DeliveryOK, InDelivery
      <3>5. turn[s] + 1 \in 1..N+1
        <4>1. turn[s] \in 0..N
          BY <1>t
        <4> QED BY <1>t, <4>1
      <3> QED BY <3>3, <3>4, <3>5 DEF DeliveryOK, InDelivery
    <2>7. CASE OptOut(d) \/ Persist(d) \/ SetBuffer(d)
      <3>1. /\ ~InDelivery(d, "idle") /\ ~InDelivery(d, "seek")
            /\ delivery[d].session \in Sessions /\ delivery[d].turn \in 1..N+1
            /\ delivery[d].message \in Messages
        BY <1>0, <2>7 DEF OptOut, Persist, SetBuffer, InDelivery, DeliveryOK
      <3>2. PICK pc \in {"abort", "buffer", "publish"} : MoveTo(d, pc)
        BY <2>4, <2>7 DEF OptOut, Persist, SetBuffer
      <3>3. delivery'[d] = [delivery[d] EXCEPT !.pc = pc]
        BY <1>t, <3>2 DEF MoveTo
      <3>4. /\ delivery'[d].pc = pc
            /\ delivery'[d].session = delivery[d].session
            /\ delivery'[d].turn = delivery[d].turn
            /\ delivery'[d].message = delivery[d].message
        BY <1>0, <3>3 DEF DeliveryStates
      <3>5. pc # "abort" =>
              inbound'[delivery[d].session][delivery[d].turn] = "reply"
        <4>1. CASE OptOut(d)
          <5>1. delivery'[d].pc = "abort"
            BY <1>0, <1>t, <4>1 DEF OptOut, MoveTo, DeliveryStates
          <5> QED BY <3>4, <5>1
        <4>2. CASE Persist(d)
          <5>1. inbound' = [inbound EXCEPT
                  ![delivery[d].session][delivery[d].turn] = "reply"]
            BY <2>4, <4>2 DEF Persist
          <5> QED BY <1>t, <3>1, <5>1
        <4>3. CASE SetBuffer(d)
          <5>1. inbound[delivery[d].session][delivery[d].turn] = "reply"
            BY <1>0, <4>3 DEF SetBuffer, DeliveryOK
          <5> QED BY <1>t, <3>1, <5>1, RepliesStay
        <4> QED BY <2>7, <4>1, <4>2, <4>3
      <3> QED BY <3>1, <3>4, <3>5 DEF DeliveryOK, InDelivery
    <2> QED BY <2>3, <2>4, <2>5, <2>6, <2>7
            DEF DeliveryStep, Publish, DeliveryFault
  <1> QED BY <1>1, <1>2, <1>3

-----------------------------------------------------------------------------
LEMMA InitInvariant == Init => IInv
  <1> SUFFICES ASSUME Init PROVE IInv
    OBVIOUS
  <1> USE DEF Init
  <1>1. TypeOK
    <2>1. /\ status \in [Sessions -> Statuses] /\ code \in [Sessions -> Codes]
          /\ retries \in [Sessions -> 0..1] /\ turn \in [Sessions -> 0..N]
      BY Bounds DEF Statuses, Codes
    <2>2. /\ outbound \in [Sessions -> SUBSET Turns]
          /\ inbound \in [Sessions -> [1..N+1 -> {"none", "reply", "timeout"}]]
          /\ buffer \in [Sessions -> SUBSET (1..N+1)]
          /\ sent \in [Sessions -> [Turns -> Nat]]
      OBVIOUS
    <2>3. /\ run \in [Sessions -> RunStates]
          /\ delivery \in [Deliveries -> DeliveryStates]
      BY Bounds
    <2> QED BY <2>1, <2>2, <2>3 DEF TypeOK
  <1>2. SessionsOK
    <2> SUFFICES ASSUME NEW s \in Sessions PROVE SessionOK(s)
      BY DEF SessionsOK
    <2>1. /\ run[s] = NoRun /\ run[s].pc = "none" /\ run[s].attempts = 0
          /\ turn[s] = 0 /\ analysed = {} /\ code[s] = "none"
      BY DEF NoRun
    <2>2. RunOK(s)
      BY <2>1 DEF RunOK, At, InStatus, Working, Lost, Ends, Sent
    <2>3. Whole(s) /\ CodeOK(s)
      BY <2>1 DEF Whole, CodeOK
    <2>4. \A i \in Turns : SentOK(s, i)
      <3> TAKE i \in Turns
      <3>1. sent[s][i] = 0 /\ faults = 0
        OBVIOUS
      <3> QED BY <3>1 DEF SentOK
    <2> QED BY <2>1, <2>2, <2>3, <2>4 DEF SessionOK
  <1>3. BufferOK
    BY DEF BufferOK
  <1>4. DeliveriesOK
    BY DEF DeliveriesOK, DeliveryOK, InDelivery, NoDelivery
  <1> QED BY <1>1, <1>2, <1>3, <1>4 DEF IInv

LEMMA StepInvariant == IInv /\ [Next]_vars => IInv'
  BY TypeStep, SessionsStep, BufferStep, DeliveriesStep DEF IInv

(* In every reachable state the rows, the buffer, the webhook calls and    *)
(* the places of the runs agree, in the way IInv says.                     *)
THEOREM Invariance == Spec => []IInv
  BY InitInvariant, StepInvariant, PTL DEF Spec

(* The repository, the queue and the webhook keep to their types: turns    *)
(* stay within the script, attempts within the job's, whatever fails.      *)
THEOREM Typed == Spec => []TypeOK
  <1>1. IInv => TypeOK
    BY DEF IInv
  <1> QED BY <1>1, Invariance, PTL

(* No message of the script goes out more often than once and once for     *)
(* each failure or crash, a failed POST that may have gone out among them, *)
(* however many POSTs and attempts there are (Look, Send, PostFails and    *)
(* Record of the runner).                                                  *)
THEOREM OneSending == Spec => []SentOnce
  <1>1. IInv => SentOnce
    BY DEF IInv, SessionsOK, SessionOK, SentOK, SentOnce
  <1> QED BY <1>1, Invariance, PTL

(* No message goes out before every earlier turn has its answer or its     *)
(* timeout on record (the runner's loop, waitForResponse and               *)
(* updateCurrentTurn).                                                     *)
THEOREM InOrder == Spec => []TurnsInOrder
  <1>1. ASSUME IInv
        PROVE  TurnsInOrder
    <2> SUFFICES ASSUME NEW s \in Sessions, NEW i \in Turns, sent[s][i] > 0,
                        NEW j \in 1..i-1
                 PROVE  inbound[s][j] # "none"
      BY DEF TurnsInOrder
    <2>1. SessionOK(s) /\ turn[s] \in 0..N /\ i \in Nat
      BY <1>1, Bounds DEF IInv, SessionsOK, TypeOK, Turns
    <2>2. i <= turn[s] + 1
      BY <2>1 DEF SessionOK, SentOK
    <2>3. j \in 1..turn[s]
      BY <2>1, <2>2, Bounds
    <2> QED BY <2>1, <2>3 DEF SessionOK, Whole
  <1> QED BY <1>1, Invariance, PTL

(* A session that failed for want of a response has a timeout on record    *)
(* for the turn it stopped at, and no answer (markFailed after the         *)
(* timeout's row).                                                         *)
THEOREM TimeoutsTrue == Spec => []TimeoutIsTrue
  <1>1. IInv => TimeoutIsTrue
    BY DEF IInv, SessionsOK, SessionOK, CodeOK, TimeoutIsTrue
  <1> QED BY <1>1, Invariance, PTL

(* A conversation handed to the analysis has every message recorded and    *)
(* every turn answered or timed out, through retries, lost publications    *)
(* and crashes.                                                            *)
THEOREM WholeAnalysed == Spec => []AnalysedIsWhole
  <1>1. ASSUME IInv
        PROVE  AnalysedIsWhole
    <2> SUFFICES ASSUME NEW s \in analysed, NEW i \in Turns
                 PROVE  i \in outbound[s] /\ inbound[s][i] # "none"
      BY DEF AnalysedIsWhole
    <2>1. s \in Sessions
      BY <1>1 DEF IInv, TypeOK
    <2>2. SessionOK(s)
      BY <1>1, <2>1 DEF IInv, SessionsOK
    <2>3. i \in 1..turn[s]
      BY <2>2 DEF SessionOK, Turns
    <2> QED BY <2>2, <2>3 DEF SessionOK, Whole
  <1> QED BY <1>1, Invariance, PTL

-----------------------------------------------------------------------------
(* Steps left.  TLC checks that a run comes to its end if its steps are    *)
(* taken (RunsFinish); what can be proved is that there are only so many.  *)
(* A turn has a step at each place, no turn comes twice in an attempt, and *)
(* every failure uses up an attempt.                                       *)

StepsTo(p, site) ==
  CASE p \in {"bump", "invalid", "unsent", "refused", "unanswered",
               "analyse"}            -> 1
    [] p = "complete"                    -> 2
    [] p = "store" /\ site = "advance"   -> 2
    [] p = "check" /\ site = "advance"   -> 3
    [] p = "timedout"                    -> 4
    [] p = "waiting"                     -> 5
    [] p = "hook"                        -> 6
    [] p = "recheck"                     -> 7
    [] p = "subscribe"                   -> 8
    [] p = "early"                       -> 9
    [] p = "store" /\ site = "await"     -> 10
    [] p = "check" /\ site = "await"     -> 11
    [] p = "record"                      -> 12
    [] p = "send"                        -> 13
    [] p = "look"                        -> 14
    [] p = "store" /\ site = "start"     -> 15
    [] p = "check" /\ site = "start"     -> 16
    [] OTHER                             -> 0

StepsOfTurn    == 17
StepsOfAttempt == StepsOfTurn * (N + 1)
AttemptLeft(s) ==
  IF At(s, "queued") THEN 0
  ELSE StepsOfTurn * (N + 1 - run[s].turn) + StepsTo(run[s].pc, run[s].site)
StepsLeft(s)   == StepsOfAttempt * (MaxAttempts - run[s].attempts)
                    + AttemptLeft(s)
MaxSteps       == StepsOfAttempt * MaxAttempts
Alive(s)       == run[s].pc \in Working \cup {"queued"}

(* A run job never has more steps before it than its turns and attempts    *)
(* allow, a message's repeated POSTs counted as one.                       *)
StepsOK == \A s \in Sessions : Alive(s) => StepsLeft(s) \in 0..MaxSteps

(* A step of the runner, be it an answer, a timeout or a failure, ends the *)
(* job or leaves it fewer steps, or is one of the fewer than MaxPosts      *)
(* POSTs after which the next one follows; the webhook and the operator    *)
(* give it none, and a crash may give a stalled job the attempt back.      *)
Fewer(s) == ~Alive(s)' \/ StepsLeft(s)' < StepsLeft(s)
Repost(s) == StepsLeft(s)' = StepsLeft(s)
               /\ run'[s].posts = run[s].posts + 1 /\ run'[s].posts < MaxPosts
CountsDown(s) ==
  /\ RunStep(s) \/ RunTrouble(s) => Fewer(s) \/ Repost(s)
  /\ Alive(s) =>
       \/ ~Alive(s)'
       \/ StepsLeft(s)' <= StepsLeft(s)
       \/ Crash /\ StepsLeft(s)' < StepsLeft(s) + StepsOfAttempt
StepsCountDown == [][\A s \in Sessions : CountsDown(s)]_vars

(* The steps left at each place.                                           *)
LEMMA PlaceSteps ==
  \A site \in Sites :
    /\ \A p \in {"bump", "invalid", "unsent", "refused", "unanswered",
                 "analyse"} :
         StepsTo(p, site) = 1
    /\ StepsTo("complete", site) = 2 /\ StepsTo("timedout", site) = 4
    /\ StepsTo("waiting", site) = 5 /\ StepsTo("hook", site) = 6
    /\ StepsTo("recheck", site) = 7 /\ StepsTo("subscribe", site) = 8
    /\ StepsTo("early", site) = 9 /\ StepsTo("record", site) = 12
    /\ StepsTo("send", site) = 13 /\ StepsTo("look", site) = 14
    /\ StepsTo("store", "advance") = 2 /\ StepsTo("check", "advance") = 3
    /\ StepsTo("store", "await") = 10 /\ StepsTo("check", "await") = 11
    /\ StepsTo("store", "start") = 15 /\ StepsTo("check", "start") = 16
  BY DEF StepsTo

LEMMA PlacesBounded ==
  \A p \in Working, site \in Sites : StepsTo(p, site) \in 1..16
  <1> SUFFICES ASSUME NEW p \in Working, NEW site \in Sites
               PROVE  StepsTo(p, site) \in 1..16
    OBVIOUS
  <1>1. CASE p = "check" \/ p = "store"
    BY <1>1, PlaceSteps DEF Sites
  <1>2. CASE p # "check" /\ p # "store"
    BY <1>2, PlaceSteps DEF Working
  <1> QED BY <1>1, <1>2

(* Products of the attempts left.                                          *)
LEMMA Products ==
  ASSUME NEW c \in Nat, NEW a \in Nat, NEW b \in Nat
  PROVE  /\ c * a \in Nat
         /\ a <= b => c * a <= c * b
         /\ b = a + 1 => c * b = c * a + c
  OBVIOUS

(* What is left of an attempt, and so of a job.                            *)
LEMMA AttemptBounded ==
  ASSUME TypeOK, NEW s \in Sessions, Alive(s)
  PROVE  /\ StepsOfAttempt \in Nat
         /\ AttemptLeft(s) \in 0..(StepsOfAttempt - 1)
         /\ run[s].pc \in Working =>
              AttemptLeft(s) = 17 * (N + 1 - run[s].turn)
                                 + StepsTo(run[s].pc, run[s].site)
         /\ run[s].pc \in Working => AttemptLeft(s) >= 1
         /\ At(s, "queued") => AttemptLeft(s) = 0
         /\ MaxAttempts - run[s].attempts \in Nat
         /\ StepsOfAttempt * (MaxAttempts - run[s].attempts) \in Nat
  <1>1. /\ run[s].turn \in 1..N+1 /\ run[s].site \in Sites /\ N \in Nat
        /\ run[s].attempts \in 0..MaxAttempts /\ MaxAttempts \in Nat
    BY Places, Bounds
  <1>2. run[s].pc \in Working => StepsTo(run[s].pc, run[s].site) \in 1..16
    BY <1>1, PlacesBounded
  <1>3. StepsOfAttempt = 17 * (N + 1) /\ StepsOfAttempt \in Nat
    BY <1>1 DEF StepsOfAttempt, StepsOfTurn
  <1>4. ~("queued" \in Working)
    BY DEF Working
  <1>5. MaxAttempts - run[s].attempts \in Nat
    BY <1>1
  <1>6. StepsOfAttempt * (MaxAttempts - run[s].attempts) \in Nat
    BY <1>3, <1>5, Products
  <1>7. CASE At(s, "queued")
    BY <1>1, <1>3, <1>4, <1>5, <1>6, <1>7 DEF AttemptLeft, At
  <1>8. CASE run[s].pc \in Working
    <2>1. AttemptLeft(s) = 17 * (N + 1 - run[s].turn)
                             + StepsTo(run[s].pc, run[s].site)
      BY <1>4, <1>8 DEF AttemptLeft, At, StepsOfTurn
    <2>2. AttemptLeft(s) \in 1..(StepsOfAttempt - 1)
      BY <1>1, <1>2, <1>3, <1>8, <2>1
    <2> QED BY <1>3, <1>4, <1>5, <1>6, <1>8, <2>1, <2>2 DEF At
  <1> QED BY <1>7, <1>8 DEF Alive, At

(* The same attempt, with less left of it, and the next attempt.           *)
LEMMA FewerLeft ==
  ASSUME TypeOK, TypeOK', NEW s \in Sessions, Alive(s), Alive(s)'
  PROVE  /\ /\ run'[s].attempts = run[s].attempts
            /\ AttemptLeft(s)' < AttemptLeft(s)
            => StepsLeft(s)' < StepsLeft(s)
         /\ run'[s].attempts = run[s].attempts + 1
            => StepsLeft(s)' < StepsLeft(s)
         /\ /\ run'[s].attempts = run[s].attempts - 1
            /\ At(s, "queued")' /\ run[s].pc \in Working
            => StepsLeft(s)' < StepsLeft(s) + StepsOfAttempt
  <1>1. /\ StepsOfAttempt \in Nat /\ MaxAttempts - run[s].attempts \in Nat
        /\ AttemptLeft(s) \in 0..(StepsOfAttempt - 1)
        /\ StepsOfAttempt * (MaxAttempts - run[s].attempts) \in Nat
        /\ run[s].pc \in Working => AttemptLeft(s) >= 1
    BY AttemptBounded
  <1>2. /\ MaxAttempts - run'[s].attempts \in Nat
        /\ AttemptLeft(s)' \in 0..(StepsOfAttempt - 1)
        /\ StepsOfAttempt * (MaxAttempts - run'[s].attempts) \in Nat
        /\ At(s, "queued")' => AttemptLeft(s)' = 0
    <2>1. /\ run'[s].turn \in 1..N+1 /\ run'[s].site \in Sites
          /\ run'[s].attempts \in 0..MaxAttempts
      BY DEF TypeOK, RunStates
    <2>2. run'[s].pc \in Working => StepsTo(run'[s].pc, run'[s].site) \in 1..16
      BY <2>1, PlacesBounded
    <2>3. MaxAttempts - run'[s].attempts \in Nat
      BY <2>1, Bounds
    <2>4. AttemptLeft(s)' \in 0..(17 * (N + 1) - 1)
      BY <2>1, <2>2, Bounds DEF AttemptLeft, Alive, At, StepsOfTurn
    <2>5. StepsOfAttempt = 17 * (N + 1)
      BY DEF StepsOfAttempt, StepsOfTurn
    <2>6. At(s, "queued")' => AttemptLeft(s)' = 0
      BY DEF AttemptLeft, At
    <2> QED BY <1>1, <2>3, <2>4, <2>5, <2>6, Products
  <1>3. /\ StepsLeft(s) = StepsOfAttempt * (MaxAttempts - run[s].attempts)
                            + AttemptLeft(s)
        /\ StepsLeft(s)' = StepsOfAttempt * (MaxAttempts - run'[s].attempts)
                            + AttemptLeft(s)'
        /\ run[s].attempts \in Nat /\ MaxAttempts \in Nat
    BY Places, Bounds DEF StepsLeft
  <1>4. CASE run'[s].attempts = run[s].attempts
    BY <1>1, <1>2, <1>3, <1>4
  <1>5. CASE run'[s].attempts = run[s].attempts + 1
    <2>1. MaxAttempts - run[s].attempts = (MaxAttempts - run'[s].attempts) + 1
      BY <1>3, <1>5
    <2>2. StepsOfAttempt * (MaxAttempts - run[s].attempts)
            = StepsOfAttempt * (MaxAttempts - run'[s].attempts) + StepsOfAttempt
      BY <1>1, <1>2, <2>1, Products
    <2> QED BY <1>1, <1>2, <1>3, <1>5, <2>2
  <1>6. CASE run'[s].attempts = run[s].attempts - 1
    <2>1. MaxAttempts - run'[s].attempts = (MaxAttempts - run[s].attempts) + 1
      BY <1>3, <1>6
    <2>2. StepsOfAttempt * (MaxAttempts - run'[s].attempts)
            = StepsOfAttempt * (MaxAttempts - run[s].attempts) + StepsOfAttempt
      BY <1>1, <1>2, <2>1, Products
    <2> QED BY <1>1, <1>2, <1>3, <1>6, <2>2
  <1> QED BY <1>4, <1>5, <1>6

(* One place further on in the same turn.                                  *)
LEMMA SameTurn ==
  ASSUME TypeOK, TypeOK', NEW s \in Sessions,
         run[s].pc \in Working, run'[s].pc \in Working,
         run'[s].turn = run[s].turn, run'[s].attempts = run[s].attempts,
         StepsTo(run'[s].pc, run'[s].site) < StepsTo(run[s].pc, run[s].site)
  PROVE  StepsLeft(s)' < StepsLeft(s)
  <1>1. Alive(s) /\ Alive(s)'
    BY DEF Alive
  <1>2. /\ run[s].turn \in 1..N+1 /\ N \in Nat
        /\ run[s].site \in Sites /\ run'[s].site \in Sites
    BY Places, Bounds DEF TypeOK, RunStates
  <1>3. AttemptLeft(s) = 17 * (N + 1 - run[s].turn)
                           + StepsTo(run[s].pc, run[s].site)
    BY <1>1, AttemptBounded
  <1>4. AttemptLeft(s)' = 17 * (N + 1 - run[s].turn)
                           + StepsTo(run'[s].pc, run'[s].site)
    BY DEF AttemptLeft, At, StepsOfTurn, Working
  <1>5. /\ StepsTo(run[s].pc, run[s].site) \in Nat
        /\ StepsTo(run'[s].pc, run'[s].site) \in Nat
    BY <1>2, PlacesBounded
  <1>6. AttemptLeft(s)' < AttemptLeft(s)
    BY <1>2, <1>3, <1>4, <1>5
  <1> QED BY <1>1, <1>6, FewerLeft

(* updateStatus, one of its sites.                                         *)
LEMMA StatusCounts ==
  ASSUME TypeOK, TypeOK', NEW s \in Sessions, RunOK(s),
         StatusCheck(s) \/ StatusStore(s)
  PROVE  StepsLeft(s)' < StepsLeft(s)
  <1>1. /\ RunType /\ run[s].site \in Sites /\ run[s].turn \in Nat
        /\ run[s].pc \in {"check", "store"} /\ run[s].pc \in Working
    BY Places, TypeParts, Bounds
       DEF StatusCheck, StatusStore, At, Working
  <1>2. CASE Goto(s, AfterStatus(s))
    <2>1. AfterStatus(s) \in Working
      BY Places DEF Working
    <2>2. /\ run'[s].pc = AfterStatus(s) /\ run'[s].turn = run[s].turn
          /\ run'[s].site = "start" /\ run'[s].attempts = run[s].attempts
      BY <1>1, <1>2, <2>1, RunWrites
    <2>3. StepsTo(AfterStatus(s), "start") < StepsTo(run[s].pc, run[s].site)
      <3>1. CASE run[s].site = "start"
        <4>1. AfterStatus(s) \in {"complete", "look"}
          BY <1>1, <3>1, Places
        <4> QED BY <1>1, <3>1, <4>1, PlaceSteps
      <3>2. CASE run[s].site = "await"
        <4>1. AfterStatus(s) = "early"
          BY <3>2, Places
        <4> QED BY <1>1, <3>2, <4>1, PlaceSteps DEF Sites
      <3>3. CASE run[s].site = "advance"
        <4>1. AfterStatus(s) = "bump"
          BY <3>3, Places
        <4> QED BY <1>1, <3>3, <4>1, PlaceSteps DEF Sites
      <3> QED BY <1>1, <3>1, <3>2, <3>3 DEF Sites
    <2> QED BY <1>1, <2>1, <2>2, <2>3, SameTurn
  <1>3. CASE At(s, "check") /\ run' = [run EXCEPT ![s].pc = "store"]
    <2>1. /\ run'[s].pc = "store" /\ run'[s].turn = run[s].turn
          /\ run'[s].site = run[s].site
          /\ run'[s].attempts = run[s].attempts
      BY <1>1, <1>3 DEF RunType, RunStates
    <2>2. run'[s].pc \in Working
      BY <2>1 DEF Working
    <2>3. StepsTo("store", run[s].site) < StepsTo("check", run[s].site)
      BY <1>1, PlaceSteps DEF Sites
    <2> QED BY <1>1, <1>3, <2>1, <2>2, <2>3, SameTurn DEF At
  <1> QED BY <1>2, <1>3 DEF StatusCheck, StatusStore

(* A step of the run's own.                                                *)
LEMMA OwnStepCounts ==
  ASSUME TypeOK, TypeOK', NEW s \in Sessions, RunOK(s),
         RunStep(s) \/ RunTrouble(s)
  PROVE  Alive(s) /\ (Fewer(s) \/ Repost(s))
  <1> USE DEF Fewer
  <1>1. /\ RunType /\ run[s].site \in Sites /\ run[s].turn \in 1..N+1
        /\ N \in Nat /\ run[s].attempts \in 0..MaxAttempts
    BY Places, TypeParts, Bounds
  <1>2. Alive(s)
    BY RunPlaces DEF RunStart, RunInvalid, Alive, At
  <1>3. ASSUME NEW pc \in Idle \ {"queued"}, Stop(s, pc)
        PROVE  ~Alive(s)'
    <2>1. run'[s].pc = pc
      BY <1>1, <1>3 DEF Stop, RunType, Stopped, NoRun
    <2> QED BY <2>1 DEF Alive, Idle, Working
  <1>4. ASSUME Throws(s), run[s].pc \in Working
        PROVE  ~Alive(s)' \/ StepsLeft(s)' < StepsLeft(s)
    <2>1. CASE run'[s] = Stopped("dead")
      BY <2>1 DEF Stopped, NoRun, Alive, Working
    <2>2. CASE run'[s] = Again(run[s].attempts)
      <3>1. At(s, "queued")' /\ run'[s].attempts = run[s].attempts
        BY <2>2 DEF Again, NoRun, At
      <3>2. Alive(s)' /\ AttemptLeft(s)' = 0
        BY <3>1 DEF Alive, At, AttemptLeft
      <3>3. AttemptLeft(s) \in Nat /\ AttemptLeft(s) >= 1
        BY <1>2, <1>4, AttemptBounded
      <3> QED BY <1>2, <3>1, <3>2, <3>3, FewerLeft
    <2> QED BY <1>1, <1>4, <2>1, <2>2, RunWrites
  <1> DEFINE To(pc, site) ==
        /\ pc \in Working /\ run'[s].pc = pc /\ run'[s].site = site
        /\ run'[s].turn = run[s].turn /\ run'[s].attempts = run[s].attempts
  <1>5. /\ \A pc \in Working : Goto(s, pc) => To(pc, "start")
        /\ \A site \in Sites : Enter(s, site) => To("check", site)
    BY <1>1, RunWrites DEF Working
  <1>6. ASSUME NEW pc \in Working, NEW site \in Sites, To(pc, site),
               run[s].pc \in Working,
               StepsTo(pc, site) < StepsTo(run[s].pc, run[s].site)
        PROVE  StepsLeft(s)' < StepsLeft(s)
    BY <1>6, SameTurn
  <1> HIDE DEF To
  <1>7. CASE RunStart(s) \/ RunInvalid(s)
    <2>1. CASE Stop(s, "done")
      <3>1. "done" \in Idle \ {"queued"}
        BY DEF Idle
      <3>2. ~Alive(s)'
        BY <1>3, <2>1, <3>1
      <3> QED BY <1>2, <3>2
    <2>2. ASSUME NEW pc \in {"check", "invalid"},
                 run' = [run EXCEPT ![s] = Begun(s, pc)]
          PROVE  StepsLeft(s)' < StepsLeft(s)
      <3>1. turn[s] \in 0..N /\ run[s].attempts < MaxAttempts
        BY <1>7 DEF TypeOK, RunOK, RunStart, RunInvalid
      <3>2. run'[s].pc = pc /\ run'[s].attempts = run[s].attempts + 1
        BY <1>1, <2>2, <3>1, Begins
      <3>3. Alive(s)'
        BY <3>2 DEF Alive, Working
      <3> QED BY <1>2, <3>2, <3>3, FewerLeft
    <2> QED BY <1>2, <1>7, <2>1, <2>2 DEF RunStart, RunInvalid, Stop
  <1>8. CASE StatusCheck(s) \/ StatusStore(s)
    BY <1>2, <1>8, StatusCounts
  <1>9. CASE Look(s) \/ Send(s) \/ Record(s)
    <2>1. /\ run[s].pc \in {"look", "send", "record"} /\ run[s].pc \in Working
          /\ {"send", "record", "check"} \subseteq Working
      BY <1>9 DEF Look, Send, Record, At, Working
    <2>2. \/ /\ At(s, "look") /\ (To("check", "await") \/ To("send", "start"))
          \/ At(s, "send") /\ To("record", "start")
          \/ At(s, "record") /\ To("check", "await")
      BY <1>5, <1>9, <2>1 DEF Look, Send, Record, Sites
    <2> QED BY <1>1, <1>2, <1>6, <2>1, <2>2, PlaceSteps DEF At, Sites
  <1>10. CASE ReadBuffer(s) \/ Listen(s) \/ Timeout(s)
    <2>1. /\ run[s].pc \in Working
          /\ {"subscribe", "hook", "recheck", "waiting", "timedout", "check"}
               \subseteq Working
      BY <1>10 DEF ReadBuffer, Listen, Timeout, At, Working
    <2>2. \/ /\ At(s, "early")
             /\ To("check", "advance") \/ To("subscribe", "start")
          \/ /\ At(s, "recheck")
             /\ To("check", "advance") \/ To("hook", "start")
          \/ At(s, "subscribe") /\ To("recheck", "start")
          \/ At(s, "hook") /\ To("waiting", "start")
          \/ At(s, "waiting") /\ To("timedout", "start")
      BY <1>5, <1>10, <2>1 DEF ReadBuffer, Listen, Timeout, Sites, At
    <2> QED BY <1>1, <1>2, <1>6, <2>1, <2>2, PlaceSteps DEF At, Sites
  <1>11. CASE RecordTimeout(s)
    <2>1. /\ run[s].pc = "timedout" /\ run[s].pc \in Working
          /\ {"unanswered", "check"} \subseteq Working
      BY <1>11 DEF RecordTimeout, At, Working
    <2>2. \/ To("check", "advance") \/ To("unanswered", "start")
          \/ Throws(s)
      BY <1>5, <1>11, <2>1 DEF RecordTimeout, AfterTimeout, Sites
    <2> QED BY <1>1, <1>2, <1>4, <1>6, <2>1, <2>2, PlaceSteps DEF Sites
  <1>12. CASE MarkFailed(s) \/ Analyse(s)
    BY <1>2, <1>3, <1>12 DEF MarkFailed, Analyse, Idle
  <1>13. CASE Complete(s)
    <2>1. run[s].pc = "complete" /\ {"complete", "analyse"} \subseteq Working
      BY <1>13 DEF Complete, At, Working
    <2>2. To("analyse", "start")
      BY <1>5, <1>13, <2>1 DEF Complete
    <2> QED BY <1>1, <1>2, <1>6, <2>1, <2>2, PlaceSteps DEF Sites
  <1>14. CASE Bump(s)
    <2>1. /\ run[s].pc = "bump" /\ run[s].pc \in Working
          /\ run[s].turn <= N
      BY <1>14 DEF Bump, At, Working, RunOK, Ends
    <2>2. /\ run'[s].pc = LoopAt(run[s].turn + 1)
          /\ run'[s].turn = run[s].turn + 1 /\ run'[s].site = run[s].site
          /\ run'[s].attempts = run[s].attempts
      BY <1>1, <1>14 DEF Bump, RunType, RunStates
    <2>3. run'[s].pc \in {"complete", "look"} /\ run'[s].pc \in Working
      <3>1. run[s].turn + 1 \in Nat
        BY <1>1
      <3> QED BY <2>2, <3>1, Places DEF Working
    <2>4. StepsTo(run[s].pc, run[s].site) = 1
      BY <1>1, <2>1, PlaceSteps
    <2>5. StepsTo(run'[s].pc, run'[s].site) \in 0..14
      BY <1>1, <2>2, <2>3, PlaceSteps
    <2>6. AttemptLeft(s) = 17 * (N + 1 - run[s].turn) + 1
      BY <1>2, <2>1, <2>4, AttemptBounded
    <2>7. AttemptLeft(s)' = 17 * (N + 1 - (run[s].turn + 1))
                              + StepsTo(run'[s].pc, run'[s].site)
      BY <2>2, <2>3 DEF AttemptLeft, At, StepsOfTurn, Working
    <2>8. AttemptLeft(s)' < AttemptLeft(s)
      BY <1>1, <2>5, <2>6, <2>7
    <2>9. Alive(s)'
      BY <2>3 DEF Alive
    <2> QED BY <1>2, <2>2, <2>8, <2>9, FewerLeft
  <1>15. CASE RunFault(s)
    BY <1>2, <1>4, <1>15 DEF RunFault
  <1>16. CASE PostFails(s) \/ PostRefused(s)
    <2>1. /\ run[s].pc = "send" /\ run[s].pc \in Working
          /\ {"send", "unsent", "refused"} \subseteq Working
      BY <1>16 DEF PostFails, PostRefused, At, Working
    <2>2. /\ run'[s].turn = run[s].turn /\ run'[s].attempts = run[s].attempts
          /\ \/ run'[s].pc \in {"unsent", "refused"} /\ run'[s].site = "start"
             \/ /\ run'[s].pc = "send" /\ run'[s].site = run[s].site
                /\ run'[s].posts = run[s].posts + 1
      BY <1>1, <1>16, Posts
    <2>3. CASE run'[s].pc \in {"unsent", "refused"} /\ run'[s].site = "start"
      <3>1. To(run'[s].pc, "start")
        BY <2>1, <2>2, <2>3 DEF To
      <3> QED BY <1>1, <1>2, <1>6, <2>1, <2>3, <3>1, PlaceSteps DEF Sites
    <2>4. CASE /\ run'[s].pc = "send" /\ run'[s].site = run[s].site
               /\ run'[s].posts = run[s].posts + 1
      <3>1. StepsLeft(s)' = StepsLeft(s)
        BY <2>1, <2>2, <2>4 DEF StepsLeft, AttemptLeft, At
      <3>2. run'[s] \in RunStates
        BY DEF TypeOK
      <3>3. run'[s].posts < MaxPosts
        BY <3>2, Bounds DEF RunStates
      <3> QED BY <1>2, <2>4, <3>1, <3>3 DEF Repost
    <2> QED BY <2>2, <2>3, <2>4
  <1> QED BY <1>7, <1>8, <1>9, <1>10, <1>11, <1>12, <1>13, <1>14, <1>15, <1>16
         DEF RunStep, RunTrouble

(* Every step, of whomever.                                                *)
LEMMA StepsStep ==
  ASSUME IInv, TypeOK', [Next]_vars, NEW s \in Sessions
  PROVE  CountsDown(s)
  <1>1. /\ TypeOK /\ SessionsOK /\ DeliveriesOK /\ RunType
        /\ \A t \in Sessions : RunOK(t)
    BY TypeParts DEF IInv, SessionsOK, SessionOK
  <1>2. RunStep(s) \/ RunTrouble(s) =>
          Alive(s) /\ (Fewer(s) \/ Repost(s))
    BY <1>1, OwnStepCounts
  <1>3. /\ Alive(s) => StepsLeft(s) \in Int
        /\ Alive(s)' => StepsLeft(s)' \in Int
    <2>1. Alive(s) => StepsLeft(s) \in Int
      BY <1>1, AttemptBounded DEF StepsLeft
    <2>2. ASSUME Alive(s)' PROVE StepsLeft(s)' \in Int
      <3>1. /\ run'[s].turn \in 1..N+1 /\ run'[s].site \in Sites
            /\ run'[s].attempts \in 0..MaxAttempts
        BY DEF TypeOK, RunStates
      <3>2. AttemptLeft(s)' \in Int
        <4>1. run'[s].pc \in Working =>
                StepsTo(run'[s].pc, run'[s].site) \in 1..16
          BY <3>1, PlacesBounded
        <4> QED BY <2>2, <3>1, <4>1, Bounds
                DEF AttemptLeft, Alive, At, StepsOfTurn
      <3>3. StepsOfAttempt * (MaxAttempts - run'[s].attempts) \in Nat
        <4>1. MaxAttempts - run'[s].attempts \in Nat
          BY <3>1, Bounds
        <4>2. StepsOfAttempt \in Nat
          BY Bounds DEF StepsOfAttempt, StepsOfTurn
        <4> QED BY <4>1, <4>2, Products
      <3> QED BY <3>2, <3>3 DEF StepsLeft
    <2> QED BY <2>1, <2>2
  <1>4. CASE run'[s] = run[s]
    <2>1. StepsLeft(s)' = StepsLeft(s) /\ Alive(s)' = Alive(s)
      BY <1>4 DEF StepsLeft, AttemptLeft, Alive, At
    <2> QED BY <1>2, <1>3, <2>1 DEF CountsDown
  <1>5. CASE RunStep(s) \/ RunTrouble(s)
    BY <1>2, <1>3, <1>5 DEF CountsDown, Fewer, Repost
  <1>6. CASE ~Alive(s)
    BY <1>2, <1>6 DEF CountsDown
  <1>7. ASSUME NEW t \in Sessions,
               \/ RunStep(t) \/ RunTrouble(t) \/ CreateSession(t)
               \/ CountRetry(t) \/ AddJob(t) \/ TickCreate(t)
               \/ CreationFault(t) \/ \E c \in Calls : CallClone(c, t)
        PROVE  CountsDown(s)
    <2>1. CASE t = s
      <3>1. CASE RunStep(s) \/ RunTrouble(s)
        BY <1>5, <3>1
      <3>2. CASE CountRetry(s) \/ AddJob(s) \/ CreationFault(s)
        BY <1>6, <3>2
           DEF CountRetry, AddJob, CreationFault, Lost, Alive, Working
      <3>3. CASE \E pc : NewSession(s, pc)
        <4>1. run[s].pc = "none"
          BY <1>1, <3>3 DEF NewSession, IsNext, RunOK, NoRun
        <4> QED BY <1>6, <4>1 DEF Alive, Working
      <3> QED BY <1>7, <2>1, <3>1, <3>2, <3>3
              DEF CreateSession, TickCreate, CallClone
    <2>2. CASE t # s
      <3>1. CASE RunStep(t) \/ RunTrouble(t)
        BY <1>1, <1>4, <2>2, <3>1, RunTyped DEF Others
      <3>2. CASE ~(RunStep(t) \/ RunTrouble(t))
        <4>1. run'[s] = run[s]
          BY <1>1, <1>7, <2>2, <3>2
             DEF CountRetry, AddJob, CreationFault, Stop, CreateSession,
                 TickCreate, CallClone, NewSession, RunType
        <4> QED BY <1>4, <4>1
      <3> QED BY <3>1, <3>2
    <2> QED BY <2>1, <2>2
  <1>8. ASSUME NEW d \in Deliveries, Publish(d) PROVE CountsDown(s)
    <2>1. delivery[d].session \in Sessions
      BY <1>1, <1>8 DEF DeliveriesOK, DeliveryOK, Publish, InDelivery
    <2>2. CASE run' = run \/ s # delivery[d].session
      BY <1>1, <1>4, <1>8, <2>1, <2>2 DEF Publish, Stop, Enter, RunType
    <2>3. CASE /\ s = delivery[d].session /\ At(s, "waiting")
               /\ Stop(s, "done") \/ Enter(s, "advance")
      <3>1. CASE Stop(s, "done")
        <4>1. ~Alive(s)'
          BY <1>1, <3>1
             DEF Stop, RunType, Stopped, NoRun, Alive, Working
        <4> QED BY <1>2, <4>1 DEF CountsDown
      <3>2. CASE Enter(s, "advance")
        <4>1. /\ run'[s].pc = "check" /\ run'[s].turn = run[s].turn
              /\ run'[s].site = "advance" /\ run[s].pc = "waiting"
              /\ run'[s].attempts = run[s].attempts
          BY <1>1, <2>3, <3>2, RunWrites DEF Sites, At
        <4>2. run[s].pc \in Working /\ run'[s].pc \in Working
          BY <4>1 DEF Working
        <4>3. StepsTo("check", "advance") < StepsTo("waiting", run[s].site)
          BY <1>1, Places, PlaceSteps DEF Sites
        <4>4. StepsLeft(s)' < StepsLeft(s)
          BY <1>1, <4>1, <4>2, <4>3, SameTurn
        <4>5. Alive(s) /\ Alive(s)'
          BY <4>2 DEF Alive
        <4> QED BY <1>2, <1>3, <4>4, <4>5 DEF CountsDown
      <3> QED BY <2>3, <3>1, <3>2
    <2> QED BY <1>8, <2>2, <2>3 DEF Publish
  <1>9. CASE Crash
    <2>1. CASE run'[s] = NoRun \/ run'[s] = Stopped("dead")
      <3>1. ~Alive(s)'
        BY <2>1 DEF NoRun, Stopped, Alive, Working
      <3> QED BY <1>2, <3>1 DEF CountsDown
    <2>2. CASE run'[s] = Again(run[s].attempts - 1) /\ run[s].pc \in Working
      <3>1. At(s, "queued")' /\ run'[s].attempts = run[s].attempts - 1
        BY <2>2 DEF Again, NoRun, At
      <3>2. Alive(s) /\ Alive(s)'
        BY <2>2, <3>1 DEF Alive, At
      <3>3. StepsLeft(s)' < StepsLeft(s) + StepsOfAttempt
        BY <1>1, <2>2, <3>1, <3>2, FewerLeft
      <3>4. RunStep(s) \/ RunTrouble(s) => Fewer(s) \/ Repost(s)
        BY <1>2
      <3> QED BY <1>9, <3>2, <3>3, <3>4 DEF CountsDown
    <2> QED BY <1>1, <1>4, <1>9, <2>1, <2>2, AfterCrash
  <1>10. CASE \/ UNCHANGED vars \/ TickLook
              \/ \E t \in Sessions, i \in 1..N+1 : BufferExpires(t, i)
              \/ \E d \in Deliveries :
                   \/ Arrive(d) \/ DeliveryFault(d)
                   \/ Seek(d) \/ OptOut(d) \/ Persist(d) \/ SetBuffer(d)
              \/ \E c \in Calls : CallRead(c) \/ CallCheck(c) \/ CallStore(c)
    <2>1. run' = run
      BY <1>10 DEF vars, TickLook, BufferExpires, Arrive, DeliveryFault, Seek,
             OptOut, Persist, SetBuffer, CallRead, CallCheck, CallStore
    <2> QED BY <1>4, <2>1
  <1> QED BY <1>7, <1>8, <1>9, <1>10 DEF Next, DeliveryStep

(* A run job has at most MaxSteps steps before it, in every state.         *)
THEOREM StepsAreBounded == Spec => []StepsOK
  <1>1. ASSUME IInv PROVE StepsOK
    <2> SUFFICES ASSUME NEW s \in Sessions, Alive(s)
                 PROVE  StepsLeft(s) \in 0..MaxSteps
      BY DEF StepsOK
    <2>1. TypeOK /\ RunOK(s)
      BY <1>1 DEF IInv, SessionsOK, SessionOK
    <2>2. /\ StepsOfAttempt \in Nat /\ MaxAttempts - run[s].attempts \in Nat
          /\ AttemptLeft(s) \in 0..(StepsOfAttempt - 1)
          /\ At(s, "queued") => AttemptLeft(s) = 0
          /\ StepsOfAttempt * (MaxAttempts - run[s].attempts) \in Nat
          /\ run[s].attempts \in Nat /\ MaxAttempts \in Nat
      BY <2>1, AttemptBounded, Places, Bounds
    <2>3. CASE At(s, "queued")
      <3>1. StepsOfAttempt * (MaxAttempts - run[s].attempts)
              <= StepsOfAttempt * MaxAttempts
        <4>1. MaxAttempts - run[s].attempts <= MaxAttempts
          BY <2>2
        <4> QED BY <2>2, <4>1, Products
      <3> QED BY <2>2, <2>3, <3>1, Products DEF StepsLeft, MaxSteps
    <2>4. CASE run[s].pc \in Working
      <3>1. run[s].attempts >= 1
        BY <2>1, <2>4 DEF RunOK
      <3> DEFINE a == MaxAttempts - run[s].attempts
      <3>2. a \in Nat /\ a + 1 \in Nat /\ a + 1 <= MaxAttempts
        BY <2>2, <3>1
      <3>3. /\ StepsOfAttempt * (a + 1) = StepsOfAttempt * a + StepsOfAttempt
            /\ StepsOfAttempt * (a + 1) <= StepsOfAttempt * MaxAttempts
            /\ StepsOfAttempt * MaxAttempts \in Nat
            /\ StepsOfAttempt * a \in Nat
        BY <2>2, <3>2, Products
      <3> HIDE DEF a
      <3>4. StepsOfAttempt * a + AttemptLeft(s) \in 0..MaxSteps
        BY <2>2, <3>3 DEF MaxSteps
      <3> QED BY <3>4 DEF StepsLeft, a
    <2> QED BY <2>3, <2>4 DEF Alive, At
  <1> QED BY <1>1, Invariance, PTL

(* The safety half of RunsFinish, for any script, attempts, POSTs and      *)
(* webhook calls: no lost publication, timeout or failure keeps a run      *)
(* going; each step of its own brings it nearer to its end, but for a POST *)
(* to be repeated, of which there are fewer than MaxPosts in a row, and    *)
(* only a crash sets it back, by less than an attempt.                     *)
THEOREM RunsCountDown == Spec => StepsCountDown
  <1>1. IInv /\ IInv' /\ [Next]_vars => [\A s \in Sessions : CountsDown(s)]_vars
    BY StepsStep DEF IInv
  <1> QED BY <1>1, Invariance, PTL DEF Spec, StepsCountDown

-----------------------------------------------------------------------------
(* The runs implement ProbePromise: every step of the runner, the webhook, *)
(* the operator's calls and the tick is a step of the promise, or changes  *)
(* nothing in it.  IInv is not enough for it: that an answer falls on the  *)
(* turn under way or on one that is over, and on a session that exists,    *)
(* rests on what the webhook call and the operator's call have read        *)
(* earlier, and on what may happen between their reads and their writes.   *)

Reached(d) == ~InDelivery(d, "idle") /\ ~InDelivery(d, "seek")

SeekOK(d) == Reached(d) =>
  /\ status[delivery[d].session] # "absent"
  /\ delivery[d].turn <= turn[delivery[d].session] + 1
  /\ InDelivery(d, "abort") => optedOut

CallOK(c) == callPc[c] \in {"check", "store"} =>
  status[request[c].session] # "absent" /\ request[c].op # "retry"

ReadsOK == (\A d \in Deliveries : SeekOK(d)) /\ (\A c \in Calls : CallOK(c))
PInv    == IInv /\ ReadsOK

(* What was read stays true enough: no session vanishes, no turn is taken  *)
(* back, no opt-out forgotten.                                             *)
Onward(s) == /\ status[s] # "absent" => status'[s] # "absent"
             /\ turn'[s] >= turn[s]
             /\ optedOut => optedOut'

LEMMA GoesOn ==
  ASSUME IInv, [Next]_vars
  PROVE  request' = request /\ \A s \in Sessions : Onward(s)
  <1>t. /\ TypeOK /\ SessionsOK /\ DeliveriesOK
        /\ status \in [Sessions -> Statuses] /\ turn \in [Sessions -> 0..N]
    BY DEF IInv, TypeOK
  <1>n. \A s \in Sessions : turn[s] \in Nat
    BY <1>t, Bounds
  <1>1. CASE Quiet
    <2>1. \A s \in Sessions : Kept(s)
      BY <1>1, <1>t, QuietKeeps
    <2>2. request' = request /\ (optedOut => optedOut')
      <3>1. CASE \E d \in Deliveries : OptOut(d)
        BY <3>1 DEF OptOut, OthersOfDelivery
      <3>2. CASE ~\E d \in Deliveries : OptOut(d)
        <4>1. request' = request /\ optedOut' = optedOut
          BY <1>1, <3>2 DEF Quiet, vars, rows, TickLook, BufferExpires,
             Arrive, Seek, Persist, SetBuffer, DeliveryFault,
             OthersOfDelivery, CallRead, CallCheck, CallStore, OthersOfCall
        <4> QED BY <4>1
      <3> QED BY <3>1, <3>2
    <2> QED BY <1>n, <2>1, <2>2 DEF Kept, Rows, Onward
  <1>2. ASSUME NEW s \in Sessions, Creates(s)
        PROVE  request' = request /\ \A t \in Sessions : Onward(t)
    <2>1. UNCHANGED <<request, turn, optedOut>>
      BY <1>2 DEF Creates, CreateSession, CountRetry, AddJob, TickCreate,
         CallClone, CreationFault, NewSession, OthersOfRun, rows
    <2>2. status' = status \/ status' = [status EXCEPT ![s] = "queued"]
      BY <1>2 DEF Creates, CreateSession, CountRetry, AddJob, TickCreate,
         CallClone, CreationFault, NewSession, rows
    <2>3. \A t \in Sessions : status[t] # "absent" => status'[t] # "absent"
      BY <1>t, <2>2
    <2> QED BY <1>n, <2>1, <2>3 DEF Onward
  <1>3. ASSUME NEW s \in Sessions, RunStep(s) \/ RunTrouble(s)
        PROVE  request' = request /\ \A t \in Sessions : Onward(t)
    <2>1. request' = request /\ optedOut' = optedOut
      BY <1>3 DEF RunStep, RunStart, StatusCheck, StatusStore, Look, Send,
         Record, ReadBuffer, Listen, Timeout, RecordTimeout, MarkFailed, Bump,
         Complete, Analyse, RunFault, RunTrouble, RunInvalid, PostFails,
         PostRefused, GoesOut, rows, OthersOfRun
    <2>2. SessionOK(s) /\ RunOK(s)
      BY <1>t DEF SessionsOK, SessionOK
    <2>3. \A t \in Sessions \ {s} : Onward(t)
      <3>1. \A t \in Sessions \ {s} : Kept(t)
        BY <1>3, <1>t, <2>2, Elsewhere
      <3> QED BY <1>n, <2>1, <3>1 DEF Kept, Rows, Onward
    <2>4. turn'[s] >= turn[s]
      <3>1. CASE Bump(s)
        <4>1. run[s].turn = turn[s] + 1
          BY <2>2, <3>1 DEF Bump, RunOK, At, Working
        <4> QED BY <1>n, <1>t, <3>1, <4>1 DEF Bump
      <3>2. CASE ~Bump(s)
        <4>1. turn' = turn
          BY <1>3, <3>2 DEF RunStep, RunStart, StatusCheck, StatusStore, Look,
             Send, Record, ReadBuffer, Listen, Timeout, RecordTimeout,
             MarkFailed, Complete, Analyse, RunFault, RunTrouble, RunInvalid,
             PostFails, PostRefused, GoesOut, rows, OthersOfRun
        <4> QED BY <1>n, <4>1
      <3> QED BY <3>1, <3>2
    <2>5. status[s] # "absent" => status'[s] # "absent"
      <3>1. status' = status \/ StatusStore(s) \/ MarkFailed(s) \/ Complete(s)
        BY <1>3 DEF RunStep, RunStart, StatusCheck, Look, Send, Record,
           ReadBuffer, Listen, Timeout, RecordTimeout, Bump, Analyse,
           RunFault, RunTrouble, RunInvalid, PostFails, PostRefused, GoesOut,
           rows, OthersOfRun
      <3>2. StatusAt(run[s].site) # "absent"
        BY DEF StatusAt
      <3> QED BY <1>t, <3>1, <3>2 DEF StatusStore, MarkFailed, Complete
    <2> QED BY <2>1, <2>3, <2>4, <2>5 DEF Onward
  <1>4. CASE Crash \/ \E d \in Deliveries : Publish(d)
    BY <1>4, <1>n DEF Crash, rows, Publish, OthersOfDelivery, Onward
  <1>5. Quiet \/ Crash \/ (\E d \in Deliveries : Publish(d))
        \/ \E s \in Sessions : Creates(s) \/ RunStep(s) \/ RunTrouble(s)
    BY DEF Next, Quiet, Creates, DeliveryStep
  <1> QED BY <1>1, <1>2, <1>3, <1>4, <1>5

(* Between Seek and the writes of a webhook call.                          *)
LEMMA SeekStep ==
  ASSUME PInv, [Next]_vars, NEW d \in Deliveries
  PROVE  SeekOK(d)'
  <1>t. /\ TypeOK /\ SeekOK(d) /\ DeliveryOK(d)
        /\ delivery \in [Deliveries -> DeliveryStates]
        /\ turn \in [Sessions -> 0..N] /\ turn' \in [Sessions -> 0..N]
        /\ delivery[d].turn \in Nat /\ optedOut \in BOOLEAN
    <2>1. TypeOK /\ TypeOK' /\ SeekOK(d) /\ DeliveryOK(d)
      BY TypeStep DEF PInv, ReadsOK, IInv, DeliveriesOK
    <2>2. delivery[d] \in DeliveryStates
      BY <2>1 DEF TypeOK
    <2>3. delivery[d].turn \in Nat
      BY <2>2, Bounds DEF DeliveryStates
    <2> QED BY <2>1, <2>3 DEF TypeOK
  <1>g. \A s \in Sessions : Onward(s)
    BY GoesOn DEF PInv
  <1>n. \A s \in Sessions : turn[s] \in Nat /\ turn'[s] \in Nat
    BY <1>t, Bounds
  <1>1. CASE delivery'[d] = delivery[d]
    <2>1. CASE Reached(d)
      <3>1. delivery[d].session \in Sessions
        BY <1>t, <2>1 DEF Reached, DeliveryOK
      <3>2. Onward(delivery[d].session) /\ turn[delivery[d].session] \in Nat
            /\ turn'[delivery[d].session] \in Nat
        BY <1>g, <1>n, <3>1
      <3> QED BY <1>1, <1>t, <2>1, <3>2 DEF SeekOK, Reached, InDelivery, Onward
    <2> QED BY <1>1, <2>1 DEF SeekOK, Reached, InDelivery
  <1>2. CASE delivery'[d].pc \in {"idle", "seek"}
    BY <1>2 DEF SeekOK, Reached, InDelivery
  <1>3. CASE delivery'[d] # delivery[d] /\ delivery'[d].pc \notin {"idle", "seek"}
    <2>1. NoDelivery.pc = "idle"
      BY DEF NoDelivery
    <2>2. ~Crash
      BY <1>3, <2>1 DEF Crash
    <2>3. PICK e \in Deliveries :
            Arrive(e) \/ DeliveryStep(e) \/ DeliveryFault(e)
      BY <1>3, <2>2, Writers
    <2>4. e = d /\ ~Answer(d)
      BY <1>3, <1>t, <2>1, <2>3
         DEF Arrive, DeliveryStep, Seek, OptOut, Persist, SetBuffer, Publish,
             DeliveryFault, MoveTo, Answer
    <2>5. ~Arrive(d)
      BY <1>3, <1>t DEF Arrive, NoDelivery
    <2>6. CASE Seek(d)
      <3>1. PICK s \in UnderWay :
              delivery' = [delivery EXCEPT
                ![d].session = s, ![d].turn = turn[s] + 1,
                ![d].pc = IF delivery[d].message \in OptOuts THEN "optout"
                          ELSE "persist"]
        BY <2>4, <2>6 DEF Seek
      <3>2. /\ delivery'[d].session = s /\ delivery'[d].turn = turn[s] + 1
            /\ delivery'[d].pc \in {"optout", "persist"}
        BY <1>t, <3>1 DEF DeliveryStates
      <3>3. s \in Sessions /\ status[s] # "absent"
        BY DEF UnderWay
      <3>4. status'[s] # "absent" /\ turn'[s] >= turn[s]
        BY <1>g, <3>3 DEF Onward
      <3> QED BY <1>n, <3>2, <3>3, <3>4 DEF SeekOK, InDelivery
    <2>7. CASE OptOut(d) \/ Persist(d) \/ SetBuffer(d)
      <3>1. Reached(d) /\ delivery[d].session \in Sessions
        BY <1>t, <2>7 DEF OptOut, Persist, SetBuffer, InDelivery, DeliveryOK,
           Reached
      <3>2. PICK pc \in {"abort", "buffer", "publish"} :
              MoveTo(d, pc) /\ (pc = "abort" => OptOut(d))
        BY <2>4, <2>7 DEF OptOut, Persist, SetBuffer
      <3>3. /\ delivery'[d].pc = pc
            /\ delivery'[d].session = delivery[d].session
            /\ delivery'[d].turn = delivery[d].turn
        BY <1>t, <3>2 DEF MoveTo, DeliveryStates
      <3>4. Onward(delivery[d].session) /\ turn[delivery[d].session] \in Nat
            /\ turn'[delivery[d].session] \in Nat
        BY <1>g, <1>n, <3>1
      <3>5. pc = "abort" => optedOut'
        BY <3>2 DEF OptOut
      <3> QED BY <1>t, <3>1, <3>3, <3>4, <3>5
              DEF SeekOK, InDelivery, Onward
    <2> QED BY <2>3, <2>4, <2>5, <2>6, <2>7
            DEF DeliveryStep, Publish, DeliveryFault
  <1> QED BY <1>1, <1>2, <1>3

(* Between the read of an operator's call and its write.                   *)
LEMMA CallStep ==
  ASSUME PInv, [Next]_vars, NEW c \in Calls
  PROVE  CallOK(c)'
  <1>t. /\ CallOK(c) /\ request[c].session \in Sessions
        /\ callPc \in [Calls -> {"idle", "check", "store", "clone", "done"}]
    <2>1. CallOK(c) /\ TypeOK
      BY DEF PInv, ReadsOK, IInv
    <2> QED BY <2>1 DEF TypeOK
  <1>g. request' = request /\ Onward(request[c].session)
    BY <1>t, GoesOn DEF PInv
  <1>1. CASE callPc[c] \in {"check", "store"}
    BY <1>t, <1>g, <1>1 DEF CallOK, Onward
  <1>2. CASE callPc[c] \notin {"check", "store"}
                /\ callPc'[c] \in {"check", "store"}
    <2>1. callPc'[c] # callPc[c]
      BY <1>2
    <2>2. \A s \in Sessions : ~RunStep(s) /\ ~RunTrouble(s) /\ ~CountRetry(s)
            /\ ~AddJob(s) /\ ~CreationFault(s) /\ ~CreateSession(s)
            /\ ~TickCreate(s) /\ \A i \in 1..N+1 : ~BufferExpires(s, i)
      BY <2>1 DEF RunStep, RunStart, StatusCheck, StatusStore, Look, Send,
         Record, ReadBuffer, Listen, Timeout, RecordTimeout, MarkFailed, Bump,
         Complete, Analyse, RunFault, RunTrouble, RunInvalid, PostFails,
         PostRefused, GoesOut, rows, OthersOfRun, CountRetry, AddJob,
         CreationFault, CreateSession, TickCreate, BufferExpires
    <2>3. \A e \in Deliveries :
            ~Arrive(e) /\ ~DeliveryStep(e) /\ ~DeliveryFault(e)
      BY <2>1 DEF Arrive, DeliveryStep, Seek, OptOut, Persist, SetBuffer,
         Publish, DeliveryFault, OthersOfDelivery
    <2>4. ~Crash /\ ~TickLook /\ ~UNCHANGED vars
      BY <1>2, <1>t, <2>1 DEF Crash, TickLook, vars
    <2>5. \A e \in Calls, s \in Sessions : ~CallClone(e, s)
      BY <1>2, <1>t, <2>1 DEF CallClone, SetCall
    <2>6. \A e \in Calls : ~CallCheck(e) /\ ~CallStore(e)
      BY <1>2, <1>t, <2>1 DEF CallCheck, CallStore, SetCall
    <2>7. PICK e \in Calls : CallRead(e)
      BY <2>2, <2>3, <2>4, <2>5, <2>6 DEF Next
    <2>8. e = c
      BY <1>t, <2>1, <2>7 DEF CallRead, SetCall
    <2>9. status[request[c].session] # "absent" /\ request[c].op # "retry"
      BY <1>2, <1>t, <2>7, <2>8 DEF CallRead, SetCall
    <2> QED BY <1>g, <2>9 DEF CallOK, Onward
  <1> QED BY <1>1, <1>2 DEF CallOK

(* In every reachable state what a webhook call and an operator's call     *)
(* have read is still true enough for what they go on to write.            *)
THEOREM PInvariance == Spec => []PInv
  <1>1. Init => PInv
    BY InitInvariant
       DEF PInv, ReadsOK, SeekOK, Reached, CallOK, InDelivery, Init, NoDelivery
  <1>2. PInv /\ [Next]_vars => PInv'
    BY StepInvariant, SeekStep, CallStep DEF PInv, ReadsOK
  <1> QED BY <1>1, <1>2, PTL DEF Spec

-----------------------------------------------------------------------------
(* How the promise reads the state.                                        *)
Outcomes == [s \in Sessions |-> Outcome(s)]
Stages   == [s \in Sessions |-> Stage(s)]

Still == UNCHANGED <<Outcomes, code, turn, sent, outbound, inbound, Stages,
                     analysed, optedOut, faults>>

LEMMA StillStutters == Still => UNCHANGED Promise!vars
  BY DEF Still, Promise!vars, Promise!script, Outcomes, Stages

LEMMA Reading ==
  ASSUME NEW s \in Sessions
  PROVE  /\ Promise!Now(s) = turn[s] + 1
         /\ Promise!UnderWay(s) <=> Stage(s) = "open" /\ turn[s] < N
         /\ Promise!Come(s) <=> inbound[s][turn[s] + 1] # "none"
         /\ \A o : Promise!Become(s, o) <=>
              Outcomes' = [Outcomes EXCEPT ![s] = o]
         /\ \A r : Promise!Because(s, r) <=> code' = [code EXCEPT ![s] = r]
         /\ \A g : Promise!Pass(s, g) <=> Stages' = [Stages EXCEPT ![s] = g]
         /\ Outcomes[s] = Outcome(s) /\ Stages[s] = Stage(s)
  BY DEF Promise!Now, Promise!UnderWay, Promise!Come, Promise!Become,
         Promise!Because, Promise!Pass, Outcomes, Stages

(* A write of a status, as the promise sees it.                            *)
OutcomeOf(new) == IF new \in Terminal \cup {"absent"} THEN new ELSE "open"

LEMMA OutcomeReads ==
  /\ status' = status => Outcomes' = Outcomes
  /\ \A s \in Sessions : Outcome(s) = OutcomeOf(status[s])
  /\ \A s \in Sessions : Outcome(s) = "absent" <=> status[s] = "absent"
  /\ \A new \in {"queued", "running", "waiting_response", "paused"} :
       OutcomeOf(new) = "open"
  /\ \A new \in Terminal : OutcomeOf(new) = new
  BY DEF Outcomes, Outcome, OutcomeOf, Terminal

LEMMA OutcomeMoves ==
  ASSUME TypeOK, NEW s \in Sessions, NEW new,
         status' = [status EXCEPT ![s] = new]
  PROVE  Promise!Become(s, OutcomeOf(new))
  <1>1. \A t \in Sessions : status'[t] = IF t = s THEN new ELSE status[t]
    BY DEF TypeOK
  <1>2. Outcomes' = [Outcomes EXCEPT ![s] = OutcomeOf(new)]
    BY <1>1 DEF Outcomes, Outcome, OutcomeOf
  <1> QED BY <1>2, Reading

(* A run that moves from one place to another.                             *)
PlaceStage(pc) == CASE pc = "record"           -> "spoke"
                    [] pc \in {"done", "dead"} -> "over"
                    [] OTHER                   -> "open"

LEMMA StageReads ==
  /\ \A s \in Sessions : Stage(s) = PlaceStage(run[s].pc)
  /\ \A pc : pc \notin {"record", "done", "dead"} => PlaceStage(pc) = "open"
  /\ PlaceStage("record") = "spoke"
  /\ PlaceStage("done") = "over" /\ PlaceStage("dead") = "over"
  /\ run' = run => Stages' = Stages
  BY DEF Stage, PlaceStage, At, Stages

LEMMA StageMoves ==
  ASSUME NEW s \in Sessions, Others(s)
  PROVE  /\ Promise!Pass(s, PlaceStage(run'[s].pc))
         /\ PlaceStage(run'[s].pc) = PlaceStage(run[s].pc) => Stages' = Stages
  <1>1. \A t \in Sessions : Stages'[t] =
          IF t = s THEN PlaceStage(run'[s].pc) ELSE Stages[t]
    BY DEF Others, Stages, Stage, PlaceStage, At
  <1>2. Stages' = [Stages EXCEPT ![s] = PlaceStage(run'[s].pc)]
    BY <1>1 DEF Stages
  <1>3. PlaceStage(run'[s].pc) = PlaceStage(run[s].pc) => Stages' = Stages
    BY <1>1, StageReads DEF Stages
  <1> QED BY <1>2, <1>3, Reading

(* A failure takes a run back to where its rows leave it, or ends it.      *)
LEMMA FaultRead ==
  ASSUME faults' = faults + 1, Outcomes' = Outcomes,
         UNCHANGED <<code, turn, sent, outbound, inbound, analysed, optedOut>>,
         \A s \in Sessions :
           \/ Stage(s)' = Stage(s)
           \/ Stage(s) # "over" /\ Stage(s)' = "over"
           \/ Stage(s) = "spoke" /\ Stage(s)' = "open"
  PROVE  Promise!Fault
  <1> DEFINE ended == {s \in Sessions : Stages[s] # "over"
                                          /\ Stages'[s] = "over"}
             hit   == {s \in Sessions : Stages[s] = "spoke"
                                          /\ Stages'[s] = "open"}
  <1>1. \A s \in Sessions : Stages[s] = Stage(s) /\ Stages'[s] = Stage(s)'
    BY DEF Stages
  <1>2. Stages' = [s \in Sessions |-> IF s \in ended THEN "over"
                                      ELSE IF s \in hit THEN "open"
                                      ELSE Stages[s]]
    <2>1. \A s \in Sessions : Stages'[s] = IF s \in ended THEN "over"
                                      ELSE IF s \in hit THEN "open"
                                      ELSE Stages[s]
      BY <1>1
    <2> QED BY <2>1 DEF Stages
  <1>3. /\ ended \in SUBSET {s \in Sessions : Stages[s] # "over"}
        /\ hit \in SUBSET {s \in Sessions : Stages[s] = "spoke"}
    OBVIOUS
  <1> HIDE DEF ended, hit
  <1> QED BY <1>2, <1>3 DEF Promise!Fault, Promise!script, Outcomes, Stages

(* An act of the script changes it.                                        *)
LEMMA ScriptMoves ==
  ASSUME turn' # turn \/ sent' # sent \/ outbound' # outbound
         \/ inbound' # inbound
  PROVE  Promise!script' # Promise!script
  BY DEF Promise!script

-----------------------------------------------------------------------------
(* The runner.                                                             *)

LEMMA RunParts ==
  ASSUME PInv, NEW s \in Sessions, RunStep(s) \/ RunTrouble(s)
  PROVE  /\ TypeOK /\ RunType /\ Others(s) /\ SessionOK(s) /\ RunOK(s)
         /\ run[s].pc \in Idle \cup Working
         /\ turn[s] \in Nat /\ faults \in Nat
         /\ Promise!Pass(s, PlaceStage(run'[s].pc))
         /\ PlaceStage(run'[s].pc) = PlaceStage(run[s].pc) => Stages' = Stages
         /\ Stage(s) = PlaceStage(run[s].pc)
  <1>1. /\ TypeOK /\ RunType /\ SessionOK(s) /\ RunOK(s)
        /\ run[s].pc \in Idle \cup Working
        /\ turn[s] \in Nat /\ faults \in Nat
    <2>1. TypeOK /\ SessionOK(s)
      BY DEF PInv, IInv, SessionsOK
    <2>2. turn[s] \in Nat
      BY <2>1, Bounds DEF TypeOK
    <2> QED BY <2>1, <2>2, TypeParts, Places DEF SessionOK, TypeOK
  <1>2. Others(s)
    BY <1>1, RunTyped
  <1> QED BY <1>1, <1>2, StageMoves, StageReads

(* What a place in the loop lets the promise do.                           *)
LEMMA LoopReads ==
  ASSUME PInv, NEW s \in Sessions, RunStep(s) \/ RunTrouble(s),
         run[s].pc \in Working
  PROVE  /\ run[s].turn = turn[s] + 1 /\ run[s].turn = Promise!Now(s)
         /\ run[s].turn \in 1..N+1
         /\ Outcome(s) # "absent" /\ Outcomes[s] # "absent"
         /\ run[s].pc # "record" => Stage(s) = "open" /\ Stages[s] = "open"
         /\ run[s].pc \notin {"check", "store", "invalid", "record"}
                              \cup Ends => Promise!UnderWay(s)
         /\ run[s].pc \notin {"check", "store", "invalid"} \cup Ends =>
              run[s].turn \in Turns
  <1>1. TypeOK /\ SessionOK(s) /\ RunOK(s) /\ turn[s] \in Nat
    BY RunParts
  <1>2. /\ status[s] # "absent" /\ run[s].turn = turn[s] + 1
        /\ run[s].turn \in 1..N+1
    BY <1>1, AtWork
  <1>3. Outcome(s) # "absent" /\ Outcomes[s] # "absent"
        /\ run[s].turn = Promise!Now(s)
    BY <1>2, OutcomeReads, Reading
  <1>4. run[s].pc # "record" => Stage(s) = "open" /\ Stages[s] = "open"
    BY StageReads, Reading DEF Working
  <1>5. run[s].pc \notin {"check", "store", "invalid"} \cup Ends =>
          run[s].turn \in Turns /\ turn[s] < N
    BY <1>1, <1>2, Bounds DEF RunOK, Turns
  <1> QED BY <1>2, <1>3, <1>4, <1>5, Reading

(* Steps that the promise does not see.                                    *)
LEMMA GoesOnPromised ==
  ASSUME PInv, NEW s \in Sessions,
         \/ StatusCheck(s) \/ Look(s) \/ ReadBuffer(s) \/ Listen(s)
         \/ Timeout(s)
  PROVE  Still
  <1>0. RunStep(s)
    BY DEF RunStep
  <1>1. /\ UNCHANGED <<status, code, turn, sent, outbound, inbound, analysed,
                       optedOut, faults>>
    BY DEF StatusCheck, Look, ReadBuffer, Listen, Timeout, rows, OthersOfRun
  <1>2. /\ run[s].pc \in {"check", "look", "early", "recheck", "subscribe",
                          "hook", "waiting"}
        /\ AfterStatus(s) \in {"complete", "look", "early", "bump"}
    BY <1>0, RunParts, Places
       DEF StatusCheck, Look, ReadBuffer, Listen, Timeout, At
  <1>3. run'[s].pc \in {"complete", "look", "early", "bump", "store", "check",
                        "send", "subscribe", "hook", "recheck", "waiting",
                        "timedout"}
    <2>1. CASE StatusCheck(s) /\ status[s] \notin Terminal
      BY <1>0, <2>1, RunParts DEF StatusCheck, RunType, RunStates
    <2>2. CASE \/ \E pc \in {"complete", "look", "early", "bump", "send",
                             "subscribe", "hook", "recheck", "waiting",
                             "timedout"} : Goto(s, pc)
               \/ \E site \in Sites : Enter(s, site)
      BY <1>0, <2>2, RunParts, RunWrites DEF Working
    <2> QED
      BY <1>2, <2>1, <2>2
         DEF StatusCheck, Look, ReadBuffer, Listen, Timeout, Sites
  <1>4. PlaceStage(run'[s].pc) = "open" /\ PlaceStage(run[s].pc) = "open"
    BY <1>2, <1>3, StageReads
  <1>5. Stages' = Stages
    BY <1>0, <1>4, RunParts
  <1> QED BY <1>1, <1>5, OutcomeReads DEF Still

LEMMA StartPromised ==
  ASSUME PInv, NEW s \in Sessions, RunStart(s)
  PROVE  Still \/ Promise!GiveUp(s)
  <1>0. RunStep(s) /\ At(s, "queued")
    BY DEF RunStep, RunStart
  <1>1. UNCHANGED <<Outcomes, code, turn, sent, outbound, inbound, analysed,
                    optedOut, faults>>
    BY OutcomeReads DEF RunStart, rows, OthersOfRun
  <1>2. PlaceStage(run[s].pc) = "open" /\ Stages[s] = "open"
    BY <1>0, StageReads, Reading DEF At
  <1>3. CASE status[s] \in Terminal
    <2>1. run'[s].pc = "done"
      BY <1>0, <1>3, RunParts DEF RunStart, RunType, Stopped, NoRun
    <2>2. Promise!Pass(s, "over")
      BY <1>0, <2>1, RunParts, StageReads
    <2>3. Outcomes[s] \in {"completed", "failed", "aborted"}
      BY <1>3, OutcomeReads, Reading DEF Terminal
    <2> QED BY <1>1, <1>2, <2>2, <2>3
            DEF Promise!GiveUp, Promise!script, Outcomes, Stages
  <1>4. CASE status[s] \notin Terminal
    <2>1. run'[s].pc = "check"
      BY <1>0, <1>4, RunParts DEF RunStart, RunType, Begun, NoRun
    <2>2. Stages' = Stages
      BY <1>0, <1>2, <2>1, RunParts, StageReads
    <2> QED BY <1>1, <2>2 DEF Still
  <1> QED BY <1>3, <1>4

LEMMA StorePromised ==
  ASSUME PInv, NEW s \in Sessions, StatusStore(s)
  PROVE  Promise!Reopen(s)
  <1>0. RunStep(s) /\ run[s].pc = "store" /\ run[s].pc \in Working
    BY DEF RunStep, StatusStore, At, Working
  <1>1. UNCHANGED <<code, turn, sent, outbound, inbound, analysed, optedOut,
                    faults>>
    BY DEF StatusStore, OthersOfRun
  <1>2. Promise!Become(s, "open") /\ Outcomes[s] # "absent"
    <2>1. /\ StatusAt(run[s].site) \in {"waiting_response", "running"}
          /\ status' = [status EXCEPT ![s] = StatusAt(run[s].site)]
      BY DEF StatusAt, StatusStore
    <2> QED BY <1>0, <2>1, RunParts, LoopReads, OutcomeMoves, OutcomeReads
  <1>3. Stages' = Stages
    <2>1. AfterStatus(s) \in {"complete", "look", "early", "bump"}
      BY <1>0, RunParts, Places
    <2>2. run'[s].pc = AfterStatus(s)
      BY <1>0, <2>1, RunParts, RunWrites DEF StatusStore, Working
    <2>3. PlaceStage(run'[s].pc) = "open" /\ PlaceStage(run[s].pc) = "open"
      BY <1>0, <2>1, <2>2, StageReads
    <2> QED BY <1>0, <2>3, RunParts
  <1> QED BY <1>1, <1>2, <1>3
          DEF Promise!Reopen, Promise!script, Outcomes, Stages

(* A POST.                                                                 *)
LEMMA GoneOut ==
  ASSUME PInv, NEW s \in Sessions, Send(s) \/ PostFails(s), GoesOut(s)
  PROVE  /\ Promise!UnderWay(s) /\ Promise!Now(s) \notin outbound[s]
         /\ sent' = [sent EXCEPT ![s][Promise!Now(s)] = @ + 1]
         /\ Promise!script' # Promise!script
  <1>0. /\ RunStep(s) \/ RunTrouble(s)
        /\ run[s].pc = "send" /\ run[s].pc \in Working
    BY DEF RunStep, RunTrouble, Send, PostFails, At, Working
  <1>1. /\ Promise!UnderWay(s) /\ Promise!Now(s) \notin outbound[s]
        /\ run[s].turn = Promise!Now(s) /\ run[s].turn \in Turns
    BY <1>0, LoopReads, RunParts DEF RunOK, At, Ends
  <1>2. sent' = [sent EXCEPT ![s][run[s].turn] = sent[s][run[s].turn] + 1]
    BY DEF GoesOut
  <1>3. sent' # sent
    <2>1. sent \in [Sessions -> [Turns -> Nat]]
      BY DEF PInv, IInv, TypeOK
    <2>2. sent[s][run[s].turn] + 1 \in Nat /\ sent[s][run[s].turn] \in Nat
      BY <1>1, <2>1
    <2>3. sent'[s][run[s].turn] = sent[s][run[s].turn] + 1
      BY <1>1, <1>2, <2>1, <2>2, Nested
    <2> QED BY <2>2, <2>3
  <1> QED BY <1>1, <1>2, <1>3, ScriptMoves

LEMMA SendPromised ==
  ASSUME PInv, NEW s \in Sessions, Send(s)
  PROVE  Promise!Say(s) /\ Promise!script' # Promise!script
  <1>0. RunStep(s)
    BY DEF RunStep
  <1>1. UNCHANGED <<Outcomes, code, turn, outbound, inbound, analysed,
                    optedOut, faults>>
    BY OutcomeReads DEF Send, rows, OthersOfRun
  <1>2. Promise!Pass(s, "spoke")
    <2>1. run'[s].pc = "record"
      BY <1>0, RunParts, RunWrites DEF Send, Working
    <2> QED BY <1>0, <2>1, RunParts, StageReads
  <1>3. GoesOut(s)
    BY DEF Send
  <1> QED BY <1>1, <1>2, <1>3, GoneOut DEF Promise!Say, Outcomes, Stages

LEMMA RecordPromised ==
  ASSUME PInv, NEW s \in Sessions, Record(s)
  PROVE  Promise!Note(s) /\ Promise!script' # Promise!script
  <1>0. RunStep(s) /\ run[s].pc = "record" /\ run[s].pc \in Working
    BY DEF RunStep, Record, At, Working
  <1>1. UNCHANGED <<Outcomes, code, turn, sent, inbound, analysed, optedOut,
                    faults>>
    BY OutcomeReads DEF Record, OthersOfRun
  <1>2. Promise!Pass(s, "open") /\ Stages[s] = "spoke"
    <2>1. run'[s].pc = "check"
      BY <1>0, RunParts, RunWrites DEF Record, Sites
    <2> QED BY <1>0, <2>1, RunParts, StageReads, Reading
  <1>3. outbound' = [outbound EXCEPT ![s] = @ \cup {Promise!Now(s)}]
    BY <1>0, LoopReads DEF Record
  <1>4. outbound' # outbound
    <2>1. outbound \in [Sessions -> SUBSET Turns]
      BY DEF PInv, IInv, TypeOK
    <2>2. Promise!Now(s) \notin outbound[s]
      BY <1>0, LoopReads, RunParts DEF RunOK
    <2> QED BY <1>3, <2>1, <2>2
  <1> QED BY <1>1, <1>2, <1>3, <1>4, ScriptMoves
          DEF Promise!Note, Outcomes, Stages

LEMMA TimeoutPromised ==
  ASSUME PInv, NEW s \in Sessions, RecordTimeout(s)
  PROVE  \/ Promise!TimeUp(s) /\ Promise!script' # Promise!script
         \/ Promise!GiveUp(s) \/ Still
  <1>0. RunStep(s) /\ run[s].pc = "timedout" /\ run[s].pc \in Working
    BY DEF RunStep, RecordTimeout, At, Working
  <1>1. UNCHANGED <<Outcomes, code, turn, sent, outbound, analysed, optedOut,
                    faults>>
    BY OutcomeReads DEF RecordTimeout, OthersOfRun
  <1>p. /\ RunType /\ Others(s) /\ Promise!Pass(s, PlaceStage(run'[s].pc))
        /\ PlaceStage(run'[s].pc) = PlaceStage(run[s].pc) => Stages' = Stages
        /\ PlaceStage(run[s].pc) = "open" /\ Stages[s] = "open"
    BY <1>0, RunParts, LoopReads, StageReads
  <1>n. /\ run[s].turn = Promise!Now(s) /\ run[s].turn = turn[s] + 1
        /\ Promise!UnderWay(s) /\ run[s].turn \in outbound[s]
        /\ run[s].turn \in 1..N+1
        /\ inbound \in [Sessions -> [1..N+1 -> {"none", "reply", "timeout"}]]
    <2>1. RunOK(s) /\ TypeOK
      BY <1>0, RunParts
    <2> QED BY <1>0, <2>1, LoopReads DEF RunOK, Ends, Sent, TypeOK
  <1>2. CASE /\ inbound[s][run[s].turn] = "none" /\ AfterTimeout(s)
             /\ inbound' = [inbound EXCEPT ![s][run[s].turn] = "timeout"]
    <2>1. run'[s].pc \in {"check", "unanswered"}
      BY <1>2, <1>p, RunWrites DEF AfterTimeout, Working, Sites
    <2>2. Stages' = Stages
      BY <1>p, <2>1, StageReads
    <2>3. inbound'[s][run[s].turn] = "timeout"
      <3>1. inbound'[s] = [inbound[s] EXCEPT ![run[s].turn] = "timeout"]
        BY <1>2, <1>n
      <3> QED BY <1>n, <3>1
    <2>4. inbound' # inbound
      BY <1>2, <2>3
    <2>5. ~Promise!Come(s)
      BY <1>2, <1>n, Reading
    <2> QED BY <1>1, <1>2, <1>n, <2>2, <2>4, <2>5, ScriptMoves
            DEF Promise!TimeUp, Outcomes, Stages
  <1>3. CASE inbound[s][run[s].turn] # "none" /\ Throws(s)
             /\ inbound' = inbound
    <2>1. \/ run'[s] = Again(run[s].attempts) \/ run'[s] = Stopped("dead")
      BY <1>3, <1>p, RunWrites
    <2>2. CASE run'[s] = Again(run[s].attempts)
      <3>1. run'[s].pc = "queued"
        BY <2>2 DEF Again, NoRun
      <3>2. Stages' = Stages
        BY <1>p, <3>1, StageReads
      <3> QED BY <1>1, <1>3, <3>2 DEF Still
    <2>3. CASE run'[s] = Stopped("dead")
      <3>1. run'[s].pc = "dead"
        BY <2>3 DEF Stopped, NoRun
      <3>2. Promise!Pass(s, "over")
        BY <1>p, <3>1, StageReads
      <3>3. Promise!UnderWay(s) /\ Promise!Come(s)
        BY <1>3, <1>n, Reading
      <3> QED BY <1>1, <1>3, <1>p, <3>2, <3>3
              DEF Promise!GiveUp, Promise!script, Outcomes, Stages
    <2> QED BY <2>1, <2>2, <2>3
  <1> QED BY <1>2, <1>3 DEF RecordTimeout

LEMMA FailedPromised ==
  ASSUME PInv, NEW s \in Sessions, MarkFailed(s)
  PROVE  Promise!Fail(s)
  <1>0. RunStep(s) /\ run[s].pc \in Failing /\ run[s].pc \in Working
    BY DEF RunStep, MarkFailed, Failing, Working
  <1>1. UNCHANGED <<turn, sent, outbound, inbound, analysed, optedOut, faults>>
    BY DEF MarkFailed, OthersOfRun
  <1>2. Promise!Become(s, "failed")
    <2>1. OutcomeOf("failed") = "failed"
      BY OutcomeReads DEF Terminal
    <2> QED BY <1>0, <2>1, RunParts, OutcomeMoves DEF MarkFailed
  <1>3. Promise!Pass(s, "over")
    <2>1. run'[s].pc = "done"
      BY <1>0, RunParts, RunWrites DEF MarkFailed, Stopped, NoRun, Idle
    <2> QED BY <1>0, <2>1, RunParts, StageReads
  <1>4. /\ run[s].pc # "invalid" => Promise!UnderWay(s)
        /\ run[s].turn = Promise!Now(s) /\ RunOK(s) /\ Stages[s] = "open"
    BY <1>0, LoopReads, RunParts DEF Ends, Failing
  <1>5. Promise!Because(s, FailCode(run[s].pc))
    BY DEF MarkFailed, Promise!Because
  <1>6. \/ /\ Promise!UnderWay(s) /\ inbound[s][Promise!Now(s)] = "timeout"
           /\ Promise!Because(s, "RESPONSE_TIMEOUT")
        \/ /\ Promise!UnderWay(s) /\ Promise!Now(s) \notin outbound[s]
           /\ \/ Promise!Because(s, "WAHA_UNREACHABLE")
              \/ Promise!Because(s, "WAHA_SESSION_NOT_WORKING")
        \/ Promise!Because(s, "SCRIPT_INVALID")
    <2>1. CASE run[s].pc \in {"unsent", "refused"}
      <3>1. Promise!Now(s) \notin outbound[s] /\ Promise!UnderWay(s)
        BY <1>4, <2>1 DEF RunOK
      <3>2. FailCode(run[s].pc) \in {"WAHA_UNREACHABLE",
                                     "WAHA_SESSION_NOT_WORKING"}
        BY <2>1 DEF FailCode
      <3> QED BY <1>5, <3>1, <3>2
    <2>2. CASE run[s].pc = "unanswered"
      <3>1. inbound[s][Promise!Now(s)] = "timeout" /\ Promise!UnderWay(s)
        BY <1>4, <2>2 DEF RunOK, At
      <3>2. FailCode(run[s].pc) = "RESPONSE_TIMEOUT"
        BY <2>2 DEF FailCode
      <3> QED BY <1>5, <3>1, <3>2
    <2>3. CASE run[s].pc = "invalid"
      <3>1. FailCode(run[s].pc) = "SCRIPT_INVALID"
        BY <2>3 DEF FailCode
      <3> QED BY <1>5, <3>1
    <2> QED BY <1>0, <2>1, <2>2, <2>3 DEF Failing
  <1> QED BY <1>1, <1>2, <1>3, <1>4, <1>6
          DEF Promise!Fail, Promise!script, Outcomes, Stages

LEMMA BumpPromised ==
  ASSUME PInv, NEW s \in Sessions, Bump(s)
  PROVE  Promise!Advance(s) /\ Promise!script' # Promise!script
  <1>0. RunStep(s) /\ run[s].pc = "bump" /\ run[s].pc \in Working
    BY DEF RunStep, Bump, At, Working
  <1>1. UNCHANGED <<Outcomes, code, sent, outbound, inbound, analysed,
                    optedOut, faults>>
    BY OutcomeReads DEF Bump, OthersOfRun
  <1>2. /\ run[s].turn = turn[s] + 1 /\ run[s].turn = Promise!Now(s)
        /\ Promise!UnderWay(s) /\ run[s].turn \in Nat
        /\ RunOK(s) /\ RunType /\ TypeOK /\ turn[s] \in Nat
    BY <1>0, LoopReads, RunParts, Bounds DEF Ends
  <1>3. Stages' = Stages
    <2>1. LoopAt(run[s].turn + 1) \in {"complete", "look"}
      BY <1>2, Places
    <2>2. run'[s].pc = LoopAt(run[s].turn + 1)
      BY <1>2 DEF Bump, RunType, RunStates
    <2>3. PlaceStage(run'[s].pc) = "open" /\ PlaceStage(run[s].pc) = "open"
      BY <1>0, <2>1, <2>2, StageReads
    <2> QED BY <1>0, <2>3, RunParts
  <1>4. /\ Promise!Now(s) \in outbound[s] /\ Promise!Come(s)
    BY <1>0, <1>2, Reading DEF RunOK, At, Sent
  <1>5. turn' = [turn EXCEPT ![s] = @ + 1] /\ turn' # turn
    <2>1. turn' = [turn EXCEPT ![s] = turn[s] + 1]
      BY <1>2 DEF Bump
    <2>2. turn'[s] = turn[s] + 1
      BY <1>2, <2>1 DEF TypeOK
    <2> QED BY <1>2, <2>1, <2>2
  <1> QED BY <1>1, <1>2, <1>3, <1>4, <1>5, ScriptMoves
          DEF Promise!Advance, Outcomes, Stages

LEMMA EndPromised ==
  ASSUME PInv, NEW s \in Sessions, Complete(s) \/ Analyse(s)
  PROVE  Promise!Complete(s) \/ Promise!Analyse(s)
  <1>0. RunStep(s) /\ run[s].pc \in Ends /\ run[s].pc \in Working
    BY DEF RunStep, Complete, Analyse, At, Working, Ends
  <1>1. UNCHANGED <<code, turn, sent, outbound, inbound, optedOut, faults>>
    BY DEF Complete, Analyse, rows, OthersOfRun
  <1>2. turn[s] = N /\ Stages[s] = "open" /\ PlaceStage(run[s].pc) = "open"
    <2>1. run[s].turn = N + 1 /\ run[s].turn = turn[s] + 1 /\ turn[s] \in Nat
      BY <1>0, LoopReads, RunParts DEF RunOK
    <2>2. turn[s] = N
      BY <2>1, Bounds
    <2>3. Stages[s] = "open" /\ Stage(s) = "open"
      BY <1>0, LoopReads DEF Ends
    <2> QED BY <2>2, <2>3, StageReads
  <1>3. CASE Complete(s)
    <2>1. run'[s].pc = "analyse"
      BY <1>0, <1>3, RunParts, RunWrites DEF Complete, Working
    <2>2. Stages' = Stages
      BY <1>0, <1>2, <2>1, RunParts, StageReads
    <2>3. Promise!Become(s, "completed")
      <3>1. OutcomeOf("completed") = "completed"
        BY OutcomeReads DEF Terminal
      <3> QED BY <1>0, <1>3, <3>1, RunParts, OutcomeMoves DEF Complete
    <2> QED BY <1>1, <1>2, <1>3, <2>2, <2>3
            DEF Complete, OthersOfRun, Promise!Complete, Promise!script,
                Outcomes, Stages
  <1>4. CASE Analyse(s)
    <2>1. run'[s].pc = "done"
      BY <1>0, <1>4, RunParts, RunWrites DEF Analyse, Stopped, NoRun, Idle
    <2>2. Promise!Pass(s, "over")
      BY <1>0, <2>1, RunParts, StageReads
    <2>3. Outcomes' = Outcomes
      BY <1>4, OutcomeReads DEF Analyse, rows
    <2> QED BY <1>1, <1>2, <1>4, <2>2, <2>3
            DEF Analyse, Promise!Analyse, Promise!script, Outcomes, Stages
  <1> QED BY <1>3, <1>4

-----------------------------------------------------------------------------
(* Failures and crashes.                                                   *)

LEMMA RunFaultPromised ==
  ASSUME PInv, NEW s \in Sessions, RunFault(s)
  PROVE  Promise!Fault
  <1>0. RunTrouble(s)
    BY DEF RunTrouble
  <1>1. /\ UNCHANGED <<Outcomes, code, turn, sent, outbound, inbound,
                       analysed, optedOut>>
        /\ faults' = faults + 1
    BY OutcomeReads DEF RunFault, rows, OthersOfRun
  <1>2. RunType /\ Others(s) /\ run[s].pc \in Working
    BY <1>0, RunParts DEF RunFault
  <1>3. Stage(s) \in {"open", "spoke"}
    BY <1>2, StageReads DEF Working, PlaceStage
  <1>4. Stage(s)' \in {"open", "over"}
    <2>1. \/ run'[s] = Again(run[s].attempts) \/ run'[s] = Stopped("dead")
      BY <1>2, RunWrites DEF RunFault
    <2>2. run'[s].pc \in {"queued", "dead"}
      BY <2>1 DEF Again, Stopped, NoRun
    <2> QED BY <2>2 DEF Stage, At
  <1>5. \A t \in Sessions \ {s} : Stage(t)' = Stage(t)
    BY <1>2 DEF Others, Stage, At
  <1>6. \A t \in Sessions :
           \/ Stage(t)' = Stage(t)
           \/ Stage(t) # "over" /\ Stage(t)' = "over"
           \/ Stage(t) = "spoke" /\ Stage(t)' = "open"
    BY <1>3, <1>4, <1>5
  <1> QED BY <1>1, <1>6, FaultRead

(* A run that cannot begin, and a POST in vain.                            *)
LEMMA TroublePromised ==
  ASSUME PInv, NEW s \in Sessions,
         RunInvalid(s) \/ PostFails(s) \/ PostRefused(s)
  PROVE  \/ Promise!Fault
         \/ Promise!SayInVain(s) /\ Promise!script' # Promise!script
  <1>0. RunTrouble(s)
    BY DEF RunTrouble
  <1>1. /\ UNCHANGED <<Outcomes, code, turn, outbound, inbound, analysed,
                       optedOut>>
        /\ faults' = faults + 1
    BY OutcomeReads
       DEF RunInvalid, PostFails, PostRefused, rows, OthersOfRun
  <1>2. PlaceStage(run[s].pc) = "open"
    BY StageReads DEF RunInvalid, PostFails, PostRefused, At
  <1>3. run'[s].pc \in {"invalid", "send", "unsent", "refused"}
    <2>1. CASE RunInvalid(s)
      BY <1>0, <2>1, RunParts DEF RunInvalid, RunType, Begun, NoRun
    <2>2. CASE ~RunInvalid(s)
      BY <1>0, <2>2, RunParts, Posts
    <2> QED BY <2>1, <2>2
  <1>4. Stages' = Stages
    BY <1>0, <1>2, <1>3, RunParts, StageReads
  <1>5. CASE sent' = sent
    <2>1. \A t \in Sessions : Stage(t)' = Stage(t)
      BY <1>4 DEF Stages
    <2> QED BY <1>1, <1>5, <2>1, FaultRead
  <1>6. CASE sent' # sent
    <2>1. PostFails(s) /\ GoesOut(s)
      BY <1>6 DEF RunInvalid, PostFails, PostRefused
    <2> QED BY <1>1, <1>4, <2>1, GoneOut
            DEF Promise!SayInVain, Outcomes, Stages
  <1> QED BY <1>5, <1>6

LEMMA OtherFaultPromised ==
  ASSUME PInv, (\E s \in Sessions : CreationFault(s))
               \/ \E d \in Deliveries : DeliveryFault(d)
  PROVE  Promise!Fault
  <1>1. /\ UNCHANGED <<Outcomes, code, turn, sent, outbound, inbound,
                       analysed, optedOut>>
        /\ faults' = faults + 1
    BY OutcomeReads DEF CreationFault, DeliveryFault, rows, OthersOfRun,
       OthersOfDelivery
  <1>2. Stages' = Stages
    <2>1. ASSUME NEW s \in Sessions, CreationFault(s)
          PROVE  Stages' = Stages
      <3>1. Others(s) /\ run'[s] = Stopped("none")
        BY <2>1 DEF PInv, IInv, TypeOK, CreationFault, Stop, Others
      <3>2. run'[s].pc = "none" /\ run[s].pc \in {"counting", "adding"}
        BY <2>1, <3>1 DEF Stopped, NoRun, CreationFault, Lost
      <3>3. PlaceStage(run'[s].pc) = "open" /\ PlaceStage(run[s].pc) = "open"
        BY <3>2, StageReads
      <3> QED BY <3>1, <3>3, StageMoves
    <2>2. (\E d \in Deliveries : DeliveryFault(d)) => Stages' = Stages
      BY StageReads DEF DeliveryFault
    <2> QED BY <2>1, <2>2
  <1>3. \A t \in Sessions : Stage(t)' = Stage(t)
    BY <1>2 DEF Stages
  <1> QED BY <1>1, <1>3, FaultRead

LEMMA CrashPromised ==
  ASSUME PInv, Crash
  PROVE  Promise!Fault
  <1>1. /\ UNCHANGED <<Outcomes, code, turn, sent, outbound, inbound,
                       analysed, optedOut>>
        /\ faults' = faults + 1
    BY OutcomeReads DEF Crash, rows
  <1>2. ASSUME NEW s \in Sessions
        PROVE  \/ Stage(s)' = Stage(s)
               \/ Stage(s) # "over" /\ Stage(s)' = "over"
               \/ Stage(s) = "spoke" /\ Stage(s)' = "open"
    <2>1. CASE run'[s] = run[s]
      BY <2>1 DEF Stage, At
    <2>2. CASE run'[s] # run[s]
      <3>1. /\ run[s].pc \in Lost \cup Working
            /\ \/ run'[s] = NoRun
               \/ run'[s] = Stopped("dead")
               \/ \E n \in Nat : run'[s] = Again(n) /\ n < MaxAttempts
        BY <2>2, AfterCrash, Bounds DEF PInv, IInv, SessionsOK, SessionOK
      <3>2. Stage(s) \in {"open", "spoke"}
        BY <3>1, StageReads DEF Lost, Working, PlaceStage
      <3>3. run'[s].pc \in {"none", "dead", "queued"}
        <4>1. \A n \in Nat : Again(n).pc = "queued"
          BY DEF Again, NoRun
        <4>2. NoRun.pc = "none" /\ Stopped("dead").pc = "dead"
          BY DEF Stopped, NoRun
        <4> QED BY <3>1, <4>1, <4>2
      <3>4. Stage(s)' \in {"open", "over"}
        BY <3>3 DEF Stage, At
      <3> QED BY <3>2, <3>4
    <2> QED BY <2>1, <2>2
  <1> QED BY <1>1, <1>2, FaultRead

-----------------------------------------------------------------------------
(* The operator and the tick.                                              *)

LEMMA CreationPromised ==
  ASSUME PInv, NEW s \in Sessions,
         CreateSession(s) \/ TickCreate(s) \/ \E c \in Calls : CallClone(c, s)
  PROVE  Promise!Open(s)
  <1>t. TypeOK /\ RunOK(s)
    BY DEF PInv, IInv, SessionsOK, SessionOK
  <1>1. PICK pc \in {"adding", "none", "counting"} : NewSession(s, pc)
    BY DEF CreateSession, TickCreate, CallClone
  <1>2. UNCHANGED <<code, turn, sent, outbound, inbound, analysed, optedOut,
                    faults>>
    BY <1>1 DEF NewSession
  <1>3. Outcomes[s] = "absent" /\ Promise!Become(s, "open")
    <2>1. status[s] = "absent" /\ status' = [status EXCEPT ![s] = "queued"]
      BY <1>1 DEF NewSession, IsNext
    <2>2. Promise!Become(s, OutcomeOf("queued"))
      BY <1>t, <2>1, OutcomeMoves
    <2> QED BY <2>1, <2>2, OutcomeReads, Reading
  <1>4. Stages' = Stages
    <2>1. run[s].pc = "none"
      BY <1>t, <1>1 DEF NewSession, IsNext, RunOK, NoRun
    <2>2. Others(s) /\ run'[s].pc = pc
      BY <1>t, <1>1 DEF TypeOK, RunStates, NewSession, Others
    <2>3. PlaceStage(run'[s].pc) = "open" /\ PlaceStage(run[s].pc) = "open"
      BY <2>1, <2>2, StageReads
    <2> QED BY <2>2, <2>3, StageMoves
  <1> QED BY <1>2, <1>3, <1>4
          DEF Promise!Open, Promise!script, Outcomes, Stages

(* The job of a session, and what others only look at.                     *)
LEMMA AsidePromised ==
  ASSUME PInv,
         \/ UNCHANGED vars \/ TickLook
         \/ \E s \in Sessions : CountRetry(s) \/ AddJob(s)
         \/ \E s \in Sessions, i \in 1..N+1 : BufferExpires(s, i)
         \/ \E d \in Deliveries : Arrive(d) \/ Seek(d) \/ SetBuffer(d)
         \/ \E c \in Calls : CallRead(c) \/ CallCheck(c)
  PROVE  Still
  <1>1. UNCHANGED <<status, code, turn, sent, outbound, inbound, analysed,
                    optedOut, faults>>
    BY DEF vars, rows, TickLook, CountRetry, AddJob, BufferExpires, Arrive,
       Seek, SetBuffer, OthersOfDelivery, CallRead, CallCheck, OthersOfCall
  <1>2. ASSUME NEW s \in Sessions, CountRetry(s) \/ AddJob(s)
        PROVE  Stages' = Stages
    <2>1. /\ Others(s) /\ run'[s].pc \in {"adding", "queued"}
          /\ run[s].pc \in {"counting", "adding"}
      BY <1>2 DEF PInv, IInv, TypeOK, RunStates, CountRetry, AddJob, Others, At
    <2>2. PlaceStage(run'[s].pc) = "open" /\ PlaceStage(run[s].pc) = "open"
      BY <2>1, StageReads
    <2> QED BY <2>1, <2>2, StageMoves
  <1>3. run' = run \/ \E s \in Sessions : CountRetry(s) \/ AddJob(s)
    BY DEF vars, TickLook, BufferExpires, Arrive, Seek, SetBuffer,
       CallRead, CallCheck
  <1> QED BY <1>1, <1>2, <1>3, StageReads, OutcomeReads DEF Still

LEMMA CallPromised ==
  ASSUME PInv, NEW c \in Calls, CallStore(c)
  PROVE  \E s \in Sessions : Promise!Abort(s) \/ Promise!Reopen(s)
  <1> DEFINE s  == request[c].session
             op == request[c].op
  <1>t. TypeOK /\ s \in Sessions /\ op \in Ops /\ op # "retry"
        /\ status[s] # "absent"
    <2>1. TypeOK /\ CallOK(c)
      BY DEF PInv, IInv, ReadsOK
    <2> QED BY <2>1 DEF TypeOK, CallOK, CallStore
  <1>1. /\ UNCHANGED <<turn, sent, outbound, inbound, analysed, optedOut,
                       faults>>
        /\ run' = run /\ Stages' = Stages
    BY StageReads DEF CallStore, OthersOfCall
  <1>2. Outcomes[s] # "absent"
    BY <1>t, OutcomeReads, Reading
  <1>3. CASE op \in {"pause", "resume"}
    <2>1. PICK new \in {"paused", "queued"} :
            status' = [status EXCEPT ![s] = new]
      BY <1>3 DEF CallStore
    <2>2. Promise!Become(s, "open") /\ code' = code
      <3>1. Promise!Become(s, OutcomeOf(new))
        BY <1>t, <2>1, OutcomeMoves
      <3>2. OutcomeOf(new) = "open"
        BY <2>1, OutcomeReads
      <3>3. code' = code
        BY <1>3 DEF CallStore
      <3> QED BY <3>1, <3>2, <3>3
    <2>3. Promise!Reopen(s)
      BY <1>1, <1>2, <2>2
         DEF Promise!Reopen, Promise!script, Outcomes, Stages
    <2> QED BY <1>t, <2>3
  <1>4. CASE op \notin {"pause", "resume"}
    <2>1. status' = [status EXCEPT ![s] = "aborted"]
      BY <1>4 DEF CallStore
    <2>2. Promise!Become(s, "aborted")
      BY <1>t, <2>1, OutcomeMoves, OutcomeReads DEF Terminal
    <2>3. Promise!Because(s, "MANUAL_ABORT")
      BY <1>t, <1>4 DEF CallStore, Ops, Promise!Because
    <2>4. Promise!Abort(s)
      BY <1>1, <1>2, <2>2, <2>3
         DEF Promise!Abort, Promise!script, Outcomes, Stages
    <2> QED BY <1>t, <2>4
  <1> QED BY <1>3, <1>4

-----------------------------------------------------------------------------
(* The webhook.                                                            *)

LEMMA OptOutPromised ==
  ASSUME PInv, NEW d \in Deliveries, OptOut(d)
  PROVE  \E s \in Sessions : Promise!Abort(s)
  <1> DEFINE s == delivery[d].session
  <1>1. TypeOK /\ s \in Sessions /\ status[s] # "absent"
    <2>1. TypeOK /\ DeliveryOK(d) /\ SeekOK(d)
      BY DEF PInv, IInv, ReadsOK, DeliveriesOK
    <2> QED BY <2>1 DEF OptOut, DeliveryOK, SeekOK, Reached, InDelivery
  <1>2. /\ UNCHANGED <<turn, sent, outbound, inbound, analysed, faults>>
        /\ Stages' = Stages
    BY StageReads DEF OptOut, OthersOfDelivery
  <1>3. Promise!Become(s, "aborted") /\ Outcomes[s] # "absent"
    <2>1. Promise!Become(s, OutcomeOf("aborted"))
      BY <1>1, OutcomeMoves DEF OptOut
    <2> QED BY <1>1, <2>1, OutcomeReads, Reading DEF Terminal
  <1>4. optedOut' = TRUE /\ Promise!Because(s, "OPT_OUT_DETECTED")
    BY DEF OptOut, Promise!Because
  <1>5. Promise!Abort(s)
    BY <1>2, <1>3, <1>4 DEF Promise!Abort, Promise!script, Outcomes, Stages
  <1> QED BY <1>1, <1>5

(* An answer that gets its row falls on the turn under way: the earlier    *)
(* ones have theirs.                                                       *)
LEMMA PersistPromised ==
  ASSUME PInv, NEW d \in Deliveries, Persist(d)
  PROVE  \/ Still
         \/ \E s \in Sessions :
              Promise!Hear(s) /\ Promise!script' # Promise!script
  <1> DEFINE s == delivery[d].session
             i == delivery[d].turn
  <1>1. /\ TypeOK /\ s \in Sessions /\ status[s] # "absent"
        /\ i <= turn[s] + 1 /\ i \in 1..N+1 /\ Whole(s)
    <2>1. TypeOK /\ DeliveryOK(d) /\ SeekOK(d) /\ SessionsOK
      BY DEF PInv, IInv, ReadsOK, DeliveriesOK
    <2> QED BY <2>1 DEF Persist, DeliveryOK, SeekOK, Reached, InDelivery,
                        SessionsOK, SessionOK
  <1>t. /\ turn[s] \in Nat
        /\ inbound \in [Sessions -> [1..N+1 -> {"none", "reply", "timeout"}]]
    <2>1. turn[s] \in 0..N
      BY <1>1 DEF TypeOK
    <2> QED BY <1>1, <2>1, Bounds DEF TypeOK
  <1>2. UNCHANGED <<Outcomes, code, turn, sent, outbound, Stages, analysed,
                    optedOut, faults>>
    BY StageReads, OutcomeReads DEF Persist, OthersOfDelivery
  <1>3. CASE inbound' = inbound
    BY <1>2, <1>3 DEF Still
  <1>4. CASE /\ inbound[s][i] = "none"
             /\ inbound' = [inbound EXCEPT ![s][i] = "reply"]
    <2>1. i = turn[s] + 1
      <3>1. ~(i \in 1..turn[s])
        BY <1>1, <1>4 DEF Whole
      <3> QED BY <1>1, <1>t, <3>1, Bounds
    <2>2. inbound' # inbound
      <3>1. inbound'[s] = [inbound[s] EXCEPT ![i] = "reply"]
        BY <1>1, <1>t, <1>4
      <3>2. inbound'[s][i] = "reply"
        BY <1>1, <1>t, <3>1
      <3> QED BY <1>4, <3>2
    <2>3. Promise!Now(s) = i /\ ~Promise!Come(s) /\ Outcomes[s] # "absent"
      BY <1>1, <1>4, <2>1, Reading, OutcomeReads
    <2>4. Promise!Hear(s) /\ Promise!script' # Promise!script
      BY <1>2, <1>4, <2>2, <2>3, ScriptMoves
         DEF Promise!Hear, Outcomes, Stages
    <2> QED BY <1>1, <2>4
  <1> QED BY <1>3, <1>4 DEF Persist

LEMMA PublishPromised ==
  ASSUME PInv, NEW d \in Deliveries, Publish(d)
  PROVE  Still \/ \E s \in Sessions : Promise!GiveUp(s)
  <1> DEFINE s == delivery[d].session
  <1>1. /\ TypeOK /\ RunType /\ s \in Sessions
        /\ InDelivery(d, "abort") => optedOut
    <2>1. TypeOK /\ DeliveryOK(d) /\ SeekOK(d) /\ RunType
      BY TypeParts DEF PInv, IInv, ReadsOK, DeliveriesOK
    <2> QED BY <2>1 DEF Publish, DeliveryOK, SeekOK, Reached, InDelivery
  <1>2. UNCHANGED <<Outcomes, code, turn, sent, outbound, inbound, analysed,
                    optedOut, faults>>
    BY OutcomeReads DEF Publish, OthersOfDelivery
  <1>3. CASE run' = run
    BY <1>2, <1>3, StageReads DEF Still
  <1>4. CASE At(s, "waiting") /\ InDelivery(d, "abort") /\ Stop(s, "done")
    <2>1. Others(s) /\ run'[s].pc = "done"
      BY <1>1, <1>4, RunWrites DEF Stopped, NoRun, Idle
    <2>2. Promise!Pass(s, "over")
      BY <1>1, <2>1, StageMoves, StageReads
    <2>3. Stages[s] = "open"
      BY <1>1, <1>4, StageReads, Reading DEF At
    <2>4. Promise!GiveUp(s)
      BY <1>1, <1>2, <1>4, <2>2, <2>3
         DEF Promise!GiveUp, Promise!script, Outcomes, Stages
    <2> QED BY <1>1, <2>4
  <1>5. CASE At(s, "waiting") /\ Enter(s, "advance")
    <2>1. Others(s) /\ run'[s].pc = "check"
      BY <1>1, <1>5, RunWrites DEF Sites
    <2>2. PlaceStage(run'[s].pc) = "open" /\ PlaceStage(run[s].pc) = "open"
      BY <1>5, <2>1, StageReads DEF At
    <2>3. Stages' = Stages
      BY <1>1, <2>1, <2>2, StageMoves
    <2> QED BY <1>2, <2>3 DEF Still
  <1> QED BY <1>3, <1>4, <1>5 DEF Publish

-----------------------------------------------------------------------------
LEMMA PromiseInit == Init => Promise!Init
  <1> SUFFICES ASSUME Init PROVE Promise!Init
    OBVIOUS
  <1>1. Outcomes = [s \in Sessions |-> "absent"]
    BY DEF Init, Outcomes, Outcome, Terminal
  <1>2. Stages = [s \in Sessions |-> "open"]
    BY DEF Init, Stages, Stage, At, NoRun
  <1> QED BY <1>1, <1>2 DEF Init, Promise!Init, Outcomes, Stages, Turns

LEMMA PromiseStep ==
  ASSUME PInv, [Next]_vars
  PROVE  [Promise!Next]_Promise!vars
  <1>1. ASSUME NEW s \in Sessions, RunStep(s)
        PROVE  Still \/ Promise!Next
    BY <1>1, GoesOnPromised, StartPromised, StorePromised, SendPromised,
       RecordPromised, TimeoutPromised, FailedPromised, BumpPromised,
       EndPromised DEF RunStep, Promise!Next
  <1>2. ASSUME NEW s \in Sessions, RunTrouble(s) \/ CreationFault(s)
        PROVE  Promise!Next
    BY <1>2, RunFaultPromised, TroublePromised, OtherFaultPromised
       DEF RunTrouble, Promise!Next
  <1>3. ASSUME NEW s \in Sessions,
               CreateSession(s) \/ TickCreate(s)
               \/ \E c \in Calls : CallClone(c, s)
        PROVE  Promise!Next
    BY <1>3, CreationPromised DEF Promise!Next
  <1>4. ASSUME NEW d \in Deliveries, OptOut(d) \/ Persist(d) \/ Publish(d)
                                     \/ DeliveryFault(d)
        PROVE  Still \/ Promise!Next
    BY <1>4, OptOutPromised, PersistPromised, PublishPromised,
       OtherFaultPromised DEF Promise!Next
  <1>5. ASSUME NEW c \in Calls, CallStore(c)
        PROVE  Promise!Next
    BY <1>5, CallPromised DEF Promise!Next
  <1>6. ASSUME Crash
        PROVE  Promise!Next
    BY <1>6, CrashPromised DEF Promise!Next
  <1>7. ASSUME \/ UNCHANGED vars \/ TickLook
               \/ \E s \in Sessions : CountRetry(s) \/ AddJob(s)
               \/ \E s \in Sessions, i \in 1..N+1 : BufferExpires(s, i)
               \/ \E d \in Deliveries : Arrive(d) \/ Seek(d) \/ SetBuffer(d)
               \/ \E c \in Calls : CallRead(c) \/ CallCheck(c)
        PROVE  Still
    BY <1>7, AsidePromised
  <1>8. Still \/ Promise!Next
    BY <1>1, <1>2, <1>3, <1>4, <1>5, <1>6, <1>7 DEF Next, DeliveryStep
  <1> QED BY <1>8, StillStutters

(* However many sessions, turns, messages, calls, retries, failures and    *)
(* crashes there are, the conversations keep their promise: turn by turn,  *)
(* nothing taken back, no end without its reason, and nothing said when a  *)
(* run is over (the runner, handleInbound, the routes and the tick).       *)
THEOREM ProbePromiseKept == Spec => KeepsPromise
  BY PInvariance, PromiseInit, PromiseStep, PTL
     DEF Spec, KeepsPromise, Promise!Spec
=============================================================================
