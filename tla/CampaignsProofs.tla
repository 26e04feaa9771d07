-------------------------- MODULE CampaignsProofs --------------------------
(***************************************************************************)
(* The safety of campaigns for any number of campaigns, contacts, rows,    *)
(* runs, requests and messages, any batch size, any number of attempts and *)
(* of faults.                                                              *)
(*                                                                         *)
(* The argument: a run carries enough to justify what it will write (the   *)
(* row it holds is out of its todo, its message has gone out when the run  *)
(* is about to say so, and no more often than it was tried), a request or  *)
(* a check in flight only holds a send that exists, or whose message went  *)
(* out, and no run of an unstopped campaign has an overrun, so that a      *)
(* batch of rows is all that a stopped one can add.                        *)
(* The last part is the refinement of CampaignPromise.                     *)
(***************************************************************************)
EXTENDS Campaigns, FiniteSetTheorems, TLAPS

Holding == {"create", "deliver", "sent", "failed"}
Walking == Holding \cup {"loop", "done"}

(* What a run has done of its audience.                                    *)
Done(r, w) ==
  \/ send[r][w] \notin {"absent", "queued"}
  \/ run[r].pc \in Holding /\ run[r].at = w

Progress(r) ==
  /\ run[r].pc # "idle" => run[r].campaign \in Campaigns
  /\ run[r].pc \in Holding => run[r].at \in Rows
  /\ run[r].pc = "done" => run[r].todo = {}
  /\ run[r].pc \in Walking =>
       \A w \in Rows \ run[r].todo : Reachable(r, w) => Done(r, w)

ProgressOK == \A r \in Runs : Progress(r)

(* The books of a run agree with its place: nothing is written before the  *)
(* audience is known, nor for a row still to come or that has no contact,  *)
(* and the send of the row in hand is there from its creation on.          *)
Listing(r, w) == Contact(r, w) \in Contacts
Books(r) ==
  /\ run[r].pc \in {"idle", "resolve"} =>
       messaged[r] = {} /\ \A w \in Rows : send[r][w] = "absent"
  /\ \A w \in run[r].todo :
       send[r][w] = "absent" /\ w \notin messaged[r] /\ Listing(r, w)
  /\ \A w \in Rows : send[r][w] # "absent" => Listing(r, w)
  /\ \A w \in messaged[r] : send[r][w] # "absent"
  /\ run[r].pc \in Holding =>
       run[r].at \notin run[r].todo /\ Listing(r, run[r].at)
  /\ run[r].pc = "create" => send[r][run[r].at] = "absent"
  /\ run[r].pc \in {"deliver", "sent", "failed"} =>
       send[r][run[r].at] # "absent"
BooksOK == \A r \in Runs : Books(r)

(* The attempts of a run: a message goes out at most once more than it was *)
(* missed.                                                                 *)
Trials(r) ==
  /\ run[r].pc \notin {"deliver", "sent", "failed"} =>
       run[r].tries = 0 /\ copies[r] = 0
  /\ run[r].pc = "deliver" =>
       run[r].tries < MaxTries /\ copies[r] <= run[r].tries
TrialsOK == \A r \in Runs : Trials(r)

(* How far a run can be beyond a stop.                                     *)
Limited(r) ==
  /\ run[r].sinceCheck <= Batch
  /\ Cardinality(overrun[r]) <= run[r].sinceCheck
  /\ run[r].pc \in {"create", "deliver"} =>
       /\ run[r].sinceCheck >= 1
       /\ run[r].at \notin overrun[r] =>
            Cardinality(overrun[r]) + 1 <= run[r].sinceCheck
  /\ run[r].pc = "idle" => overrun[r] = {}
  /\ run[r].campaign \in Campaigns /\ status[run[r].campaign] \notin Stopped
       => overrun[r] = {}

OverrunOK == \A r \in Runs : Limited(r)

(* Whoever is about to write an outcome knows of a message that went out,  *)
(* or at least of a send that exists.                                      *)
WitnessOK ==
  /\ \A r \in Runs : run[r].pc = "sent" => run[r].at \in messaged[r]
  /\ \A m \in Marks :
       mark[m].pc = "write" =>
         /\ mark[m].op \in MarkOps
         /\ mark[m].run \in Runs /\ mark[m].row \in Rows
         /\ mark[m].op = "delivered" => mark[m].row \in messaged[mark[m].run]
  /\ \A m \in Messages, p \in Paths :
       track[m][p].pc = "mark" =>
         /\ track[m][p].run \in Runs /\ track[m][p].row \in Rows
         /\ track[m][p].row \in messaged[track[m][p].run]
MarksOK == \A m \in Marks :
  mark[m].pc = "write" => send[mark[m].run][mark[m].row] # "absent"

IInv == /\ TypeOK /\ ProgressOK /\ BooksOK /\ TrialsOK /\ OverrunOK
        /\ CompletedIsServed /\ WitnessOK /\ MarksOK /\ MetricsAreReal

-----------------------------------------------------------------------------
(* The initial states satisfy the invariant.                               *)
LEMMA InitIInv == Init => IInv
  <1> SUFFICES ASSUME Init PROVE IInv
    OBVIOUS
  <1> USE CampaignConstants DEF Init
  <1>1. TypeOK
    BY DEF TypeOK, Statuses, SendStatuses, RunStates, RunPcs, CallStates,
           MarkStates, TrackStates, Audiences, NoAudience, NoTrack
  <1>2. ProgressOK /\ BooksOK /\ TrialsOK
    BY DEF ProgressOK, Progress, BooksOK, Books, TrialsOK, Trials, Holding,
           Walking
  <1>3. OverrunOK
    <2>1. Cardinality({}) = 0
      BY FS_EmptySet
    <2> QED
      BY <2>1 DEF OverrunOK, Limited
  <1>4. CompletedIsServed
    BY DEF CompletedIsServed
  <1>5. WitnessOK /\ MarksOK /\ MetricsAreReal
    BY DEF WitnessOK, MarksOK, MetricsAreReal, CountsAsSent, NoTrack
  <1> QED
    BY <1>1, <1>2, <1>3, <1>4, <1>5 DEF IInv

-----------------------------------------------------------------------------
(* Types.                                                                  *)

LEMMA RunRecords ==
  ASSUME NEW x \in RunStates
  PROVE  /\ \A pc \in RunPcs : [x EXCEPT !.pc = pc] \in RunStates
         /\ \A pc \in RunPcs : PutDown(x, pc) \in RunStates
         /\ \A k \in Campaigns :
              [x EXCEPT !.pc = "resolve", !.campaign = k] \in RunStates
         /\ \A a \in Audiences, d \in SUBSET Rows :
              [x EXCEPT !.pc = "loop", !.audience = a, !.todo = d]
                \in RunStates
         /\ \A pc \in RunPcs, n \in Nat :
              [x EXCEPT !.pc = pc, !.tries = n] \in RunStates
         /\ \A pc \in RunPcs, d \in SUBSET Rows, w \in Rows \cup {"none"},
               n \in Nat :
              [x EXCEPT !.pc = pc, !.todo = d, !.at = w, !.sinceCheck = n]
                \in RunStates
  <1>1. \A pc \in RunPcs : [x EXCEPT !.pc = pc] \in RunStates
    BY DEF RunStates
  <1>2. \A pc \in RunPcs : PutDown(x, pc) \in RunStates
    BY DEF RunStates, PutDown
  <1>3. \A k \in Campaigns :
          [x EXCEPT !.pc = "resolve", !.campaign = k] \in RunStates
    BY DEF RunStates, RunPcs
  <1>4. \A a \in Audiences, d \in SUBSET Rows :
          [x EXCEPT !.pc = "loop", !.audience = a, !.todo = d] \in RunStates
    BY DEF RunStates, RunPcs
  <1>5. \A pc \in RunPcs, n \in Nat :
          [x EXCEPT !.pc = pc, !.tries = n] \in RunStates
    BY DEF RunStates
  <1>6. \A pc \in RunPcs, d \in SUBSET Rows, w \in Rows \cup {"none"},
           n \in Nat :
          [x EXCEPT !.pc = pc, !.todo = d, !.at = w, !.sinceCheck = n]
            \in RunStates
    BY DEF RunStates
  <1> QED
    BY <1>1, <1>2, <1>3, <1>4, <1>5, <1>6

(* The steps of a run preserve the types.                                  *)
LEMMA RunTypeStep ==
  ASSUME IInv, NEW r \in Runs, RunStep(r)
  PROVE  TypeOK'
  <1> USE DEF TypeOK, sends, tracker, history, SetRun, Fault
  <1>0. TypeOK /\ run[r] \in RunStates
    BY DEF IInv
  <1>1. /\ status \in [Campaigns -> Statuses]
        /\ overrun \in [Runs -> SUBSET Rows] /\ copies \in [Runs -> Nat]
        /\ faults \in Nat /\ send \in [Runs -> [Rows -> SendStatuses]]
    BY <1>0
  <1>2. CASE RunStart(r)
    <2>1. PICK k \in Campaigns :
            run' = [run EXCEPT ![r] =
              [run[r] EXCEPT !.pc = "resolve", !.campaign = k]]
      BY <1>2 DEF RunStart
    <2>2. run' \in [Runs -> RunStates]
      BY <1>0, <2>1, RunRecords
    <2> QED
      BY <1>0, <1>2, <2>2 DEF RunStart
  <1>3. CASE RunResolve(r)
    <2>1. PICK a \in Audiences :
            run' = [run EXCEPT ![r] =
              [run[r] EXCEPT !.pc = "loop", !.audience = a, !.todo = Listed(a)]]
      BY <1>3 DEF RunResolve
    <2>2. Listed(a) \in SUBSET Rows
      BY DEF Listed
    <2>3. run' \in [Runs -> RunStates]
      BY <1>0, <2>1, <2>2, RunRecords
    <2> QED
      BY <1>0, <1>3, <2>3 DEF RunResolve
  <1>4. CASE RunBreak(r)
    BY <1>0, <1>4, RunRecords DEF RunBreak, RunPcs
  <1>5. CASE RunNext(r)
    <2> PICK w \in run[r].todo :
          run' = [run EXCEPT ![r] = [run[r] EXCEPT
            !.pc = IF Contact(r, w) \in Unreachable THEN "loop" ELSE "create",
            !.todo = @ \ {w},
            !.at = IF Contact(r, w) \in Unreachable THEN "none" ELSE w,
            !.sinceCheck = IF CheckDue(r) THEN 1 ELSE @ + 1]]
      BY <1>5 DEF RunNext
    <2>1. /\ run[r].todo \ {w} \in SUBSET Rows /\ w \in Rows
          /\ run[r].sinceCheck \in Nat
      BY <1>0 DEF RunStates
    <2>2. (IF CheckDue(r) THEN 1 ELSE run[r].sinceCheck + 1) \in Nat
      BY <2>1
    <2>3. /\ (IF Contact(r, w) \in Unreachable THEN "loop" ELSE "create")
               \in RunPcs
          /\ (IF Contact(r, w) \in Unreachable THEN "none" ELSE w)
               \in Rows \cup {"none"}
      BY <2>1 DEF RunPcs
    <2>4. run' \in [Runs -> RunStates]
      BY <1>0, <2>1, <2>2, <2>3, RunRecords
    <2> QED
      BY <1>0, <1>5, <2>4 DEF RunNext
  <1>6. CASE RunCreateSend(r)
    <2>1. send' \in [Runs -> [Rows -> SendStatuses]]
      BY <1>1, <1>6 DEF RunCreateSend, SendStatuses
    <2> QED
      BY <1>0, <1>6, <2>1, RunRecords DEF RunCreateSend, RunPcs
  <1>7. ASSUME run[r].pc = "deliver", GoesOut(r) \/ UNCHANGED history
        PROVE  /\ messaged' \in [Runs -> SUBSET Rows]
               /\ overrun' \in [Runs -> SUBSET Rows]
               /\ copies' \in [Runs -> Nat]
    <2>1. run[r].at \in Rows
      BY <1>7 DEF IInv, ProgressOK, Progress, Holding
    <2>2. messaged \in [Runs -> SUBSET Rows]
      BY <1>0
    <2>3. \/ copies' = copies /\ messaged' = messaged /\ overrun' = overrun
          \/ /\ copies' = [copies EXCEPT ![r] = copies[r] + 1]
             /\ messaged' = [messaged EXCEPT ![r] = @ \cup {run[r].at}]
             /\ overrun' = overrun
                \/ overrun' = [overrun EXCEPT ![r] = @ \cup {run[r].at}]
      BY <1>1, <1>7 DEF GoesOut
    <2>4. copies[r] + 1 \in Nat
      BY <1>1
    <2>5. messaged' \in [Runs -> SUBSET Rows]
      BY <2>1, <2>2, <2>3
    <2>6. overrun' \in [Runs -> SUBSET Rows]
      BY <1>1, <2>1, <2>3
    <2>7. copies' \in [Runs -> Nat]
      BY <1>1, <2>3, <2>4
    <2> QED
      BY <2>5, <2>6, <2>7
  <1>8. CASE RunDeliver(r) \/ RunUnsendable(r) \/ RunMiss(r)
    <2>1. run[r].tries + 1 \in Nat
      BY <1>0 DEF RunStates
    <2>2. \E pc \in RunPcs, n \in Nat :
            \/ run' = [run EXCEPT ![r] = [run[r] EXCEPT !.pc = pc]]
            \/ run' = [run EXCEPT ![r] =
                         [run[r] EXCEPT !.pc = pc, !.tries = n]]
      BY <1>8, <2>1, Zenon DEF RunDeliver, RunUnsendable, RunMiss, RunPcs
    <2>3. run' \in [Runs -> RunStates]
      <3>1. \A pc \in RunPcs, n \in Nat :
              /\ [run[r] EXCEPT !.pc = pc] \in RunStates
              /\ [run[r] EXCEPT !.pc = pc, !.tries = n] \in RunStates
        BY <1>0, RunRecords
      <3>2. PICK s \in RunStates : run' = [run EXCEPT ![r] = s]
        BY <2>2, <3>1, Zenon
      <3> QED
        BY <1>0, <3>2
    <2>4. /\ run[r].pc = "deliver" /\ (GoesOut(r) \/ UNCHANGED history)
          /\ UNCHANGED <<status, send, reply, optedOut, call, mark, from, track,
                         faults>>
      BY <1>8 DEF RunDeliver, RunUnsendable, RunMiss
    <2> QED
      BY <1>0, <1>7, <2>3, <2>4
  <1>9. CASE RunRecord(r)
    <2>1. send' \in [Runs -> [Rows -> SendStatuses]]
      BY <1>1, <1>9 DEF RunRecord, SendStatuses
    <2>2. copies' \in [Runs -> Nat]
      BY <1>1, <1>9 DEF RunRecord
    <2> QED
      BY <1>0, <1>9, <2>1, <2>2, RunRecords DEF RunRecord, RunPcs
  <1>10. CASE RunRecordFails(r)
    <2>1. faults' \in Nat
      BY <1>1, <1>10 DEF RunRecordFails
    <2> QED
      BY <1>0, <1>10, <2>1, RunRecords DEF RunRecordFails, RunPcs
  <1>11. CASE RunComplete(r)
    <2>1. /\ status' \in [Campaigns -> Statuses]
          /\ overrun' \in [Runs -> SUBSET Rows]
      BY <1>1, <1>11 DEF RunComplete, SetStatus, Statuses
    <2> QED
      BY <1>0, <1>11, <2>1, RunRecords DEF RunComplete, RunPcs
  <1>12. CASE RunAborts(r)
    <2>1. faults' \in Nat
      BY <1>1, <1>12 DEF RunAborts
    <2>2. copies' \in [Runs -> Nat]
      BY <1>1, <1>12 DEF RunAborts
    <2> QED
      BY <1>0, <1>12, <2>1, <2>2, RunRecords DEF RunAborts, RunPcs
  <1> QED
    BY <1>2, <1>3, <1>4, <1>5, <1>6, <1>8, <1>9, <1>10, <1>11, <1>12
    DEF RunStep

(* Every step preserves the types.                                         *)
LEMMA TypeStep ==
  ASSUME IInv, [Next]_vars
  PROVE  TypeOK'
  <1> USE DEF TypeOK, sends, tracker, history, Fault
  <1>0. TypeOK /\ WitnessOK /\ MarksOK /\ BooksOK
    BY DEF IInv
  <1>1. ASSUME NEW c \in Calls, CallRead(c) PROVE TypeOK'
    <2>1. PICK s \in CallStates : call' = [call EXCEPT ![c] = s]
      BY <1>1 DEF CallRead, CallStates
    <2> QED
      BY <1>0, <1>1, <2>1 DEF CallRead
  <1>2. ASSUME NEW c \in Calls, CallWrite(c) PROVE TypeOK'
    <2>1. StatusAfter(call[c].op) \in Statuses
      BY DEF StatusAfter, Statuses
    <2>2. /\ status' \in [Campaigns -> Statuses]
          /\ overrun' \in [Runs -> SUBSET Rows]
      BY <1>0, <1>2, <2>1 DEF CallWrite, SetStatus
    <2>3. call' \in [Calls -> CallStates]
      <3>1. call[c] \in CallStates
        BY <1>0
      <3>2. [call[c] EXCEPT !.pc = "done"] \in CallStates
        BY <3>1 DEF CallStates
      <3>3. call' = [call EXCEPT ![c] = [call[c] EXCEPT !.pc = "done"]]
        BY <1>2 DEF CallWrite
      <3> QED
        BY <1>0, <3>2, <3>3
    <2> QED
      BY <1>0, <1>2, <2>2, <2>3 DEF CallWrite
  <1>3. ASSUME NEW r \in Runs, RunStep(r) PROVE TypeOK'
    BY <1>3, RunTypeStep
  <1>4. ASSUME NEW m \in Marks, MarkRead(m) PROVE TypeOK'
    <2>1. PICK s \in MarkStates : mark' = [mark EXCEPT ![m] = s]
      BY <1>4 DEF MarkRead, MarkStates
    <2> QED
      BY <1>0, <1>4, <2>1 DEF MarkRead
  <1>5. ASSUME NEW m \in Marks, MarkWrite(m) PROVE TypeOK'
    <2>1. /\ mark[m].op \in SendStatuses /\ mark[m].run \in Runs
          /\ mark[m].row \in Rows
          /\ Contact(mark[m].run, mark[m].row) \in Contacts
      BY <1>0, <1>5 DEF MarkWrite, WitnessOK, MarksOK, MarkOps, SendStatuses,
                        BooksOK, Books, Listing
    <2>2. send' \in [Runs -> [Rows -> SendStatuses]]
      BY <1>0, <1>5, <2>1 DEF MarkWrite
    <2>3. optedOut' \in SUBSET Contacts
      BY <1>0, <1>5, <2>1 DEF MarkWrite
    <2>4. mark' \in [Marks -> MarkStates]
      <3>1. mark[m] \in MarkStates
        BY <1>0
      <3>2. [mark[m] EXCEPT !.pc = "done"] \in MarkStates
        BY <3>1 DEF MarkStates
      <3>3. mark' = [mark EXCEPT ![m] = [mark[m] EXCEPT !.pc = "done"]]
        BY <1>5 DEF MarkWrite
      <3> QED
        BY <1>0, <3>2, <3>3
    <2> QED
      BY <1>0, <1>5, <2>2, <2>3, <2>4 DEF MarkWrite
  <1>6. ASSUME NEW m \in Messages, Inbound(m) PROVE TypeOK'
    <2>1. track' \in [Messages -> [Paths -> TrackStates]]
      <3>1. NoTrack("find") \in TrackStates
        BY DEF TrackStates, NoTrack
      <3> QED
        BY <1>0, <1>6, <3>1 DEF Inbound
    <2> QED
      BY <1>0, <1>6, <2>1 DEF Inbound
  <1>7. ASSUME NEW m \in Messages, NEW p \in Paths, TrackStep(m, p)
        PROVE TypeOK'
    <2>1. track[m][p] \in TrackStates
      BY <1>0
    <2>2. \A s \in TrackStates :
            SetTrack(m, p, s) => track' \in [Messages -> [Paths -> TrackStates]]
      BY <1>0 DEF SetTrack
    <2>3. NoTrack("done") \in TrackStates
      BY DEF TrackStates, NoTrack
    <2>4. CASE TrackFind(m, p)
      <3>1. \A r \in Runs : run[r].campaign \in Campaigns \cup {"none"}
        BY <1>0 DEF RunStates
      <3>2. \A r \in Runs :
              [track[m][p] EXCEPT !.pc = "refind", !.campaign = Campaign(r)]
                \in TrackStates
        BY <2>1, <3>1 DEF TrackStates, Campaign
      <3>3. track' \in [Messages -> [Paths -> TrackStates]]
        BY <2>2, <2>3, <2>4, <3>2 DEF TrackFind
      <3> QED
        BY <1>0, <2>4, <3>3 DEF TrackFind
    <2>5. CASE TrackRefind(m, p)
      <3>1. \A r \in Runs, w \in Rows :
              [track[m][p] EXCEPT !.pc = "mark", !.run = r, !.row = w]
                \in TrackStates
        BY <2>1 DEF TrackStates
      <3>2. track' \in [Messages -> [Paths -> TrackStates]]
        BY <2>2, <2>3, <2>5, <3>1 DEF TrackRefind
      <3> QED
        BY <1>0, <2>5, <3>2 DEF TrackRefind
    <2>6. CASE TrackMark(m, p)
      <3>1. track' \in [Messages -> [Paths -> TrackStates]]
        BY <2>2, <2>3, <2>6 DEF TrackMark
      <3>2. /\ track[m][p].run \in Runs /\ track[m][p].row \in Rows
            /\ send \in [Runs -> [Rows -> SendStatuses]]
            /\ reply \in [Runs -> [Rows -> Messages \cup {"none"}]]
        BY <1>0, <2>6 DEF TrackMark, WitnessOK
      <3>3. CASE HasNoReply(track[m][p].run, track[m][p].row)
        <4>1. /\ send' = [send EXCEPT ![track[m][p].run][track[m][p].row] = "replied"]
              /\ reply' = [reply EXCEPT ![track[m][p].run][track[m][p].row] = m]
          BY <2>6, <3>3 DEF TrackMark
        <4>2. send' \in [Runs -> [Rows -> SendStatuses]]
          BY <3>2, <4>1 DEF SendStatuses
        <4>3. reply' \in [Runs -> [Rows -> Messages \cup {"none"}]]
          BY <3>2, <4>1
        <4> QED
          BY <1>0, <2>6, <3>1, <4>2, <4>3 DEF TrackMark
      <3>4. CASE ~HasNoReply(track[m][p].run, track[m][p].row)
        BY <1>0, <2>6, <3>1, <3>4 DEF TrackMark
      <3> QED
        BY <3>3, <3>4
    <2>7. CASE TrackFails(m, p)
      <3>1. track' \in [Messages -> [Paths -> TrackStates]]
        BY <2>2, <2>3, <2>7 DEF TrackFails
      <3>2. faults' \in Nat
        BY <1>0, <2>7 DEF TrackFails
      <3> QED
        BY <1>0, <2>7, <3>1, <3>2 DEF TrackFails
    <2> QED
      BY <1>7, <2>4, <2>5, <2>6, <2>7 DEF TrackStep
  <1>8. CASE Crash
    <2>1. \A r \in Runs : PutDown(run[r], "aborted") \in RunStates
      BY <1>0, RunRecords DEF RunPcs
    <2>2. run' \in [Runs -> RunStates]
      BY <1>0, <1>8, <2>1 DEF Crash
    <2>3. call' \in [Calls -> CallStates]
      <3>1. \A c \in Calls : [call[c] EXCEPT !.pc = "done"] \in CallStates
        <4> TAKE c \in Calls
        <4>1. call[c] \in CallStates
          BY <1>0
        <4> QED
          BY <4>1 DEF CallStates
      <3> QED
        BY <1>0, <1>8, <3>1 DEF Crash
    <2>4. mark' \in [Marks -> MarkStates]
      <3>1. \A m \in Marks : [mark[m] EXCEPT !.pc = "done"] \in MarkStates
        <4> TAKE m \in Marks
        <4>1. mark[m] \in MarkStates
          BY <1>0
        <4> QED
          BY <4>1 DEF MarkStates
      <3> QED
        BY <1>0, <1>8, <3>1 DEF Crash
    <2>5. NoTrack("done") \in TrackStates
      BY DEF TrackStates, NoTrack
    <2>6. track' \in [Messages -> [Paths -> TrackStates]]
      <3>1. track' = [m \in Messages |-> [p \in Paths |->
                 IF track[m][p].pc = "idle" THEN track[m][p]
                 ELSE NoTrack("done")]]
        BY <1>8 DEF Crash
      <3>2. \A m \in Messages, p \in Paths : track[m][p] \in TrackStates
        BY <1>0
      <3> QED
        BY <2>5, <3>1, <3>2
    <2>7. faults' \in Nat /\ copies' \in [Runs -> Nat]
      BY <1>0, <1>8 DEF Crash
    <2> QED
      BY <1>0, <1>8, <2>2, <2>3, <2>4, <2>6, <2>7 DEF Crash
  <1>9. CASE UNCHANGED vars
    BY <1>0, <1>9 DEF vars
  <1> QED
    BY <1>1, <1>2, <1>3, <1>4, <1>5, <1>6, <1>7, <1>8, <1>9 DEF Next
-----------------------------------------------------------------------------
(* What a step may do to the runs and to the sends.                        *)

(* Only a run's own step changes it, except that a crash aborts it.        *)
LEMMA RunChanges ==
  ASSUME TypeOK, Next, NEW r \in Runs
  PROVE  \/ run'[r] = run[r]
         \/ RunStep(r)
         \/ /\ Crash /\ run[r].pc # "idle"
            /\ run'[r] = PutDown(run[r], "aborted")
  <1> USE DEF TypeOK
  <1>1. ASSUME NEW s \in Runs, RunStep(s), s # r
        PROVE  run'[r] = run[r]
    BY <1>1 DEF RunStep, RunStart, RunResolve, RunBreak, RunNext,
                RunCreateSend, RunDeliver, RunUnsendable, RunMiss, RunRecord,
                RunRecordFails, RunComplete, RunAborts, SetRun
  <1>2. CASE Crash
    BY <1>2 DEF Crash
  <1>3. ASSUME NEW c \in Calls, CallRead(c) \/ CallWrite(c)
        PROVE  run' = run
    BY <1>3 DEF CallRead, CallWrite
  <1>4. ASSUME NEW m \in Marks, MarkRead(m) \/ MarkWrite(m)
        PROVE  run' = run
    BY <1>4 DEF MarkRead, MarkWrite
  <1>5. ASSUME NEW m \in Messages,
               Inbound(m) \/ \E p \in Paths : TrackStep(m, p)
        PROVE  run' = run
    BY <1>5 DEF Inbound, TrackStep, TrackFind, TrackRefind, TrackMark,
                TrackFails
  <1> QED
    BY <1>1, <1>2, <1>3, <1>4, <1>5 DEF Next

(* Once an outcome is written, no step takes a send back to before it; and *)
(* only its own run creates a send or holds it queued.                     *)
LEMMA SendChanges ==
  ASSUME TypeOK, WitnessOK, Next, NEW r \in Runs, NEW w \in Rows
  PROVE  \/ send'[r][w] = send[r][w]
         \/ send'[r][w] \notin {"absent", "queued"}
         \/ RunCreateSend(r) /\ run[r].at = w
  <1> USE DEF TypeOK
  <1>1. ASSUME NEW s \in Runs, RunStep(s)
        PROVE  \/ send' = send
               \/ RunCreateSend(s)
                  /\ send' = [send EXCEPT ![s][run[s].at] = "queued"]
               \/ \E v \in {"sent", "failed"} :
                    send' = [send EXCEPT ![s][run[s].at] = v]
    BY <1>1 DEF RunStep, RunStart, RunResolve, RunBreak, RunNext,
                RunCreateSend, RunDeliver, RunUnsendable, RunMiss, RunRecord,
                RunRecordFails, RunComplete, RunAborts, sends
  <1>2. CASE Crash
    BY <1>2 DEF Crash, sends
  <1>3. ASSUME NEW k \in Calls, CallRead(k) \/ CallWrite(k)
        PROVE  send' = send
    BY <1>3 DEF CallRead, CallWrite, sends
  <1>4. ASSUME NEW m \in Marks, MarkRead(m) \/ MarkWrite(m)
        PROVE  \/ send' = send
               \/ \E v \in MarkOps :
                    send' = [send EXCEPT ![mark[m].run][mark[m].row] = v]
    BY <1>4 DEF MarkRead, MarkWrite, WitnessOK, sends
  <1>5. ASSUME NEW m \in Messages,
               Inbound(m) \/ \E p \in Paths : TrackStep(m, p)
        PROVE  \/ send' = send
               \/ \E p \in Paths : send' =
                    [send EXCEPT ![track[m][p].run][track[m][p].row] = "replied"]
    BY <1>5 DEF Inbound, TrackStep, TrackFind, TrackRefind, TrackMark,
                TrackFails, sends
  <1>6. ASSUME NEW s \in Runs,
               RunCreateSend(s), send' = [send EXCEPT ![s][run[s].at] = "queued"]
        PROVE  send'[r][w] = send[r][w] \/ (RunCreateSend(r) /\ run[r].at = w)
    BY <1>6
  <1>7. ASSUME NEW s, NEW d, NEW v \in {"sent", "failed", "delivered",
                                        "unsubscribed", "replied"},
               send' = [send EXCEPT ![s][d] = v]
        PROVE  send'[r][w] = send[r][w] \/ send'[r][w] = v
    BY <1>7
  <1>8. CASE \E s \in Runs : RunStep(s)
    BY <1>1, <1>6, <1>7, <1>8
  <1>9. CASE \E m \in Marks : MarkRead(m) \/ MarkWrite(m)
    BY <1>4, <1>7, <1>9 DEF MarkOps
  <1>10. CASE \E m \in Messages :
                Inbound(m) \/ \E p \in Paths : TrackStep(m, p)
    BY <1>5, <1>7, <1>10
  <1> QED
    BY <1>2, <1>3, <1>8, <1>9, <1>10 DEF Next
-----------------------------------------------------------------------------
(* What a run's own step does to its record.                               *)
LEMMA OwnRecord ==
  ASSUME IInv, NEW r \in Runs, NEW s, SetRun(r, s)
  PROVE  run'[r] = s
  BY DEF IInv, TypeOK, SetRun

(* A run's own progress.                                                   *)
LEMMA OwnProgress ==
  ASSUME IInv, NEW r \in Runs, RunStep(r)
  PROVE  Progress(r)'
  <1> DEFINE R == run[r]
             T == run'[r]
  <1>0. /\ R \in RunStates /\ R.todo \subseteq Rows
        /\ send \in [Runs -> [Rows -> SendStatuses]]
        /\ Progress(r)
    BY DEF IInv, TypeOK, ProgressOK, RunStates
  <1>1. \A s : SetRun(r, s) => T = s
    BY OwnRecord
  <1>2. CASE RunStart(r)
    <2>1. PICK k \in Campaigns : T = [R EXCEPT !.pc = "resolve", !.campaign = k]
      BY <1>1, <1>2 DEF RunStart
    <2>2. T.pc = "resolve" /\ T.campaign \in Campaigns
      BY <1>0, <2>1 DEF RunStates
    <2> QED
      BY <2>2 DEF Progress, Holding, Walking
  <1>3. CASE RunResolve(r)
    <2>1. PICK a \in Audiences :
            T = [R EXCEPT !.pc = "loop", !.audience = a, !.todo = Listed(a)]
      BY <1>1, <1>3 DEF RunResolve
    <2>2. /\ T.pc = "loop" /\ T.audience = a /\ T.todo = Listed(a)
          /\ T.campaign = R.campaign
      BY <1>0, <2>1 DEF RunStates
    <2>3. R.campaign \in Campaigns
      BY <1>0, <1>3 DEF RunResolve, Progress
    <2>4. \A w \in Rows \ Listed(a) : a[w] \notin Contacts
      BY CampaignConstants DEF Listed
    <2> QED
      BY <2>2, <2>3, <2>4 DEF Progress, Holding, Walking, Reachable, Contact
  <1>4. CASE RunBreak(r) \/ RunAborts(r)
    <2>1. /\ T.pc \in {"stopped", "aborted"} /\ T.campaign = R.campaign
          /\ R.pc # "idle"
      BY <1>0, <1>1, <1>4 DEF RunBreak, RunAborts, AtEnd, PutDown, RunStates
    <2> QED
      BY <1>0, <2>1 DEF Progress, Holding, Walking
  <1>5. CASE RunNext(r)
    <2>1. PICK w \in R.todo : T = [R EXCEPT
            !.pc = IF Contact(r, w) \in Unreachable THEN "loop" ELSE "create",
            !.todo = @ \ {w},
            !.at = IF Contact(r, w) \in Unreachable THEN "none" ELSE w,
            !.sinceCheck = IF CheckDue(r) THEN 1 ELSE @ + 1]
      BY <1>1, <1>5 DEF RunNext
    <2>2. /\ T.todo = R.todo \ {w} /\ T.audience = R.audience
          /\ T.campaign = R.campaign
          /\ Contact(r, w) \in Unreachable => T.pc = "loop"
          /\ Contact(r, w) \notin Unreachable => T.pc = "create" /\ T.at = w
      BY <1>0, <2>1 DEF RunStates
    <2>3. send' = send /\ R.pc = "loop" /\ w \in Rows
      BY <1>0, <1>5 DEF RunNext, sends
    <2>4. ASSUME NEW d \in Rows \ T.todo, Reachable(r, d)'
          PROVE  Done(r, d)'
      <3>1. Reachable(r, d)
        BY <2>2, <2>4 DEF Reachable, Contact
      <3>2. CASE d = w
        BY <2>2, <3>1, <3>2 DEF Done, Holding, Reachable
      <3>3. CASE d # w
        <4>1. d \in Rows \ R.todo /\ Done(r, d)
          BY <1>0, <2>2, <2>3, <2>4, <3>1, <3>3 DEF Progress, Walking
        <4> QED
          BY <2>3, <4>1 DEF Done, Holding
      <3> QED
        BY <3>2, <3>3
    <2>5. R.campaign \in Campaigns /\ T.pc \in {"loop", "create"}
          /\ (T.pc = "create" => T.at \in Rows)
      BY <1>0, <2>2, <2>3 DEF Progress
    <2> QED
      BY <2>2, <2>4, <2>5 DEF Progress, Holding
  <1>6. ASSUME R.pc \in Holding, T.pc \in Holding, T.at = R.at,
               T.todo = R.todo, T.audience = R.audience,
               T.campaign = R.campaign,
               \A w \in Rows : send'[r][w] = send[r][w] \/ w = R.at
        PROVE  Progress(r)'
    <2>1. \A w \in Rows : Reachable(r, w)' <=> Reachable(r, w)
      BY <1>6 DEF Reachable, Contact
    <2>2. \A w \in Rows : Done(r, w) => Done(r, w)'
      BY <1>6 DEF Done
    <2> QED
      BY <1>0, <1>6, <2>1, <2>2 DEF Progress, Walking, Holding
  <1>7. CASE RunCreateSend(r)
    <2>1. /\ R.pc = "create" /\ T = [R EXCEPT !.pc = "deliver"]
          /\ send' = [send EXCEPT ![r][R.at] = "queued"]
      BY <1>1, <1>7 DEF RunCreateSend
    <2>2. \A w \in Rows : send'[r][w] = send[r][w] \/ w = R.at
      BY <1>0, <2>1
    <2> QED
      BY <1>0, <1>6, <2>1, <2>2 DEF RunStates, Holding
  <1>8. CASE RunDeliver(r) \/ RunUnsendable(r) \/ RunRecordFails(r)
    <2>1. /\ R.pc \in {"deliver", "sent"} /\ send' = send
          /\ T \in {[R EXCEPT !.pc = "sent"], [R EXCEPT !.pc = "failed"]}
      BY <1>1, <1>8 DEF RunDeliver, RunUnsendable, RunRecordFails, sends
    <2> QED
      BY <1>0, <1>6, <2>1 DEF RunStates, Holding
  <1>9. CASE RunMiss(r)
    <2>1. /\ R.pc = "deliver" /\ send' = send
          /\ \E g \in {"deliver", "failed"}, n \in {R.tries + 1} :
               T = [R EXCEPT !.pc = g, !.tries = n]
      BY <1>1, <1>9 DEF RunMiss, sends
    <2> QED
      BY <1>0, <1>6, <2>1 DEF RunStates, Holding
  <1>10. CASE RunRecord(r)
    <2>1. /\ R.pc \in {"sent", "failed"} /\ T = PutDown(R, "loop")
          /\ send' = [send EXCEPT ![r][R.at] = R.pc]
      BY <1>1, <1>10 DEF RunRecord
    <2>2. /\ T.pc = "loop" /\ T.todo = R.todo /\ T.audience = R.audience
          /\ T.campaign = R.campaign
      BY <1>0, <2>1 DEF PutDown, RunStates
    <2>3. \A w \in Rows : Done(r, w) => Done(r, w)'
      BY <1>0, <2>1 DEF Done, Holding
    <2>4. \A w \in Rows : Reachable(r, w)' <=> Reachable(r, w)
      BY <2>2 DEF Reachable, Contact
    <2> QED
      BY <1>0, <2>1, <2>2, <2>3, <2>4 DEF Progress, Walking, Holding
  <1>11. CASE RunComplete(r)
    <2>1. /\ R.pc = "loop" /\ R.todo = {} /\ send' = send
          /\ T = [R EXCEPT !.pc = "done"]
      BY <1>1, <1>11 DEF RunComplete, AtEnd, sends
    <2>2. /\ T.pc = "done" /\ T.todo = {} /\ T.audience = R.audience
          /\ T.campaign = R.campaign
      BY <1>0, <2>1 DEF RunStates
    <2>3. \A w \in Rows : /\ Done(r, w) => Done(r, w)'
                          /\ Reachable(r, w)' <=> Reachable(r, w)
      BY <2>1, <2>2 DEF Done, Holding, Reachable, Contact
    <2> QED
      BY <1>0, <2>1, <2>2, <2>3 DEF Progress, Walking, Holding
  <1> QED
    BY <1>2, <1>3, <1>4, <1>5, <1>7, <1>8, <1>9, <1>10, <1>11 DEF RunStep

(* Every step keeps a run's progress and its sends in agreement.           *)
LEMMA ProgressStep ==
  ASSUME IInv, [Next]_vars
  PROVE  ProgressOK'
  <1> SUFFICES ASSUME NEW r \in Runs PROVE Progress(r)'
    BY DEF ProgressOK
  <1>0. TypeOK /\ WitnessOK /\ Progress(r) /\ run[r] \in RunStates
    BY DEF IInv, ProgressOK, TypeOK
  <1>1. CASE Next /\ ~RunStep(r)
    <2>1. \A w \in Rows : \/ send'[r][w] = send[r][w]
                          \/ send'[r][w] \notin {"absent", "queued"}
      BY <1>0, <1>1, SendChanges DEF RunStep
    <2>2. CASE run'[r] = run[r]
      <3>1. \A w \in Rows : /\ Done(r, w) => Done(r, w)'
                            /\ Reachable(r, w)' <=> Reachable(r, w)
        BY <2>1, <2>2 DEF Done, Reachable, Contact
      <3> QED
        BY <1>0, <2>2, <3>1 DEF Progress
    <2>3. CASE run'[r] # run[r]
      <3>1. run'[r] = PutDown(run[r], "aborted") /\ run[r].pc # "idle"
        BY <1>0, <1>1, <2>3, RunChanges
      <3>2. run'[r].pc = "aborted" /\ run'[r].campaign = run[r].campaign
        BY <1>0, <3>1 DEF PutDown, RunStates
      <3> QED
        BY <1>0, <3>1, <3>2 DEF Progress, Holding, Walking
    <2> QED
      BY <2>2, <2>3
  <1>2. CASE RunStep(r)
    BY <1>2, OwnProgress
  <1>3. CASE UNCHANGED vars
    BY <1>0, <1>3 DEF vars, sends, Progress, Done, Reachable, Contact
  <1> QED
    BY <1>1, <1>2, <1>3

-----------------------------------------------------------------------------
(* The overrun.                                                            *)

LEMMA OverrunSize ==
  ASSUME NEW S \in SUBSET Rows
  PROVE  /\ Cardinality(S) \in Nat /\ Cardinality({}) = 0
         /\ \A w \in Rows : Cardinality(S \cup {w}) =
              IF w \in S THEN Cardinality(S) ELSE Cardinality(S) + 1
  <1>1. IsFiniteSet(S)
    BY RowsAreFinite, FS_Subset
  <1>2. Cardinality(S) \in Nat /\ Cardinality({}) = 0
    BY <1>1, FS_CardinalityType, FS_EmptySet
  <1>3. \A w \in Rows : Cardinality(S \cup {w}) =
          IF w \in S THEN Cardinality(S) ELSE Cardinality(S) + 1
    BY <1>1, FS_AddElement
  <1> QED
    BY <1>2, <1>3

(* A write of a status leaves every run within its limit.                  *)
LEMMA StatusWrites ==
  ASSUME IInv, NEW k, NEW s, SetStatus(k, s), NEW r \in Runs,
         run'[r].campaign = run[r].campaign,
         run'[r].sinceCheck = run[r].sinceCheck,
         run'[r].at = run[r].at,
         run'[r].pc = run[r].pc \/ run'[r].pc \notin {"idle", "create", "deliver"}
  PROVE  Limited(r)'
  <1>1. /\ Limited(r) /\ overrun[r] \in SUBSET Rows
        /\ run[r].sinceCheck \in Nat /\ status \in [Campaigns -> Statuses]
    BY DEF IInv, OverrunOK, TypeOK, RunStates
  <1>2. /\ status' = [status EXCEPT ![k] = s]
        /\ overrun'[r] = IF run[r].campaign = k /\ s \notin Stopped
                         THEN {} ELSE overrun[r]
    BY DEF SetStatus
  <1>3. Cardinality(overrun[r]) \in Nat /\ Cardinality({}) = 0
    BY <1>1, OverrunSize
  <1>4. CASE run[r].campaign = k /\ s \notin Stopped
    <2>1. overrun'[r] = {} /\ Cardinality(overrun'[r]) = 0
      BY <1>2, <1>3, <1>4
    <2> QED
      BY <1>1, <2>1 DEF Limited
  <1>5. CASE run[r].campaign = k /\ s \in Stopped
    <2>1. overrun'[r] = overrun[r]
          /\ (k \in Campaigns => status'[k] = s)
      BY <1>1, <1>2, <1>5
    <2> QED
      BY <1>1, <1>5, <2>1 DEF Limited
  <1>6. CASE run[r].campaign # k
    <2>1. /\ overrun'[r] = overrun[r]
          /\ run[r].campaign \in Campaigns =>
               status'[run[r].campaign] = status[run[r].campaign]
      BY <1>1, <1>2, <1>6
    <2> QED
      BY <1>1, <1>6, <2>1 DEF Limited
  <1> QED
    BY <1>4, <1>5, <1>6

(* A run's own step keeps it within its limit.                             *)
LEMMA OwnLimit ==
  ASSUME IInv, NEW r \in Runs, RunStep(r)
  PROVE  Limited(r)'
  <1> DEFINE R == run[r]
             T == run'[r]
             n == Cardinality(overrun[r])
  <1>0. /\ R \in RunStates /\ R.sinceCheck \in Nat
        /\ overrun \in [Runs -> SUBSET Rows] /\ overrun[r] \in SUBSET Rows
        /\ Limited(r) /\ Progress(r) /\ Batch \in Nat /\ Batch >= 1
    BY CampaignConstants DEF IInv, TypeOK, OverrunOK, ProgressOK, RunStates
  <1>1. \A s : SetRun(r, s) => T = s
    BY OwnRecord
  <1>2. n \in Nat /\ Cardinality({}) = 0
    BY <1>0, OverrunSize
  <1>3. CASE RunStart(r)
    <2>1. PICK k \in Campaigns : T = [R EXCEPT !.pc = "resolve", !.campaign = k]
      BY <1>1, <1>3 DEF RunStart
    <2>2. T.pc = "resolve" /\ T.sinceCheck = R.sinceCheck
      BY <1>0, <2>1 DEF RunStates
    <2>3. overrun'[r] = {}
      BY <1>0, <1>3 DEF RunStart, Limited, history
    <2> QED
      BY <1>0, <1>2, <2>2, <2>3 DEF Limited
  <1>4. ASSUME UNCHANGED <<status, overrun>>, T.campaign = R.campaign,
               T.sinceCheck = R.sinceCheck,
               \/ T.pc \notin {"idle", "create", "deliver"}
               \/ T.pc = "deliver" /\ R.pc = "create" /\ T.at = R.at
        PROVE  Limited(r)'
    BY <1>0, <1>4 DEF Limited
  <1>5. CASE RunResolve(r)
    <2>1. PICK a \in Audiences :
            T = [R EXCEPT !.pc = "loop", !.audience = a, !.todo = Listed(a)]
      BY <1>1, <1>5 DEF RunResolve
    <2>2. /\ T.pc = "loop" /\ T.sinceCheck = R.sinceCheck
          /\ T.campaign = R.campaign
      BY <1>0, <2>1 DEF RunStates
    <2> QED
      BY <1>4, <1>5, <2>2 DEF RunResolve, history
  <1>6. CASE RunBreak(r) \/ RunAborts(r) \/ RunRecord(r) \/ RunRecordFails(r)
             \/ RunUnsendable(r)
    <2>1. /\ T.pc \in {"stopped", "aborted", "loop", "failed"}
          /\ T.sinceCheck = R.sinceCheck /\ T.campaign = R.campaign
      BY <1>0, <1>1, <1>6 DEF RunBreak, RunAborts, RunRecord, RunRecordFails,
         RunUnsendable, PutDown, RunStates
    <2>2. UNCHANGED <<status, overrun>>
      BY <1>6 DEF RunBreak, RunAborts, RunRecord, RunRecordFails,
         RunUnsendable, history
    <2> QED
      BY <1>4, <2>1, <2>2
  <1>7. CASE RunCreateSend(r)
    <2>1. R.pc = "create" /\ T = [R EXCEPT !.pc = "deliver"]
      BY <1>1, <1>7 DEF RunCreateSend
    <2>2. /\ T.pc = "deliver" /\ T.at = R.at /\ T.campaign = R.campaign
          /\ T.sinceCheck = R.sinceCheck
      BY <1>0, <2>1 DEF RunStates
    <2> QED
      BY <1>4, <1>7, <2>1, <2>2 DEF RunCreateSend, history
  <1>8. CASE RunNext(r)
    <2>1. PICK w \in R.todo : T = [R EXCEPT
            !.pc = IF Contact(r, w) \in Unreachable THEN "loop" ELSE "create",
            !.todo = @ \ {w},
            !.at = IF Contact(r, w) \in Unreachable THEN "none" ELSE w,
            !.sinceCheck = IF CheckDue(r) THEN 1 ELSE @ + 1]
      BY <1>1, <1>8 DEF RunNext
    <2>2. /\ T.pc \in {"loop", "create"} /\ T.campaign = R.campaign
          /\ T.sinceCheck = IF CheckDue(r) THEN 1 ELSE R.sinceCheck + 1
      BY <1>0, <2>1 DEF RunStates
    <2>3. /\ status' = status /\ overrun' = overrun
          /\ R.pc = "loop" /\ R.campaign \in Campaigns
      BY <1>0, <1>8 DEF RunNext, Progress, history
    <2>4. CASE CheckDue(r)
      <3>1. overrun[r] = {} /\ n = 0
        BY <1>0, <1>2, <1>8, <2>3, <2>4 DEF RunNext, Campaign, Limited
      <3> HIDE DEF n
      <3>2. Cardinality(overrun'[r]) = 0
        BY <2>3, <3>1 DEF n
      <3> QED
        BY <1>0, <2>2, <2>3, <2>4, <3>1, <3>2 DEF Limited
    <2>5. CASE ~CheckDue(r)
      <3>1. R.sinceCheck < Batch /\ n <= R.sinceCheck
        BY <1>0, <2>5 DEF CheckDue, Limited
      <3> QED
        BY <1>0, <1>2, <2>2, <2>3, <2>5, <3>1 DEF Limited
    <2> QED
      BY <2>4, <2>5
  <1>9. CASE RunDeliver(r) \/ RunMiss(r)
    <2>1. /\ R.pc = "deliver" /\ T.pc \in {"sent", "deliver", "failed"}
          /\ T.campaign = R.campaign /\ T.sinceCheck = R.sinceCheck
          /\ T.at = R.at
      BY <1>0, <1>1, <1>9 DEF RunDeliver, RunMiss, RunStates
    <2>2. R.at \in Rows /\ R.campaign \in Campaigns
      BY <1>0, <2>1 DEF Progress, Holding
    <2>3. /\ status' = status
          /\ \/ overrun'[r] = overrun[r]
             \/ /\ overrun'[r] = overrun[r] \cup {R.at}
                /\ status[R.campaign] \in Stopped
      BY <1>0, <1>9 DEF RunDeliver, RunMiss, GoesOut, Campaign, history
    <2>4. CASE overrun'[r] = overrun[r]
      BY <1>0, <2>1, <2>3, <2>4 DEF Limited
    <2>5. CASE /\ overrun'[r] = overrun[r] \cup {R.at}
               /\ status[R.campaign] \in Stopped
      <3>1. Cardinality(overrun[r] \cup {R.at})
              = IF R.at \in overrun[r] THEN n ELSE n + 1
        BY <1>0, <2>2, OverrunSize
      <3>2. Cardinality(overrun'[r]) <= R.sinceCheck
        BY <1>0, <1>2, <2>1, <2>5, <3>1 DEF Limited
      <3>3. R.at \in overrun'[r] /\ R.sinceCheck >= 1 /\ R.sinceCheck <= Batch
        BY <1>0, <2>1, <2>5 DEF Limited
      <3> HIDE DEF n
      <3> QED
        BY <2>1, <2>3, <2>5, <3>2, <3>3 DEF Limited
    <2> QED
      BY <2>3, <2>4, <2>5
  <1>10. CASE RunComplete(r)
    <2>1. /\ SetStatus(Campaign(r), "completed")
          /\ T = [R EXCEPT !.pc = "done"]
      BY <1>1, <1>10 DEF RunComplete
    <2>2. /\ T.campaign = R.campaign /\ T.sinceCheck = R.sinceCheck
          /\ T.at = R.at /\ T.pc = "done"
      BY <1>0, <2>1 DEF RunStates
    <2> QED
      BY <2>1, <2>2, StatusWrites
  <1> QED
    BY <1>3, <1>5, <1>6, <1>7, <1>8, <1>9, <1>10 DEF RunStep

(* Every step keeps the messages sent since a stop within the limit.       *)
LEMMA OverrunStep ==
  ASSUME IInv, [Next]_vars
  PROVE  OverrunOK'
  <1> SUFFICES ASSUME NEW r \in Runs PROVE Limited(r)'
    BY DEF OverrunOK
  <1>0. /\ TypeOK /\ Limited(r) /\ run[r] \in RunStates
        /\ overrun \in [Runs -> SUBSET Rows]
    BY DEF IInv, OverrunOK, TypeOK
  <1>1. ASSUME NEW c \in Calls, CallWrite(c) PROVE Limited(r)'
    <2>1. run' = run /\ SetStatus(call[c].campaign, StatusAfter(call[c].op))
      BY <1>1 DEF CallWrite
    <2> QED
      BY <2>1, StatusWrites
  <1>2. ASSUME NEW s \in Runs, RunStep(s), s # r PROVE Limited(r)'
    <2>1. run'[r] = run[r]
      BY <1>0, <1>2 DEF RunStep, RunStart, RunResolve, RunBreak, RunNext,
           RunCreateSend, RunDeliver, RunUnsendable, RunMiss, RunRecord,
           RunRecordFails, RunComplete, RunAborts, SetRun, TypeOK
    <2>2. CASE RunComplete(s)
      BY <2>1, <2>2, StatusWrites DEF RunComplete
    <2>3. CASE ~RunComplete(s)
      <3>1. status' = status /\ overrun'[r] = overrun[r]
        BY <1>0, <1>2, <2>3 DEF RunStep, RunStart, RunResolve, RunBreak,
             RunNext, RunCreateSend, RunDeliver, RunUnsendable, RunMiss,
             RunRecord, RunRecordFails, RunAborts, GoesOut, history
      <3> QED
        BY <1>0, <2>1, <3>1 DEF Limited
    <2> QED
      BY <2>2, <2>3
  <1>3. CASE RunStep(r)
    BY <1>3, OwnLimit
  <1>4. CASE Crash
    <2>1. status' = status /\ overrun' = overrun
      BY <1>4 DEF Crash, history
    <2>2. /\ run'[r].campaign = run[r].campaign
          /\ run'[r].sinceCheck = run[r].sinceCheck
          /\ \/ run'[r].pc = run[r].pc /\ run'[r].at = run[r].at
             \/ run'[r].pc = "aborted"
      BY <1>0, <1>4 DEF Crash, RunStates, PutDown
    <2> QED
      BY <1>0, <2>1, <2>2 DEF Limited
  <1>5. ASSUME \/ \E c \in Calls : CallRead(c)
               \/ \E m \in Marks : MarkRead(m) \/ MarkWrite(m)
               \/ \E m \in Messages :
                    Inbound(m) \/ \E p \in Paths : TrackStep(m, p)
               \/ UNCHANGED vars
        PROVE  Limited(r)'
    <2>1. run' = run /\ status' = status /\ overrun' = overrun
      BY <1>5 DEF CallRead, MarkRead, MarkWrite, Inbound, TrackStep,
           TrackFind, TrackRefind, TrackMark, TrackFails, vars, history
    <2> QED
      BY <1>0, <2>1 DEF Limited
  <1> QED
    BY <1>1, <1>2, <1>3, <1>4, <1>5 DEF Next
-----------------------------------------------------------------------------
(* Completion.                                                             *)

LEMMA CompletedStep ==
  ASSUME IInv, [Next]_vars
  PROVE  CompletedIsServed'
  <1> SUFFICES ASSUME NEW k \in Campaigns, status'[k] = "completed"
               PROVE  (\E r \in Runs : /\ run[r].campaign = k
                                       /\ run[r].pc = "done" /\ Served(r))'
    BY DEF CompletedIsServed
  <1>0. /\ TypeOK /\ WitnessOK /\ ProgressOK
        /\ status \in [Campaigns -> Statuses]
    BY DEF IInv, TypeOK
  (* A run that is done and has served its audience stays so.              *)
  <1>1. ASSUME NEW r \in Runs, Next,
               run[r].campaign = k, run[r].pc = "done", Served(r)
        PROVE  run'[r] = run[r] /\ Served(r)'
    <2>1. ~RunStep(r)
      BY <1>1 DEF RunStep, RunStart, RunResolve, RunBreak, RunNext,
           RunCreateSend, RunDeliver, RunUnsendable, RunMiss, RunRecord,
           RunRecordFails, RunComplete, RunAborts, AtEnd
    <2>2. run'[r] = run[r]
      <3>1. CASE Crash
        BY <1>0, <1>1, <3>1 DEF Crash, TypeOK
      <3>2. CASE ~Crash
        BY <1>0, <1>1, <2>1, <3>2, RunChanges
      <3> QED
        BY <3>1, <3>2
    <2>3. \A w \in Rows : \/ send'[r][w] = send[r][w]
                          \/ send'[r][w] \notin {"absent", "queued"}
      BY <1>0, <1>1, <2>1, SendChanges DEF RunStep
    <2>4. \A w \in Rows : Reachable(r, w)' <=> Reachable(r, w)
      BY <2>2 DEF Reachable, Contact
    <2> QED
      BY <1>1, <2>2, <2>3, <2>4 DEF Served
  <1>2. CASE Next /\ status[k] = "completed"
    <2>1. PICK r \in Runs :
            run[r].campaign = k /\ run[r].pc = "done" /\ Served(r)
      BY <1>2 DEF IInv, CompletedIsServed
    <2> QED
      BY <1>1, <1>2, <2>1
  <1>3. ASSUME NEW r \in Runs, RunComplete(r), status[k] # "completed"
        PROVE  (\E s \in Runs : /\ run[s].campaign = k
                                /\ run[s].pc = "done" /\ Served(s))'
    <2>1. run[r] \in RunStates /\ run \in [Runs -> RunStates]
      BY <1>0 DEF TypeOK
    <2>2. run[r].campaign = k
      BY <1>0, <1>3 DEF RunComplete, SetStatus, Campaign
    <2>3. /\ run'[r].campaign = k /\ run'[r].pc = "done"
          /\ run'[r].audience = run[r].audience /\ send' = send
          /\ run[r].pc = "loop" /\ run[r].todo = {}
      BY <1>3, <2>1, <2>2 DEF RunComplete, AtEnd, SetRun, RunStates, sends
    <2>4. Progress(r)
      BY <1>0 DEF ProgressOK
    <2>5. \A w \in Rows : Reachable(r, w)' <=> Reachable(r, w)
      BY <2>3 DEF Reachable, Contact
    <2>6. Served(r)'
      BY <2>3, <2>4, <2>5 DEF Progress, Done, Walking, Holding, Served
    <2> QED
      BY <2>3, <2>6
  <1>4. CASE Next /\ status[k] # "completed"
    <2>1. status' # status
      BY <1>4
    <2>2. ASSUME NEW c \in Calls, CallWrite(c) PROVE FALSE
      BY <1>0, <1>4, <2>2 DEF CallWrite, SetStatus, StatusAfter
    <2>3. \E r \in Runs : RunComplete(r)
      BY <1>4, <2>1, <2>2 DEF Next, CallRead, RunStep, RunStart, RunResolve,
         RunBreak, RunNext, RunCreateSend, RunDeliver, RunUnsendable, RunMiss,
         RunRecord, RunRecordFails, RunAborts, MarkRead, MarkWrite, Inbound,
         TrackStep, TrackFind, TrackRefind, TrackMark, TrackFails, Crash
    <2> QED
      BY <1>3, <1>4, <2>3
  <1>5. CASE UNCHANGED vars
    BY <1>5 DEF IInv, CompletedIsServed, Served, Reachable, Contact, vars,
                sends
  <1> QED
    BY <1>2, <1>4, <1>5

-----------------------------------------------------------------------------
(* The books.                                                              *)

(* What others write on a run's sends is on sends that exist, or of rows   *)
(* whose message went out; a message goes out in the run's own step.       *)
LEMMA OthersWrite ==
  ASSUME IInv, Next, NEW r \in Runs, ~RunStep(r)
  PROVE  /\ messaged'[r] = messaged[r]
         /\ \A w \in Rows :
              \/ send'[r][w] = send[r][w]
              \/ /\ send'[r][w] # "absent"
                 /\ send[r][w] # "absent" \/ w \in messaged[r]
  <1> USE DEF sends, tracker, history
  <1>0. /\ send \in [Runs -> [Rows -> SendStatuses]]
        /\ messaged \in [Runs -> SUBSET Rows]
        /\ WitnessOK /\ MarksOK
    BY DEF IInv, TypeOK
  <1>1. ASSUME NEW s \in Runs, s # r, RunStep(s)
        PROVE  messaged'[r] = messaged[r] /\ send'[r] = send[r]
    BY <1>0, <1>1 DEF RunStep, RunStart, RunResolve, RunBreak, RunNext,
       RunCreateSend, RunDeliver, RunUnsendable, RunMiss, GoesOut, RunRecord,
       RunRecordFails, RunComplete, RunAborts
  <1>2. ASSUME NEW m \in Marks, MarkWrite(m)
        PROVE  /\ messaged' = messaged
               /\ \A w \in Rows :
                    \/ send'[r][w] = send[r][w]
                    \/ send'[r][w] # "absent" /\ send[r][w] # "absent"
    BY <1>0, <1>2 DEF MarkWrite, WitnessOK, MarksOK, MarkOps
  <1>3. ASSUME NEW m \in Messages, NEW p \in Paths, TrackMark(m, p)
        PROVE  /\ messaged' = messaged
               /\ \A w \in Rows :
                    \/ send'[r][w] = send[r][w]
                    \/ send'[r][w] # "absent" /\ w \in messaged[r]
    BY <1>0, <1>3 DEF TrackMark, WitnessOK
  <1>4. ASSUME \/ \E c \in Calls : CallRead(c) \/ CallWrite(c)
               \/ \E m \in Marks : MarkRead(m)
               \/ \E m \in Messages : Inbound(m)
               \/ \E m \in Messages, p \in Paths :
                    \/ TrackFind(m, p) \/ TrackRefind(m, p)
                    \/ TrackFails(m, p)
               \/ Crash
        PROVE  messaged' = messaged /\ send' = send
    BY <1>4 DEF CallRead, CallWrite, MarkRead, Inbound, TrackFind,
       TrackRefind, TrackFails, Crash
  <1> HIDE DEF sends, tracker, history
  <1>5. CASE \E s \in Runs : RunStep(s)
    BY <1>1, <1>5
  <1>6. CASE \E m \in Marks : MarkWrite(m)
    BY <1>2, <1>6
  <1>7. CASE \E m \in Messages, p \in Paths : TrackMark(m, p)
    BY <1>3, <1>7
  <1> QED
    BY <1>4, <1>5, <1>6, <1>7 DEF Next, TrackStep

(* A run's own step keeps its books.                                       *)
LEMMA OwnBooks ==
  ASSUME IInv, NEW r \in Runs, RunStep(r)
  PROVE  Books(r)'
  <1> DEFINE R == run[r]
             T == run'[r]
  <1>0. /\ R \in RunStates /\ R.todo \subseteq Rows
        /\ send \in [Runs -> [Rows -> SendStatuses]]
        /\ messaged \in [Runs -> SUBSET Rows] /\ messaged[r] \subseteq Rows
        /\ R.pc \in Holding => R.at \in Rows
        /\ Books(r)
    BY DEF IInv, TypeOK, ProgressOK, Progress, BooksOK, RunStates
  <1>1. \A s : SetRun(r, s) => T = s
    BY OwnRecord
  <1> USE DEF Books, Holding
  (* A step that leaves the sends and the audience alone.                  *)
  <1>2. ASSUME send' = send, T.audience = R.audience
        PROVE  \A w \in Rows : Listing(r, w)' <=> Listing(r, w)
    BY <1>2 DEF Listing, Contact
  <1>3. CASE RunStart(r)
    <2>1. PICK k \in Campaigns : T = [R EXCEPT !.pc = "resolve", !.campaign = k]
      BY <1>1, <1>3 DEF RunStart
    <2>2. /\ T.pc = "resolve" /\ T.todo = R.todo /\ T.audience = R.audience
          /\ UNCHANGED <<send, messaged>> /\ R.pc = "idle"
      BY <1>0, <1>3, <2>1 DEF RunStart, RunStates, sends, history
    <2> QED
      BY <1>0, <1>2, <2>2
  <1>4. CASE RunResolve(r)
    <2>1. PICK a \in Audiences :
            T = [R EXCEPT !.pc = "loop", !.audience = a, !.todo = Listed(a)]
      BY <1>1, <1>4 DEF RunResolve
    <2>2. /\ T.pc = "loop" /\ T.todo = Listed(a) /\ T.audience = a
          /\ UNCHANGED <<send, messaged>> /\ R.pc = "resolve"
      BY <1>0, <1>4, <2>1 DEF RunResolve, RunStates, sends, history
    <2>3. \A w \in Listed(a) : a[w] \in Contacts /\ w \in Rows
      BY DEF Listed, Audiences
    <2>4. \A w \in T.todo : Listing(r, w)'
      BY <2>2, <2>3 DEF Listing, Contact
    <2> QED
      BY <1>0, <2>2, <2>3, <2>4
  <1>5. CASE RunBreak(r) \/ RunComplete(r) \/ RunAborts(r)
    <2>1. /\ T.pc \in {"stopped", "done", "aborted"}
          /\ T.todo = R.todo /\ T.audience = R.audience
          /\ UNCHANGED <<send, messaged>>
      <3>1. /\ T \in {PutDown(R, "aborted"), [R EXCEPT !.pc = "stopped"],
                      [R EXCEPT !.pc = "done"]}
            /\ UNCHANGED <<send, messaged>>
        BY <1>1, <1>5 DEF RunBreak, RunComplete, RunAborts, sends, history
      <3>2. PutDown(R, "aborted").pc = "aborted"
            /\ PutDown(R, "aborted").todo = R.todo
            /\ PutDown(R, "aborted").audience = R.audience
        BY <1>0 DEF PutDown, RunStates
      <3> QED
        BY <1>0, <3>1, <3>2 DEF RunStates
    <2> QED
      BY <1>0, <1>2, <2>1
  <1>6. CASE RunNext(r)
    <2>1. PICK w \in R.todo : T = [R EXCEPT
            !.pc = IF Contact(r, w) \in Unreachable THEN "loop" ELSE "create",
            !.todo = @ \ {w},
            !.at = IF Contact(r, w) \in Unreachable THEN "none" ELSE w,
            !.sinceCheck = IF CheckDue(r) THEN 1 ELSE @ + 1]
      BY <1>1, <1>6 DEF RunNext
    <2>2. /\ T.todo = R.todo \ {w} /\ T.audience = R.audience
          /\ \/ T.pc = "loop"
             \/ T.pc = "create" /\ T.at = w
      BY <1>0, <2>1 DEF RunStates
    <2>3. UNCHANGED <<send, messaged>>
      BY <1>6 DEF RunNext, sends, history
    <2> QED
      BY <1>0, <1>2, <2>2, <2>3
  <1>7. CASE RunCreateSend(r)
    <2>1. R.pc = "create" /\ T = [R EXCEPT !.pc = "deliver"]
          /\ send' = [send EXCEPT ![r][R.at] = "queued"]
          /\ messaged' = messaged
      BY <1>1, <1>7 DEF RunCreateSend, history
    <2>2. /\ T.pc = "deliver" /\ T.todo = R.todo /\ T.at = R.at
          /\ T.audience = R.audience
      BY <1>0, <2>1 DEF RunStates
    <2>3. \A w \in Rows : Listing(r, w)' <=> Listing(r, w)
      BY <2>2 DEF Listing, Contact
    <2>4. \A w \in Rows :
            send'[r][w] = IF w = R.at THEN "queued" ELSE send[r][w]
      BY <1>0, <2>1
    <2> QED
      BY <1>0, <2>1, <2>2, <2>3, <2>4
  <1>8. CASE RunDeliver(r) \/ RunUnsendable(r) \/ RunMiss(r)
             \/ RunRecordFails(r)
    <2>1. /\ T.pc \in {"deliver", "sent", "failed"} /\ T.todo = R.todo
          /\ T.at = R.at /\ T.audience = R.audience
          /\ R.pc \in {"deliver", "sent"} /\ send' = send
      <3>1. /\ R.pc \in {"deliver", "sent"} /\ send' = send
            /\ \/ \E pc \in {"sent", "failed"} : T = [R EXCEPT !.pc = pc]
               \/ \E pc \in {"deliver", "sent", "failed"}, n \in Nat :
                    T = [R EXCEPT !.pc = pc, !.tries = n]
        <4>1. CASE RunDeliver(r) \/ RunUnsendable(r) \/ RunRecordFails(r)
          BY <1>1, <4>1 DEF RunDeliver, RunUnsendable, RunRecordFails, sends
        <4>2. CASE RunMiss(r)
          <5>1. R.tries + 1 \in Nat
            BY <1>0 DEF RunStates
          <5> QED
            BY <1>1, <4>2, <5>1 DEF RunMiss, sends
        <4> QED
          BY <1>8, <4>1, <4>2
      <3> QED
        BY <1>0, <3>1 DEF RunStates
    <2>2. \/ messaged'[r] = messaged[r]
          \/ messaged'[r] = messaged[r] \cup {R.at}
      BY <1>0, <1>8 DEF RunDeliver, RunUnsendable, RunMiss, RunRecordFails,
         GoesOut, history
    <2> QED
      BY <1>0, <1>2, <2>1, <2>2
  <1>9. CASE RunRecord(r)
    <2>1. /\ T.pc = "loop" /\ T.todo = R.todo /\ T.audience = R.audience
          /\ R.pc \in {"sent", "failed"}
          /\ send' = [send EXCEPT ![r][R.at] = R.pc]
          /\ messaged' = messaged
      BY <1>0, <1>1, <1>9 DEF RunRecord, PutDown, RunStates
    <2>2. \A w \in Rows : Listing(r, w)' <=> Listing(r, w)
      BY <2>1 DEF Listing, Contact
    <2>3. \A w \in Rows :
            send'[r][w] = IF w = R.at THEN R.pc ELSE send[r][w]
      BY <1>0, <2>1
    <2> QED
      BY <1>0, <2>1, <2>2, <2>3
  <1> QED
    BY <1>3, <1>4, <1>5, <1>6, <1>7, <1>8, <1>9 DEF RunStep

LEMMA BooksStep ==
  ASSUME IInv, [Next]_vars
  PROVE  BooksOK'
  <1> SUFFICES ASSUME NEW r \in Runs PROVE Books(r)'
    BY DEF BooksOK
  <1>0. Books(r) /\ TypeOK
    BY DEF IInv, BooksOK
  <1>1. CASE RunStep(r)
    BY <1>1, OwnBooks
  <1>2. CASE Next /\ ~RunStep(r)
    <2>1. /\ run[r] \in RunStates /\ run[r].todo \subseteq Rows
          /\ run[r].pc \in Holding => run[r].at \in Rows
          /\ messaged[r] \subseteq Rows
      BY DEF IInv, TypeOK, ProgressOK, Progress, RunStates
    <2>2. /\ run'[r].todo = run[r].todo /\ run'[r].audience = run[r].audience
          /\ \/ run'[r].pc = run[r].pc /\ run'[r].at = run[r].at
             \/ run'[r].pc = "aborted"
      BY <1>0, <1>2, <2>1, RunChanges DEF RunStates, PutDown
    <2>3. \A w \in Rows : Listing(r, w)' <=> Listing(r, w)
      BY <2>2 DEF Listing, Contact
    <2> QED
      BY <1>0, <1>2, <2>1, <2>2, <2>3, OthersWrite DEF Books, Holding
  <1>3. CASE UNCHANGED vars
    BY <1>0, <1>3 DEF Books, Listing, Contact, vars, sends, history
  <1> QED
    BY <1>1, <1>2, <1>3

(* A message is missed, and goes out again, a bounded number of times.     *)
LEMMA TrialsStep ==
  ASSUME IInv, [Next]_vars
  PROVE  TrialsOK'
  <1> SUFFICES ASSUME NEW r \in Runs PROVE Trials(r)'
    BY DEF TrialsOK
  <1> DEFINE R == run[r]
             T == run'[r]
  <1>0. /\ Trials(r) /\ TypeOK /\ R \in RunStates /\ R.tries \in Nat
        /\ copies \in [Runs -> Nat] /\ copies[r] \in Nat
        /\ MaxTries \in Nat \ {0}
    BY CampaignConstants DEF IInv, TrialsOK, TypeOK, RunStates
  <1>1. \A s : SetRun(r, s) => T = s
    BY OwnRecord
  <1> USE DEF Trials
  <1>2. CASE RunStart(r) \/ RunResolve(r) \/ RunNext(r) \/ RunCreateSend(r)
    <2>1. /\ R.pc \in {"idle", "resolve", "loop", "create"}
          /\ copies' = copies
      BY <1>2 DEF RunStart, RunResolve, RunNext, RunCreateSend, history
    <2>2. CASE RunStart(r)
      BY <1>0, <1>1, <2>1, <2>2 DEF RunStart, RunStates
    <2>3. CASE RunResolve(r)
      BY <1>0, <1>1, <2>1, <2>3 DEF RunResolve, RunStates
    <2>4. CASE RunNext(r)
      <3>1. PICK w \in R.todo : T = [R EXCEPT
              !.pc = IF Contact(r, w) \in Unreachable THEN "loop" ELSE "create",
              !.todo = @ \ {w},
              !.at = IF Contact(r, w) \in Unreachable THEN "none" ELSE w,
              !.sinceCheck = IF CheckDue(r) THEN 1 ELSE @ + 1]
        BY <1>1, <2>4 DEF RunNext
      <3>2. T.tries = R.tries /\ T.pc \in {"loop", "create"}
        BY <1>0, <3>1 DEF RunStates
      <3> QED
        BY <1>0, <2>1, <3>2
    <2>5. CASE RunCreateSend(r)
      <3>1. T.tries = R.tries /\ T.pc = "deliver" /\ R.pc = "create"
        BY <1>0, <1>1, <2>5 DEF RunCreateSend, RunStates
      <3> QED
        BY <1>0, <2>1, <3>1
    <2> QED
      BY <1>2, <2>2, <2>3, <2>4, <2>5
  <1>3. CASE \/ RunDeliver(r) \/ RunUnsendable(r) \/ RunRecordFails(r)
             \/ RunBreak(r) \/ RunComplete(r) \/ RunAborts(r)
    <2>1. CASE RunDeliver(r) \/ RunUnsendable(r) \/ RunRecordFails(r)
      BY <1>0, <1>1, <2>1 DEF RunDeliver, RunUnsendable, RunRecordFails,
         RunStates
    <2>2. CASE RunBreak(r) \/ RunComplete(r)
      BY <1>0, <1>1, <2>2 DEF RunBreak, RunComplete, AtEnd, RunStates, history
    <2>3. CASE RunAborts(r)
      BY <1>0, <1>1, <2>3 DEF RunAborts, PutDown, RunStates
    <2> QED
      BY <1>3, <2>1, <2>2, <2>3
  <1>4. CASE RunMiss(r)
    <2>1. /\ R.pc = "deliver" /\ T.tries = R.tries + 1
          /\ T.pc = IF R.tries + 1 < MaxTries THEN "deliver" ELSE "failed"
      BY <1>0, <1>1, <1>4 DEF RunMiss, RunStates
    <2>2. copies'[r] <= copies[r] + 1 /\ copies'[r] \in Nat
      BY <1>0, <1>4 DEF RunMiss, GoesOut, history
    <2> QED
      BY <1>0, <2>1, <2>2
  <1>5. CASE RunRecord(r)
    <2>1. T.pc = "loop" /\ T.tries = 0 /\ copies'[r] = 0
      BY <1>0, <1>1, <1>5 DEF RunRecord, PutDown, RunStates
    <2> QED
      BY <2>1
  <1>6. CASE Next /\ ~RunStep(r)
    <2>1. copies'[r] \in {copies[r], 0}
      <3>1. ASSUME NEW s \in Runs, s # r, RunStep(s)
            PROVE  copies'[r] = copies[r]
        BY <1>0, <3>1 DEF RunStep, RunStart, RunResolve, RunBreak, RunNext,
           RunCreateSend, RunDeliver, RunUnsendable, RunMiss, GoesOut,
           RunRecord, RunRecordFails, RunComplete, RunAborts, history
      <3>2. ASSUME \/ \E c \in Calls : CallRead(c) \/ CallWrite(c)
                   \/ \E m \in Marks : MarkRead(m) \/ MarkWrite(m)
                   \/ \E m \in Messages :
                        Inbound(m) \/ \E p \in Paths : TrackStep(m, p)
            PROVE  copies' = copies
        BY <3>2 DEF CallRead, CallWrite, MarkRead, MarkWrite, Inbound,
           TrackStep, TrackFind, TrackRefind, TrackMark, TrackFails, history
      <3>3. ASSUME Crash PROVE copies'[r] = 0
        BY <3>3 DEF Crash
      <3> QED
        BY <1>6, <3>1, <3>2, <3>3 DEF Next
    <2>2. \/ T = R
          \/ T.pc = "aborted" /\ T.tries = 0 /\ Crash
      BY <1>0, <1>6, RunChanges DEF PutDown, RunStates
    <2>3. Crash => copies'[r] = 0
      BY DEF Crash
    <2> QED
      BY <1>0, <2>1, <2>2, <2>3
  <1>7. CASE UNCHANGED vars
    BY <1>0, <1>7 DEF vars, history
  <1> QED
    BY <1>2, <1>3, <1>4, <1>5, <1>6, <1>7 DEF RunStep

-----------------------------------------------------------------------------
(* The requests on a send and the checks of the tracker.                   *)

LEMMA MessagedGrows ==
  ASSUME IInv, [Next]_vars, NEW r \in Runs
  PROVE  messaged[r] \subseteq messaged'[r]
  <1>0. messaged \in [Runs -> SUBSET Rows]
    BY DEF IInv, TypeOK
  <1>1. CASE RunStep(r)
    BY <1>0, <1>1 DEF RunStep, RunStart, RunResolve, RunBreak, RunNext,
       RunCreateSend, RunDeliver, RunUnsendable, RunMiss, GoesOut, RunRecord,
       RunRecordFails, RunComplete, RunAborts, history
  <1>2. CASE Next /\ ~RunStep(r)
    BY <1>2, OthersWrite
  <1>3. CASE UNCHANGED vars
    BY <1>3 DEF vars, history
  <1> QED
    BY <1>1, <1>2, <1>3

(* A run is about to write "sent" only when it has sent.                   *)
LEMMA SentStep ==
  ASSUME IInv, [Next]_vars, NEW r \in Runs, run'[r].pc = "sent"
  PROVE  run'[r].at \in messaged'[r]
  <1>0. /\ TypeOK /\ run[r] \in RunStates
        /\ run[r].pc = "sent" => run[r].at \in messaged[r]
        /\ messaged \in [Runs -> SUBSET Rows]
    BY DEF IInv, TypeOK, WitnessOK
  <1>1. \A s : SetRun(r, s) => run'[r] = s
    BY OwnRecord
  <1>2. CASE run'[r] = run[r]
    BY <1>0, <1>2, MessagedGrows
  <1>3. CASE RunStep(r)
    <2>1. RunDeliver(r)
      <3>1. ASSUME RunNext(r) PROVE FALSE
        <4>1. PICK w \in run[r].todo : run'[r] = [run[r] EXCEPT
                !.pc = IF Contact(r, w) \in Unreachable THEN "loop" ELSE "create",
                !.todo = @ \ {w},
                !.at = IF Contact(r, w) \in Unreachable THEN "none" ELSE w,
                !.sinceCheck = IF CheckDue(r) THEN 1 ELSE @ + 1]
          BY <1>1, <3>1 DEF RunNext
        <4> QED
          BY <1>0, <4>1 DEF RunStates
      <3>2. ASSUME RunStart(r) PROVE FALSE
        BY <1>0, <1>1, <3>2 DEF RunStart, RunStates
      <3>3. ASSUME RunResolve(r) PROVE FALSE
        BY <1>0, <1>1, <3>3 DEF RunResolve, RunStates
      <3>4. ASSUME RunMiss(r) PROVE FALSE
        BY <1>0, <1>1, <3>4 DEF RunMiss, RunStates
      <3>5. ASSUME \/ RunBreak(r) \/ RunCreateSend(r) \/ RunUnsendable(r)
                   \/ RunRecord(r) \/ RunRecordFails(r) \/ RunComplete(r)
                   \/ RunAborts(r)
            PROVE  FALSE
        BY <1>0, <1>1, <3>5 DEF RunBreak, RunCreateSend, RunUnsendable,
           RunRecord, RunRecordFails, RunComplete, RunAborts, PutDown,
           RunStates
      <3> QED
        BY <1>3, <3>1, <3>2, <3>3, <3>4, <3>5 DEF RunStep
    <2>2. /\ run'[r] = [run[r] EXCEPT !.pc = "sent"]
          /\ messaged'[r] = messaged[r] \cup {run[r].at}
      BY <1>0, <1>1, <2>1 DEF RunDeliver, GoesOut
    <2> QED
      BY <1>0, <2>2 DEF RunStates
  <1>4. CASE Next /\ ~RunStep(r) /\ run'[r] # run[r]
    <2>1. run'[r] = PutDown(run[r], "aborted")
      BY <1>0, <1>4, RunChanges
    <2> QED
      BY <1>0, <2>1 DEF PutDown, RunStates
  <1> QED
    BY <1>2, <1>3, <1>4 DEF vars

(* Only MarkRead takes a request up, and one that is done stays so.        *)
LEMMA MarkChanges ==
  ASSUME IInv, [Next]_vars, NEW m \in Marks
  PROVE  /\ \/ mark'[m] = mark[m]
            \/ mark'[m].pc = "done"
            \/ MarkRead(m)
         /\ mark[m].pc = "done" => mark'[m] = mark[m]
  <1>0. mark \in [Marks -> MarkStates] /\ mark[m] \in MarkStates
    BY DEF IInv, TypeOK
  <1>1. ASSUME NEW n \in Marks, MarkRead(n)
        PROVE  mark'[m] = mark[m] \/ (n = m /\ mark[m].pc = "idle")
    BY <1>0, <1>1 DEF MarkRead
  <1>2. ASSUME NEW n \in Marks, MarkWrite(n)
        PROVE  \/ mark'[m] = mark[m]
               \/ mark'[m].pc = "done" /\ mark[m].pc = "write"
    BY <1>0, <1>2 DEF MarkWrite, MarkStates
  <1>3. ASSUME Crash
        PROVE  \/ mark'[m] = mark[m]
               \/ mark'[m].pc = "done" /\ mark[m].pc = "write"
    BY <1>0, <1>3 DEF Crash, MarkStates
  <1>4. ASSUME \/ \E c \in Calls : CallRead(c) \/ CallWrite(c)
               \/ \E r \in Runs : RunStep(r)
               \/ \E n \in Messages :
                    Inbound(n) \/ \E p \in Paths : TrackStep(n, p)
               \/ UNCHANGED vars
        PROVE  mark' = mark
    BY <1>4 DEF CallRead, CallWrite, RunStep, RunStart, RunResolve, RunBreak,
       RunNext, RunCreateSend, RunDeliver, RunUnsendable, RunMiss, RunRecord,
       RunRecordFails, RunComplete, RunAborts, Inbound, TrackStep, TrackFind,
       TrackRefind, TrackMark, TrackFails, vars
  <1> QED
    BY <1>1, <1>2, <1>3, <1>4 DEF Next

(* No send is taken back, so that a request on a send still finds it.      *)
LEMMA MarksStep ==
  ASSUME IInv, [Next]_vars, NEW m \in Marks, mark'[m].pc = "write"
  PROVE  /\ mark'[m].op \in MarkOps
         /\ mark'[m].run \in Runs /\ mark'[m].row \in Rows
         /\ mark'[m].op = "delivered"
              => mark'[m].row \in messaged'[mark'[m].run]
         /\ send'[mark'[m].run][mark'[m].row] # "absent"
  <1>0. /\ TypeOK /\ WitnessOK /\ MarksOK /\ MetricsAreReal
        /\ mark \in [Marks -> MarkStates]
    BY DEF IInv, TypeOK
  <1>1. ASSUME NEW r \in Runs, NEW w \in Rows, send[r][w] # "absent"
        PROVE  send'[r][w] # "absent"
    <2>1. CASE RunCreateSend(r) /\ run[r].at = w
      BY <1>0, <2>1 DEF RunCreateSend, TypeOK
    <2>2. CASE UNCHANGED vars
      BY <1>1, <2>2 DEF vars, sends
    <2> QED
      BY <1>0, <1>1, <2>1, <2>2, SendChanges
  <1>2. CASE mark'[m] = mark[m]
    <2>1. /\ mark[m].op \in MarkOps
          /\ mark[m].run \in Runs /\ mark[m].row \in Rows
          /\ mark[m].op = "delivered" => mark[m].row \in messaged[mark[m].run]
          /\ send[mark[m].run][mark[m].row] # "absent"
      BY <1>0, <1>2 DEF WitnessOK, MarksOK
    <2> QED
      BY <1>1, <1>2, <2>1, MessagedGrows
  <1>3. CASE MarkRead(m)
    <2>1. PICK op \in MarkOps, r \in Runs, w \in Rows :
            /\ send[r][w] # "absent"
            /\ mark' = [mark EXCEPT ![m] =
                 [pc |-> IF op = "delivered" /\ send[r][w] # "sent"
                         THEN "done" ELSE "write",
                  op |-> op, run |-> r, row |-> w]]
      BY <1>3 DEF MarkRead
    <2>2. /\ mark'[m].op = op /\ mark'[m].run = r /\ mark'[m].row = w
          /\ op = "delivered" => send[r][w] = "sent"
      BY <1>0, <2>1
    <2>3. op = "delivered" => w \in messaged[r]
      BY <1>0, <2>2 DEF MetricsAreReal, CountsAsSent
    <2> QED
      BY <1>1, <2>1, <2>2, <2>3, MessagedGrows
  <1> QED
    BY <1>2, <1>3, MarkChanges

(* A check of the tracker takes up a send that says "sent".                *)
LEMMA ChecksStep ==
  ASSUME IInv, [Next]_vars, NEW m \in Messages, NEW p \in Paths,
         track'[m][p].pc = "mark"
  PROVE  /\ track'[m][p].run \in Runs /\ track'[m][p].row \in Rows
         /\ track'[m][p].row \in messaged'[track'[m][p].run]
  <1>0. /\ WitnessOK /\ MetricsAreReal
        /\ track \in [Messages -> [Paths -> TrackStates]]
        /\ track[m][p] \in TrackStates
    BY DEF IInv, TypeOK
  <1>1. CASE track'[m][p] = track[m][p]
    BY <1>0, <1>1, MessagedGrows DEF WitnessOK
  <1>2. ASSUME NEW n \in Messages, NEW q \in Paths, NEW s, SetTrack(n, q, s)
        PROVE  track'[m][p] = IF n = m /\ q = p THEN s ELSE track[m][p]
    BY <1>0, <1>2 DEF SetTrack
  <1>3. ASSUME NEW n \in Messages, NEW q \in Paths,
               \/ SetTrack(n, q, NoTrack("done"))
               \/ \E k : SetTrack(n, q, [track[n][q] EXCEPT !.pc = "refind",
                                                            !.campaign = k])
        PROVE  track'[m][p] = track[m][p]
    <2>1. PICK s : SetTrack(n, q, s) /\ s.pc # "mark"
      <3>1. \A k : [track[n][q] EXCEPT !.pc = "refind", !.campaign = k].pc
                    = "refind"
        BY <1>0 DEF TrackStates
      <3>2. NoTrack("done").pc = "done"
        BY DEF NoTrack
      <3> QED
        BY <1>3, <3>1, <3>2
    <2>2. track'[m][p] = IF n = m /\ q = p THEN s ELSE track[m][p]
      BY <1>2, <2>1, Zenon
    <2> QED
      BY <2>1, <2>2
  <1>4. ASSUME NEW n \in Messages, NEW q \in Paths, TrackRefind(n, q)
        PROVE  \/ track'[m][p] = track[m][p]
               \/ \E r \in Runs, w \in Rows :
                    /\ send[r][w] = "sent"
                    /\ track'[m][p].run = r /\ track'[m][p].row = w
    <2>1. CASE SetTrack(n, q, NoTrack("done"))
      BY <1>3, <2>1
    <2>2. ASSUME NEW r \in Runs, NEW w \in Rows, Awaiting(r, w, from[n]),
                 SetTrack(n, q, [track[n][q] EXCEPT !.pc = "mark", !.run = r,
                                                    !.row = w])
          PROVE  \/ track'[m][p] = track[m][p]
                 \/ /\ send[r][w] = "sent"
                    /\ track'[m][p].run = r /\ track'[m][p].row = w
      <3> DEFINE s == [track[n][q] EXCEPT !.pc = "mark", !.run = r, !.row = w]
      <3>1. s.run = r /\ s.row = w
        BY <1>0 DEF TrackStates
      <3>2. SetTrack(n, q, s)
        BY <2>2
      <3> HIDE DEF s
      <3>3. track'[m][p] = IF n = m /\ q = p THEN s ELSE track[m][p]
        BY <1>2, <3>2, Zenon
      <3> QED
        BY <2>2, <3>1, <3>3 DEF Awaiting
    <2> QED
      BY <1>4, <2>1, <2>2 DEF TrackRefind
  <1>5. ASSUME NEW r \in Runs, NEW w \in Rows, send[r][w] = "sent"
        PROVE  w \in messaged'[r]
    BY <1>0, <1>5, MessagedGrows DEF MetricsAreReal, CountsAsSent
  <1>6. ASSUME NEW n \in Messages, NEW q \in Paths,
               TrackFind(n, q) \/ TrackMark(n, q) \/ TrackFails(n, q)
        PROVE  track'[m][p] = track[m][p]
    BY <1>3, <1>6, Zenon DEF TrackFind, TrackMark, TrackFails
  <1>7. ASSUME NEW n \in Messages, Inbound(n)
        PROVE  track'[m][p] = track[m][p]
    BY <1>0, <1>7 DEF Inbound, NoTrack
  <1>8. ASSUME Crash PROVE track'[m][p] = track[m][p]
    BY <1>0, <1>8 DEF Crash, NoTrack
  <1>9. ASSUME \/ \E c \in Calls : CallRead(c) \/ CallWrite(c)
               \/ \E r \in Runs : RunStep(r)
               \/ \E n \in Marks : MarkRead(n) \/ MarkWrite(n)
               \/ UNCHANGED vars
        PROVE  track' = track
    BY <1>9 DEF CallRead, CallWrite, RunStep, RunStart, RunResolve, RunBreak,
       RunNext, RunCreateSend, RunDeliver, RunUnsendable, RunMiss, RunRecord,
       RunRecordFails, RunComplete, RunAborts, MarkRead, MarkWrite, vars,
       tracker
  <1>10. CASE \E n \in Messages, q \in Paths : TrackRefind(n, q)
    BY <1>1, <1>4, <1>5, <1>10
  <1>11. CASE track'[m][p] # track[m][p] /\ Next
    BY <1>6, <1>7, <1>8, <1>9, <1>10, <1>11 DEF Next, TrackStep
  <1> QED
    BY <1>1, <1>9, <1>11

LEMMA WitnessStep ==
  ASSUME IInv, [Next]_vars
  PROVE  WitnessOK' /\ MarksOK'
  BY SentStep, MarksStep, ChecksStep DEF WitnessOK, MarksOK

-----------------------------------------------------------------------------
(* The metrics.                                                            *)

(* A send becomes one that counts only when its message has gone out, or   *)
(* because the operator said so.                                           *)
LEMMA SendStory ==
  ASSUME IInv, Next, NEW r \in Runs, NEW w \in Rows
  PROVE  \/ send'[r][w] = send[r][w]
         \/ send'[r][w] \in {"queued", "failed"}
         \/ w \in messaged[r]
         \/ send'[r][w] = "unsubscribed" /\ MarkedUnsubscribed(r, w)'
  <1>0. /\ send \in [Runs -> [Rows -> SendStatuses]]
        /\ mark \in [Marks -> MarkStates] /\ WitnessOK
    BY DEF IInv, TypeOK
  <1>1. ASSUME NEW s \in Runs, RunStep(s)
        PROVE  \/ send'[r][w] = send[r][w]
               \/ send'[r][w] \in {"queued", "failed"}
               \/ w \in messaged[r]
    <2>1. CASE RunCreateSend(s)
      BY <1>0, <2>1 DEF RunCreateSend
    <2>2. CASE RunRecord(s)
      BY <1>0, <2>2 DEF RunRecord, WitnessOK
    <2>3. CASE ~RunCreateSend(s) /\ ~RunRecord(s)
      BY <1>1, <2>3 DEF RunStep, RunStart, RunResolve, RunBreak, RunNext,
         RunDeliver, RunUnsendable, RunMiss, RunRecordFails, RunComplete,
         RunAborts, sends
    <2> QED
      BY <2>1, <2>2, <2>3
  <1>2. ASSUME NEW m \in Marks, MarkWrite(m)
        PROVE  \/ send'[r][w] = send[r][w]
               \/ w \in messaged[r]
               \/ send'[r][w] = "unsubscribed" /\ MarkedUnsubscribed(r, w)'
    <2>1. /\ send' = [send EXCEPT ![mark[m].run][mark[m].row] = mark[m].op]
          /\ mark' = [mark EXCEPT ![m].pc = "done"]
          /\ mark[m].op \in MarkOps
          /\ mark[m].op = "delivered"
               => mark[m].row \in messaged[mark[m].run]
      BY <1>0, <1>2 DEF MarkWrite, WitnessOK
    <2>2. /\ mark'[m].pc = "done" /\ mark'[m].op = mark[m].op
          /\ mark'[m].run = mark[m].run /\ mark'[m].row = mark[m].row
      BY <1>0, <2>1 DEF MarkStates
    <2>3. \/ send'[r][w] = send[r][w]
          \/ /\ send'[r][w] = mark[m].op
             /\ mark[m].run = r /\ mark[m].row = w
      BY <1>0, <2>1
    <2> QED
      BY <2>1, <2>2, <2>3 DEF MarkedUnsubscribed, MarkOps
  <1>3. ASSUME NEW m \in Messages, NEW p \in Paths, TrackMark(m, p)
        PROVE  send'[r][w] = send[r][w] \/ w \in messaged[r]
    BY <1>0, <1>3 DEF TrackMark, WitnessOK
  <1>4. ASSUME \/ \E c \in Calls : CallRead(c) \/ CallWrite(c)
               \/ \E m \in Marks : MarkRead(m)
               \/ \E m \in Messages : Inbound(m)
               \/ \E m \in Messages, p \in Paths :
                    \/ TrackFind(m, p) \/ TrackRefind(m, p)
                    \/ TrackFails(m, p)
               \/ Crash
        PROVE  send' = send
    BY <1>4 DEF CallRead, CallWrite, MarkRead, Inbound, TrackFind,
       TrackRefind, TrackFails, Crash, sends
  <1>5. CASE \E s \in Runs : RunStep(s)
    BY <1>1, <1>5
  <1>6. CASE \E m \in Marks : MarkWrite(m)
    BY <1>2, <1>6
  <1>7. CASE \E m \in Messages, p \in Paths : TrackMark(m, p)
    BY <1>3, <1>7
  <1> QED
    BY <1>4, <1>5, <1>6, <1>7 DEF Next, TrackStep

(* A reply row is created by a check of the tracker, once.                 *)
LEMMA ReplyChanges ==
  ASSUME IInv, [Next]_vars, NEW r \in Runs, NEW w \in Rows
  PROVE  \/ reply'[r][w] = reply[r][w]
         \/ reply[r][w] = "none" /\ w \in messaged[r]
  <1>0. reply \in [Runs -> [Rows -> Messages \cup {"none"}]] /\ WitnessOK
    BY DEF IInv, TypeOK
  <1>1. ASSUME NEW m \in Messages, NEW p \in Paths, TrackMark(m, p)
        PROVE  \/ reply'[r][w] = reply[r][w]
               \/ reply[r][w] = "none" /\ w \in messaged[r]
    BY <1>0, <1>1 DEF TrackMark, HasNoReply, WitnessOK
  <1>2. ASSUME \A m \in Messages, p \in Paths : ~TrackMark(m, p)
        PROVE  reply' = reply
    BY <1>2 DEF Next, CallRead, CallWrite, RunStep, RunStart, RunResolve,
       RunBreak, RunNext, RunCreateSend, RunDeliver, RunUnsendable, RunMiss,
       RunRecord, RunRecordFails, RunComplete, RunAborts, MarkRead, MarkWrite,
       Inbound, TrackStep, TrackFind, TrackRefind, TrackFails, Crash, sends,
       vars
  <1> QED
    BY <1>1, <1>2

LEMMA MetricsStep ==
  ASSUME IInv, [Next]_vars
  PROVE  MetricsAreReal'
  <1> SUFFICES ASSUME NEW r \in Runs, NEW w \in Rows
               PROVE  /\ reply'[r][w] # "none" => w \in messaged'[r]
                      /\ CountsAsSent(r, w)'
                           => \/ w \in messaged'[r]
                              \/ /\ send'[r][w] = "unsubscribed"
                                 /\ MarkedUnsubscribed(r, w)'
    BY DEF MetricsAreReal
  <1>0. /\ reply[r][w] # "none" => w \in messaged[r]
        /\ CountsAsSent(r, w)
             => \/ w \in messaged[r]
                \/ send[r][w] = "unsubscribed" /\ MarkedUnsubscribed(r, w)
    BY DEF IInv, MetricsAreReal
  <1>1. messaged[r] \subseteq messaged'[r]
    BY MessagedGrows
  <1>2. MarkedUnsubscribed(r, w) => MarkedUnsubscribed(r, w)'
    BY MarkChanges DEF MarkedUnsubscribed
  <1>3. CASE Next
    BY <1>0, <1>1, <1>2, <1>3, SendStory, ReplyChanges DEF CountsAsSent
  <1>4. CASE UNCHANGED vars
    <2>1. send' = send /\ reply' = reply
      BY <1>4 DEF vars, sends
    <2> QED
      BY <1>0, <1>1, <1>2, <2>1 DEF CountsAsSent
  <1> QED
    BY <1>3, <1>4
-----------------------------------------------------------------------------
(* The invariant holds in every behaviour of the campaigns.                *)
LEMMA Invariance == Spec => []IInv
  <1>1. IInv /\ [Next]_vars => IInv'
    BY TypeStep, ProgressStep, BooksStep, TrialsStep, OverrunStep,
       CompletedStep, WitnessStep, MetricsStep DEF IInv
  <1> QED
    BY InitIInv, <1>1, PTL DEF Spec

(* The rows, the runs, the requests and the tracker's checks keep their    *)
(* types.                                                                  *)
THEOREM TypeCorrect == Spec => []TypeOK
  <1>1. IInv => TypeOK
    BY DEF IInv
  <1> QED
    BY Invariance, <1>1, PTL

(* After a pause or a cancellation a run sends the messages of at most one *)
(* batch of rows more, for every batch size, however many runs share the   *)
(* campaign and however often the channel has to be asked.                 *)
THEOREM StopIsHeededByRuns == Spec => []StopIsHeeded
  <1>1. IInv => StopIsHeeded
    <2> SUFFICES ASSUME IInv, NEW r \in Runs
                 PROVE  Cardinality(overrun[r]) <= Batch
      BY DEF StopIsHeeded
    <2>1. /\ overrun[r] \in SUBSET Rows /\ run[r].sinceCheck \in Nat
          /\ Batch \in Nat
      BY CampaignConstants DEF IInv, TypeOK, RunStates
    <2>2. Cardinality(overrun[r]) \in Nat
      BY <2>1, OverrunSize
    <2>3. /\ Cardinality(overrun[r]) <= run[r].sinceCheck
          /\ run[r].sinceCheck <= Batch
      BY DEF IInv, OverrunOK, Limited
    <2> QED
      BY <2>1, <2>2, <2>3
  <1> QED
    BY Invariance, <1>1, PTL

(* A completed campaign has been served by a run from the first to the     *)
(* last row it could reach.                                                *)
THEOREM CompletionIsEarned == Spec => []CompletedIsServed
  <1>1. IInv => CompletedIsServed
    BY DEF IInv
  <1> QED
    BY Invariance, <1>1, PTL

(* No send counts as sent unless its message went out or the operator      *)
(* marked it as unsubscribed.                                              *)
THEOREM MetricsCountMessages == Spec => []MetricsAreReal
  <1>1. IInv => MetricsAreReal
    BY DEF IInv
  <1> QED
    BY Invariance, <1>1, PTL

(* A reply row, once created, is never replaced, whichever checks race.    *)
THEOREM RepliesStay == Spec => RepliesStand
  <1>1. IInv /\ [Next]_vars =>
          [\A r \in Runs, w \in Rows :
             reply[r][w] # "none" => reply'[r][w] = reply[r][w]]_vars
    BY ReplyChanges
  <1> QED
    BY Invariance, <1>1, PTL DEF Spec, RepliesStand

-----------------------------------------------------------------------------
(* An execution's steps are counted: for each row it has still to take one *)
(* to take it, one to create its send, MaxTries to send its message and    *)
(* two to write what came of it; those left with the row it holds; and the *)
(* last.                                                                   *)
PerRow == MaxTries + 4

StepsAt(p, n) ==
  CASE p = "create"  -> MaxTries + 4
    [] p = "deliver" -> MaxTries + 3 - n
    [] p = "sent"    -> 3
    [] p = "failed"  -> 2
    [] p = "loop"    -> 1
    [] OTHER         -> 0

StepsLeft(r) ==
  IF run[r].pc = "resolve" THEN PerRow * Cardinality(Rows) + 2
  ELSE PerRow * Cardinality(run[r].todo) + StepsAt(run[r].pc, run[r].tries)
MaxSteps == PerRow * Cardinality(Rows) + PerRow
Over(r)  == run[r].pc \in {"stopped", "done", "aborted"}
Alive(r) == run[r].pc # "idle" /\ ~Over(r)

(* An execution under way has at most so many steps before it.             *)
StepsOK == \A r \in Runs : Alive(r) => StepsLeft(r) \in 1..MaxSteps

(* Whatever the operator, the channel, the tracker and the other runs do,  *)
(* a step of an execution, failures included, ends it or leaves it fewer   *)
(* steps; nothing gives it any, and one that is over does not go on.       *)
CountsDown(r) ==
  /\ Alive(r) /\ RunStep(r) => Over(r)' \/ StepsLeft(r)' < StepsLeft(r)
  /\ Alive(r) => Over(r)' \/ StepsLeft(r)' <= StepsLeft(r)
  /\ Over(r)  => UNCHANGED run[r]
StepsCountDown == [][\A r \in Runs : CountsDown(r)]_vars

LEMMA Times ==
  ASSUME NEW k \in Nat
  PROVE  /\ \A n \in Nat : k * n \in Nat
         /\ \A n \in Nat : n >= 1 => k * (n - 1) = k * n - k
         /\ \A n \in Nat, m \in Nat : n <= m => k * n <= k * m
  <1>1. ASSUME NEW n \in Nat, NEW m \in Nat, n <= m
        PROVE  k * n <= k * m
    <2>1. m - n \in Nat /\ m = n + (m - n)
      BY <1>1
    <2>2. ASSUME NEW d \in Nat PROVE k * (n + d) = k * n + k * d /\ k * d >= 0
      OBVIOUS
    <2>3. k * m = k * n + k * (m - n) /\ k * (m - n) >= 0
      BY <2>1, <2>2
    <2>4. k * m \in Int /\ k * n \in Int /\ k * (m - n) \in Int
      BY <2>1
    <2> QED
      BY <2>3, <2>4
  <1> QED
    BY <1>1

(* The work that some of the rows still need.                              *)
LEMMA Counting ==
  ASSUME NEW S \in SUBSET Rows
  PROVE  /\ PerRow \in Nat /\ PerRow >= 5
         /\ PerRow * Cardinality(S) \in Nat
         /\ PerRow * Cardinality(S) <= PerRow * Cardinality(Rows)
         /\ PerRow * Cardinality(Rows) \in Nat
         /\ \A w \in S : PerRow * Cardinality(S \ {w})
                           = PerRow * Cardinality(S) - PerRow
  <1>1. PerRow \in Nat /\ PerRow >= 5
    BY CampaignConstants DEF PerRow
  <1>2. IsFiniteSet(S) /\ Cardinality(S) <= Cardinality(Rows)
    BY RowsAreFinite, FS_Subset
  <1>3. Cardinality(S) \in Nat /\ Cardinality(Rows) \in Nat
    BY <1>2, RowsAreFinite, FS_CardinalityType
  <1>4. ASSUME NEW w \in S
        PROVE  PerRow * Cardinality(S \ {w}) = PerRow * Cardinality(S) - PerRow
    <2>1. IsFiniteSet(S \ {w}) /\ Cardinality(S \ {w}) = Cardinality(S) - 1
      BY <1>2, FS_RemoveElement
    <2>2. Cardinality(S \ {w}) \in Nat
      BY <2>1, FS_CardinalityType
    <2>3. Cardinality(S) >= 1
      BY <1>3, <2>1, <2>2
    <2> QED
      BY <1>1, <1>3, <2>1, <2>3, Times
  <1> QED
    BY <1>1, <1>2, <1>3, <1>4, Times

LEMMA StepsAtPlace ==
  ASSUME NEW n \in Nat
  PROVE  /\ StepsAt("create", n) = PerRow
         /\ StepsAt("deliver", n) = PerRow - 1 - n
         /\ StepsAt("sent", n) = 3 /\ StepsAt("failed", n) = 2
         /\ StepsAt("loop", n) = 1
  BY CampaignConstants DEF StepsAt, PerRow

(* A step of the execution itself.                                         *)
LEMMA OwnStep ==
  ASSUME IInv, NEW r \in Runs, RunStep(r), Alive(r)
  PROVE  Over(r)' \/ (StepsLeft(r)' < StepsLeft(r) /\ StepsLeft(r)' \in Int)
  <1> DEFINE R == run[r]
             T == run'[r]
             work(S) == PerRow * Cardinality(S)
             x == work(R.todo)
  <1>0. /\ R \in RunStates /\ R.todo \in SUBSET Rows /\ R.tries \in Nat
        /\ Trials(r)
    BY DEF IInv, TypeOK, RunStates, TrialsOK
  <1>1. \A s : SetRun(r, s) => T = s
    BY OwnRecord
  <1>2. /\ PerRow \in Nat /\ PerRow >= 5 /\ x \in Nat
        /\ \A w \in R.todo : work(R.todo \ {w}) = x - PerRow
    BY <1>0, Counting
  <1>3. PerRow = MaxTries + 4 /\ MaxTries \in Nat
    BY CampaignConstants DEF PerRow
  <1>4. CASE RunResolve(r)
    <2>1. PICK a \in Audiences :
            T = [R EXCEPT !.pc = "loop", !.audience = a, !.todo = Listed(a)]
      BY <1>1, <1>4 DEF RunResolve
    <2>2. T.pc = "loop" /\ T.todo = Listed(a) /\ T.tries = R.tries
      BY <1>0, <2>1 DEF RunStates
    <2>3. StepsLeft(r)' = work(Listed(a)) + 1
      BY <1>0, <2>2, StepsAtPlace DEF StepsLeft
    <2>4. StepsLeft(r) = work(Rows) + 2
      BY <1>4 DEF RunResolve, StepsLeft
    <2>5. Listed(a) \in SUBSET Rows
      BY DEF Listed
    <2>6. /\ work(Listed(a)) \in Nat /\ work(Rows) \in Nat
          /\ work(Listed(a)) <= work(Rows)
      BY <2>5, Counting
    <2> HIDE DEF work
    <2> QED
      BY <2>3, <2>4, <2>6
  <1>5. CASE RunNext(r)
    <2>1. PICK w \in R.todo : T = [R EXCEPT
            !.pc = IF Contact(r, w) \in Unreachable THEN "loop" ELSE "create",
            !.todo = @ \ {w},
            !.at = IF Contact(r, w) \in Unreachable THEN "none" ELSE w,
            !.sinceCheck = IF CheckDue(r) THEN 1 ELSE @ + 1]
      BY <1>1, <1>5 DEF RunNext
    <2>2. /\ T.pc \in {"loop", "create"} /\ T.todo = R.todo \ {w}
          /\ T.tries = R.tries
      BY <1>0, <2>1 DEF RunStates
    <2>3. work(T.todo) = x - PerRow
      BY <1>2, <2>2
    <2> HIDE DEF x
    <2>4. StepsLeft(r)' \in {x - PerRow + 1, x - PerRow + PerRow}
      BY <1>0, <2>2, <2>3, StepsAtPlace DEF StepsLeft
    <2>5. StepsLeft(r) = x + 1
      BY <1>0, <1>5, StepsAtPlace DEF RunNext, StepsLeft, x
    <2> QED
      BY <1>2, <2>4, <2>5
  <1>6. ASSUME R.pc \in Holding, T.pc \in Holding \cup {"loop"},
               T.todo = R.todo
        PROVE  /\ StepsLeft(r) = x + StepsAt(R.pc, R.tries)
               /\ StepsLeft(r)' = x + StepsAt(T.pc, T.tries)
    BY <1>6 DEF StepsLeft, Holding
  <1> HIDE DEF x, work
  <1>7. CASE RunCreateSend(r)
    <2>1. /\ R.pc = "create" /\ T.pc = "deliver" /\ T.todo = R.todo
          /\ T.tries = R.tries /\ R.tries = 0
      BY <1>0, <1>1, <1>7 DEF RunCreateSend, RunStates, Trials
    <2>2. /\ StepsLeft(r) = x + PerRow
          /\ StepsLeft(r)' = x + (PerRow - 1 - R.tries)
      BY <1>0, <1>6, <2>1, StepsAtPlace DEF Holding
    <2> QED
      BY <1>0, <1>2, <2>1, <2>2
  <1>8. CASE RunDeliver(r) \/ RunUnsendable(r)
    <2>1. /\ R.pc = "deliver" /\ T.pc \in {"sent", "failed"}
          /\ T.todo = R.todo /\ T.tries = R.tries /\ R.tries < MaxTries
      BY <1>0, <1>1, <1>8 DEF RunDeliver, RunUnsendable, RunStates, Trials
    <2>2. /\ StepsLeft(r) = x + (PerRow - 1 - R.tries)
          /\ StepsLeft(r)' \in {x + 3, x + 2}
      BY <1>0, <1>6, <2>1, StepsAtPlace DEF Holding
    <2> QED
      BY <1>0, <1>2, <1>3, <2>1, <2>2
  <1>9. CASE RunMiss(r)
    <2>1. /\ R.pc = "deliver" /\ T.todo = R.todo /\ T.tries = R.tries + 1
          /\ R.tries < MaxTries
          /\ T.pc = IF R.tries + 1 < MaxTries THEN "deliver" ELSE "failed"
      BY <1>0, <1>1, <1>9 DEF RunMiss, RunStates, Trials
    <2>2. T.pc \in {"deliver", "failed"} /\ T.tries \in Nat
      BY <1>0, <2>1
    <2>3. StepsLeft(r) = x + (PerRow - 1 - R.tries)
      BY <1>0, <1>6, <2>1, <2>2, StepsAtPlace DEF Holding
    <2>4. StepsLeft(r)' \in {x + (PerRow - 1 - T.tries), x + 2}
      BY <1>6, <2>1, <2>2, StepsAtPlace DEF Holding
    <2> QED
      BY <1>0, <1>2, <1>3, <2>1, <2>3, <2>4
  <1>10. CASE RunRecord(r) \/ RunRecordFails(r)
    <2>1. /\ \/ R.pc \in {"sent", "failed"} /\ T.pc = "loop"
             \/ R.pc = "sent" /\ T.pc = "failed"
          /\ T.todo = R.todo /\ T.tries \in Nat
      <3>1. ASSUME RunRecord(r)
            PROVE  /\ R.pc \in {"sent", "failed"} /\ T.pc = "loop"
                   /\ T.todo = R.todo /\ T.tries = 0
        BY <1>0, <1>1, <3>1 DEF RunRecord, PutDown, RunStates
      <3>2. ASSUME RunRecordFails(r)
            PROVE  /\ R.pc = "sent" /\ T.pc = "failed"
                   /\ T.todo = R.todo /\ T.tries = R.tries
        BY <1>0, <1>1, <3>2 DEF RunRecordFails, RunStates
      <3> QED
        BY <1>0, <1>10, <3>1, <3>2
    <2>2. /\ StepsLeft(r) = x + StepsAt(R.pc, R.tries)
          /\ StepsLeft(r)' = x + StepsAt(T.pc, T.tries)
      BY <1>6, <2>1 DEF Holding
    <2> QED
      BY <1>0, <1>2, <2>1, <2>2, StepsAtPlace
  <1>11. CASE RunBreak(r) \/ RunComplete(r) \/ RunAborts(r)
    <2>1. T.pc \in {"stopped", "done", "aborted"}
      BY <1>0, <1>1, <1>11 DEF RunBreak, RunComplete, RunAborts, PutDown,
         RunStates
    <2> QED
      BY <2>1 DEF Over
  <1>12. ~RunStart(r)
    BY DEF RunStart, Alive
  <1> QED
    BY <1>4, <1>5, <1>7, <1>8, <1>9, <1>10, <1>11, <1>12 DEF RunStep

(* A step of anybody else, and a step of an execution that is over.        *)
LEMMA OtherStep ==
  ASSUME TypeOK, [Next]_vars, NEW r \in Runs
  PROVE  /\ RunStep(r) \/ run'[r] = run[r] \/ (Alive(r) /\ Over(r)')
         /\ Over(r) => run'[r] = run[r]
  <1>1. run \in [Runs -> RunStates] /\ run[r] \in RunStates
    BY DEF TypeOK
  <1>2. ASSUME NEW q \in Runs, RunStep(q) PROVE q = r \/ run'[r] = run[r]
    BY <1>1, <1>2 DEF RunStep, RunStart, RunResolve, RunBreak, RunNext,
       RunCreateSend, RunDeliver, RunUnsendable, RunMiss, RunRecord,
       RunRecordFails, RunComplete, RunAborts, SetRun
  <1>3. RunStep(r) => ~Over(r)
    BY DEF RunStep, RunStart, RunResolve, RunBreak, RunNext, RunCreateSend,
       RunDeliver, RunUnsendable, RunMiss, RunRecord, RunRecordFails,
       RunComplete, RunAborts, AtEnd, Over
  <1>4. CASE Crash
    BY <1>1, <1>4 DEF Crash, Alive, Over, PutDown, RunStates
  <1>5. CASE ~Crash /\ \A q \in Runs : ~RunStep(q)
    BY <1>5 DEF Next, vars, CallRead, CallWrite, MarkRead, MarkWrite, Inbound,
       TrackStep, TrackFind, TrackRefind, TrackMark, TrackFails
  <1> QED
    BY <1>2, <1>3, <1>4, <1>5

(* An execution has at most MaxTries + 4 steps for each row of its         *)
(* audience, a contact that comes twice counted twice, from its start.     *)
LEMMA StepsLeftBounded ==
  ASSUME IInv, NEW r \in Runs
  PROVE  /\ StepsLeft(r) \in Int
         /\ Alive(r) => StepsLeft(r) \in 1..MaxSteps
  <1>0. /\ run[r] \in RunStates /\ run[r].todo \in SUBSET Rows
        /\ run[r].tries \in Nat /\ Trials(r)
    BY DEF IInv, TypeOK, RunStates, TrialsOK
  <1> DEFINE x == PerRow * Cardinality(run[r].todo)
             y == PerRow * Cardinality(Rows)
             z == StepsAt(run[r].pc, run[r].tries)
  <1>1. x \in Nat /\ y \in Nat /\ x <= y /\ PerRow \in Nat /\ PerRow >= 5
    BY <1>0, Counting
  <1>2. PerRow = MaxTries + 4 /\ MaxTries \in Nat
    BY CampaignConstants DEF PerRow
  <1>3. z \in Int
    BY <1>0, <1>2 DEF StepsAt
  <1>4. run[r].pc \in Holding \cup {"loop"} => z \in 1..PerRow
    <2>1. CASE run[r].pc = "deliver"
      BY <1>0, <1>1, <1>2, <2>1, StepsAtPlace DEF Trials
    <2>2. CASE run[r].pc \in {"create", "sent", "failed", "loop"}
      BY <1>0, <1>1, <2>2, StepsAtPlace
    <2> QED
      BY <2>1, <2>2 DEF Holding
  <1>5. /\ StepsLeft(r) = IF run[r].pc = "resolve" THEN y + 2 ELSE x + z
        /\ MaxSteps = y + PerRow
    BY DEF StepsLeft, MaxSteps
  <1>6. Alive(r) => run[r].pc \in Holding \cup {"loop", "resolve"}
    BY <1>0 DEF RunStates, RunPcs, Alive, Over, Holding
  <1> HIDE DEF x, y, z
  <1> QED
    BY <1>1, <1>3, <1>4, <1>5, <1>6

LEMMA StepsStep ==
  ASSUME IInv, [Next]_vars, NEW r \in Runs
  PROVE  CountsDown(r)
  <1>1. run'[r] = run[r] => StepsLeft(r)' = StepsLeft(r)
    BY DEF StepsLeft
  <1>2. StepsLeft(r) \in Int
    BY StepsLeftBounded
  <1>3. Alive(r) /\ RunStep(r) =>
          Over(r)' \/ (StepsLeft(r)' < StepsLeft(r) /\ StepsLeft(r)' \in Int)
    BY OwnStep
  <1>4. /\ RunStep(r) \/ run'[r] = run[r] \/ Over(r)'
        /\ Over(r) => run'[r] = run[r]
    BY OtherStep DEF IInv
  <1>5. Alive(r) => Over(r)' \/ StepsLeft(r)' <= StepsLeft(r)
    <2>1. CASE run'[r] = run[r]
      BY <1>1, <1>2, <2>1
    <2>2. CASE Alive(r) /\ RunStep(r)
      BY <1>2, <1>3, <2>2
    <2> QED
      BY <1>4, <2>1, <2>2
  <1> QED
    BY <1>3, <1>4, <1>5 DEF CountsDown

(* An execution has at most MaxTries + 4 steps for each row of an audience *)
(* of the longest kind, and for the one it holds.                          *)
THEOREM StepsAreBounded == Spec => []StepsOK
  <1>1. IInv => StepsOK
    BY StepsLeftBounded DEF StepsOK
  <1> QED
    BY <1>1, Invariance, PTL

(* An execution of a campaign counts down to its end, across pauses and    *)
(* resumptions of the campaign, failures, crashes, and other executions.   *)
THEOREM RunsCountDown == Spec => StepsCountDown
  <1>1. IInv /\ [Next]_vars => [\A r \in Runs : CountsDown(r)]_vars
    BY StepsStep
  <1> QED
    BY <1>1, Invariance, PTL DEF Spec, StepsCountDown

-----------------------------------------------------------------------------
(* The promise.  What a step of one run does to its places in it.          *)
HandOf(x) == IF x.pc \in Holding THEN x.at ELSE "none"
StageOf(x) == CASE x.pc = "idle"    -> "idle"
                [] x.pc = "resolve" -> "begun"
                [] x.pc \in {"stopped", "done", "aborted"} -> "over"
                [] OTHER            -> "open"

Serves   == [s \in Runs |-> run[s].campaign]
Audience == [s \in Runs |-> run[s].audience]
Left     == [s \in Runs |-> run[s].todo]
Hands    == [s \in Runs |-> Hand(s)]
Missed   == [s \in Runs |-> run[s].tries]
Stages   == [s \in Runs |-> Stage(s)]

LEMMA RunPlaces ==
  ASSUME TypeOK, NEW r \in Runs, NEW x, run' = [run EXCEPT ![r] = x]
  PROVE  /\ Serves'   = [Serves EXCEPT ![r] = x.campaign]
         /\ Audience' = [Audience EXCEPT ![r] = x.audience]
         /\ Left'     = [Left EXCEPT ![r] = x.todo]
         /\ Hands'    = [Hands EXCEPT ![r] = HandOf(x)]
         /\ Missed'   = [Missed EXCEPT ![r] = x.tries]
         /\ Stages'   = [Stages EXCEPT ![r] = StageOf(x)]
  <1>1. \A s \in Runs : run'[s] = IF s = r THEN x ELSE run[s]
    BY DEF TypeOK
  <1>2. \A s \in Runs : Hand(s)' = IF s = r THEN HandOf(x) ELSE Hand(s)
    BY <1>1 DEF Hand, HandOf, Holding
  <1>3. \A s \in Runs : Stage(s)' = IF s = r THEN StageOf(x) ELSE Stage(s)
    BY <1>1 DEF Stage, StageOf
  <1>4. Hands' = [Hands EXCEPT ![r] = HandOf(x)]
    BY <1>2 DEF Hands
  <1>5. Stages' = [Stages EXCEPT ![r] = StageOf(x)]
    BY <1>3 DEF Stages
  <1>6. Serves' = [Serves EXCEPT ![r] = x.campaign]
    <2>1. \A s \in Runs :
            run'[s].campaign = IF s = r THEN x.campaign ELSE run[s].campaign
      BY <1>1
    <2> QED
      BY <2>1, Zenon DEF Serves
  <1>7. Audience' = [Audience EXCEPT ![r] = x.audience]
    <2>1. \A s \in Runs :
            run'[s].audience = IF s = r THEN x.audience ELSE run[s].audience
      BY <1>1
    <2> QED
      BY <2>1, Zenon DEF Audience
  <1>8. Left' = [Left EXCEPT ![r] = x.todo]
    <2>1. \A s \in Runs :
            run'[s].todo = IF s = r THEN x.todo ELSE run[s].todo
      BY <1>1
    <2> QED
      BY <2>1, Zenon DEF Left
  <1>9. Missed' = [Missed EXCEPT ![r] = x.tries]
    <2>1. \A s \in Runs :
            run'[s].tries = IF s = r THEN x.tries ELSE run[s].tries
      BY <1>1
    <2> QED
      BY <2>1, Zenon DEF Missed
  <1> QED
    BY <1>4, <1>5, <1>6, <1>7, <1>8, <1>9

(* What it leaves alone of them.                                           *)
LEMMA RunKeepsPlaces ==
  ASSUME TypeOK, NEW r \in Runs, NEW x, run' = [run EXCEPT ![r] = x]
  PROVE  /\ x.campaign = run[r].campaign => Serves' = Serves
         /\ x.audience = run[r].audience => Audience' = Audience
         /\ x.todo = run[r].todo => Left' = Left
         /\ HandOf(x) = Hand(r) => Hands' = Hands
         /\ x.tries = run[r].tries => Missed' = Missed
         /\ StageOf(x) = Stage(r) => Stages' = Stages
  <1>1. \A s \in Runs : run'[s] = IF s = r THEN x ELSE run[s]
    BY DEF TypeOK
  <1>2. \A s \in Runs : Hand(s)' = IF s = r THEN HandOf(x) ELSE Hand(s)
    BY <1>1 DEF Hand, HandOf, Holding
  <1>3. \A s \in Runs : Stage(s)' = IF s = r THEN StageOf(x) ELSE Stage(s)
    BY <1>1 DEF Stage, StageOf
  <1>4. HandOf(x) = Hand(r) => Hands' = Hands
    BY <1>2 DEF Hands
  <1>5. StageOf(x) = Stage(r) => Stages' = Stages
    BY <1>3 DEF Stages
  <1>6. x.campaign = run[r].campaign => Serves' = Serves
    BY <1>1 DEF Serves
  <1>7. x.audience = run[r].audience => Audience' = Audience
    BY <1>1 DEF Audience
  <1>8. x.todo = run[r].todo => Left' = Left
    BY <1>1 DEF Left
  <1>9. x.tries = run[r].tries => Missed' = Missed
    BY <1>1 DEF Missed
  <1> QED
    BY <1>4, <1>5, <1>6, <1>7, <1>8, <1>9

(* A step that keeps all the places, and one that nothing sees.            *)
Kept == UNCHANGED <<Serves, Audience, Left, Hands, Stages>>
Quiet == UNCHANGED <<status, sends, run, messaged, copies>>
LEMMA QuietStutters == Quiet => UNCHANGED Promise!vars
  BY DEF Quiet, sends, Stage, Hand, Promise!vars, Promise!place,
     Promise!people, Promise!trials, Promise!books

(* An execution's steps are those of the promise, or change nothing of it. *)
LEMMA BeginPromised ==
  ASSUME IInv, NEW r \in Runs, RunStart(r)
  PROVE  Promise!Begin(r)
  <1>0. TypeOK /\ run[r] \in RunStates
    BY DEF IInv, TypeOK
  <1>1. PICK k \in Campaigns :
          /\ status[k] = "active"
          /\ run' = [run EXCEPT ![r] =
               [run[r] EXCEPT !.pc = "resolve", !.campaign = k]]
    BY DEF RunStart, SetRun
  <1> DEFINE x == [run[r] EXCEPT !.pc = "resolve", !.campaign = k]
  <1>2. /\ x.campaign = k /\ x.audience = run[r].audience
        /\ x.todo = run[r].todo /\ x.tries = run[r].tries
        /\ HandOf(x) = "none" /\ StageOf(x) = "begun"
    BY <1>0 DEF RunStates, HandOf, StageOf, Holding
  <1>3. run[r].pc = "idle" /\ UNCHANGED <<status, sends, messaged, copies>>
    BY DEF RunStart, history
  <1>4. Stage(r) = "idle" /\ Hand(r) = "none"
    BY <1>3 DEF Stage, Hand
  <1>5. run' = [run EXCEPT ![r] = x]
    BY <1>1
  <1> HIDE DEF x
  <1>6. /\ Serves' = [Serves EXCEPT ![r] = x.campaign]
        /\ Stages' = [Stages EXCEPT ![r] = StageOf(x)]
    BY <1>0, <1>5, RunPlaces, Zenon
  <1>7. /\ Audience' = Audience /\ Left' = Left /\ Hands' = Hands
        /\ Missed' = Missed
    BY <1>0, <1>2, <1>4, <1>5, RunKeepsPlaces, Zenon
  <1>8. Stages[r] = "idle"
    BY <1>4 DEF Stages
  <1>9. UNCHANGED <<status, Audience, Left, Hands, Missed, copies,
                    Promise!books>>
    BY <1>3, <1>7 DEF Promise!books, sends
  <1> QED
    BY <1>1, <1>2, <1>6, <1>8, <1>9 DEF Promise!Begin, Promise!Pass,
       Promise!people, Promise!trials, Serves, Stages, Audience, Left, Hands,
       Missed

LEMMA ResolvePromised ==
  ASSUME IInv, NEW r \in Runs, RunResolve(r)
  PROVE  Promise!Resolve(r)
  <1>0. TypeOK /\ run[r] \in RunStates
    BY DEF IInv, TypeOK
  <1>1. PICK a \in Audiences :
          run' = [run EXCEPT ![r] =
            [run[r] EXCEPT !.pc = "loop", !.audience = a, !.todo = Listed(a)]]
    BY DEF RunResolve, SetRun
  <1> DEFINE x == [run[r] EXCEPT !.pc = "loop", !.audience = a,
                                 !.todo = Listed(a)]
  <1>2. /\ x.campaign = run[r].campaign /\ x.audience = a
        /\ x.todo = Listed(a) /\ x.tries = run[r].tries
        /\ HandOf(x) = "none" /\ StageOf(x) = "open"
    BY <1>0 DEF RunStates, HandOf, StageOf, Holding
  <1>3. run[r].pc = "resolve" /\ UNCHANGED <<status, sends, messaged, copies>>
    BY DEF RunResolve, history
  <1>4. Stage(r) = "begun" /\ Hand(r) = "none"
    BY <1>3 DEF Stage, Hand
  <1>5. run' = [run EXCEPT ![r] = x]
    BY <1>1
  <1> HIDE DEF x
  <1>6. /\ Audience' = [Audience EXCEPT ![r] = x.audience]
        /\ Left' = [Left EXCEPT ![r] = x.todo]
        /\ Stages' = [Stages EXCEPT ![r] = StageOf(x)]
    BY <1>0, <1>5, RunPlaces, Zenon
  <1>7. Serves' = Serves /\ Hands' = Hands /\ Missed' = Missed
    BY <1>0, <1>2, <1>4, <1>5, RunKeepsPlaces, Zenon
  <1>8. Stages[r] = "begun"
    BY <1>4 DEF Stages
  <1>9. UNCHANGED <<status, Serves, Hands, Missed, copies, Promise!books>>
    BY <1>3, <1>7 DEF Promise!books, sends
  <1>10. a \in [Rows -> Contacts \cup {"none"}]
         /\ x.todo = {w \in Rows : a[w] # "none"}
    BY <1>2 DEF Audiences, Listed
  <1>11. /\ UNCHANGED <<status, Serves, Hands, Missed, copies>>
         /\ UNCHANGED Promise!books
    BY <1>9
  <1>12. /\ Audience' = [Audience EXCEPT ![r] = a]
         /\ Left' = [Left EXCEPT ![r] = {w \in Rows : a[w] # "none"}]
         /\ Stages' = [Stages EXCEPT ![r] = "open"]
    BY <1>2, <1>6, <1>10
  <1>13. Stages[r] = "begun" /\ Promise!Pass(r, "open")
    BY <1>8, <1>12 DEF Promise!Pass, Stages
  <1>14. UNCHANGED <<status, Serves, Hands, Promise!trials, Promise!books>>
    BY <1>11 DEF Promise!trials, Missed
  <1> QED
    BY <1>10, <1>12, <1>13, <1>14, Zenon
       DEF Promise!Resolve, Serves, Stages, Audience, Left, Hands

LEMMA ChoosePromised ==
  ASSUME IInv, NEW r \in Runs, RunNext(r)
  PROVE  Promise!Choose(r)
  <1>0. TypeOK /\ run[r] \in RunStates
    BY DEF IInv, TypeOK
  <1>1. PICK w \in run[r].todo :
          run' = [run EXCEPT ![r] = [run[r] EXCEPT
            !.pc = IF Contact(r, w) \in Unreachable THEN "loop" ELSE "create",
            !.todo = @ \ {w},
            !.at = IF Contact(r, w) \in Unreachable THEN "none" ELSE w,
            !.sinceCheck = IF CheckDue(r) THEN 1 ELSE @ + 1]]
    BY DEF RunNext, SetRun
  <1> DEFINE x == [run[r] EXCEPT
            !.pc = IF Contact(r, w) \in Unreachable THEN "loop" ELSE "create",
            !.todo = @ \ {w},
            !.at = IF Contact(r, w) \in Unreachable THEN "none" ELSE w,
            !.sinceCheck = IF CheckDue(r) THEN 1 ELSE @ + 1]
             h == IF Contact(r, w) \in Unreachable THEN "none" ELSE w
  <1>2. /\ x.campaign = run[r].campaign /\ x.audience = run[r].audience
        /\ x.todo = run[r].todo \ {w} /\ x.tries = run[r].tries
        /\ StageOf(x) = "open" /\ HandOf(x) = h
    BY <1>0 DEF RunStates, HandOf, StageOf, Holding
  <1>3. run[r].pc = "loop" /\ UNCHANGED <<status, sends, messaged, copies>>
    BY DEF RunNext, history
  <1>4. Stage(r) = "open" /\ Hand(r) = "none"
    BY <1>3 DEF Stage, Hand
  <1>5. run' = [run EXCEPT ![r] = x]
    BY <1>1
  <1>6. h = IF Audience[r][w] \in Unreachable THEN "none" ELSE w
    BY DEF Audience, Contact
  <1> HIDE DEF x, h
  <1>7. /\ Left' = [Left EXCEPT ![r] = x.todo]
        /\ Hands' = [Hands EXCEPT ![r] = HandOf(x)]
    BY <1>0, <1>5, RunPlaces, Zenon
  <1>8. /\ Serves' = Serves /\ Audience' = Audience /\ Stages' = Stages
        /\ Missed' = Missed
    BY <1>0, <1>2, <1>4, <1>5, RunKeepsPlaces, Zenon
  <1>9. /\ Left' = [Left EXCEPT ![r] = Left[r] \ {w}]
        /\ Hands' = [Hands EXCEPT ![r] = IF Audience[r][w] \in Unreachable
                                        THEN "none" ELSE w]
        /\ w \in Left[r] /\ Stages[r] = "open" /\ Hands[r] = "none"
    BY <1>2, <1>4, <1>6, <1>7 DEF Left, Hands, Stages
  <1>10. UNCHANGED <<status, Serves, Audience, Missed, copies, Stages,
                     Promise!books>>
    BY <1>3, <1>8 DEF Promise!books, sends
  <1> QED
    BY <1>9, <1>10, Zenon DEF Promise!Choose, Promise!trials, Serves, Stages,
       Audience, Left, Hands, Missed

(* The row in hand, for the steps that have one.                           *)
LEMMA InHand ==
  ASSUME IInv, NEW r \in Runs, run[r].pc \in Holding
  PROVE  /\ Hand(r) = run[r].at /\ run[r].at \in Rows
         /\ Hand(r) # "none" /\ Stage(r) = "open"
         /\ Hands[r] = run[r].at /\ Stages[r] = "open"
  BY CampaignConstants DEF IInv, ProgressOK, Progress, Hand, Stage,
     Holding, Hands, Stages

LEMMA Moved ==
  ASSUME NEW x \in RunStates, NEW g \in RunPcs
  PROVE  LET y == [x EXCEPT !.pc = g] IN
         /\ y \in RunStates /\ y.pc = g /\ y.at = x.at
         /\ y.campaign = x.campaign /\ y.audience = x.audience
         /\ y.todo = x.todo /\ y.tries = x.tries
  <1> DEFINE y == [x EXCEPT !.pc = g]
  <1>1. y \in RunStates
    BY RunRecords
  <1>2. /\ y.pc = g /\ y.at = x.at /\ y.campaign = x.campaign
        /\ y.audience = x.audience /\ y.todo = x.todo /\ y.tries = x.tries
    BY DEF RunStates
  <1> QED
    BY <1>1, <1>2

(* A step from one place with a row in hand to another.                    *)
LEMMA HandKept ==
  ASSUME IInv, NEW r \in Runs, run[r].pc \in Holding, NEW x \in RunStates,
         run' = [run EXCEPT ![r] = x], x.pc \in Holding, x.at = run[r].at,
         x.campaign = run[r].campaign, x.audience = run[r].audience,
         x.todo = run[r].todo
  PROVE  Kept /\ (x.tries = run[r].tries => Missed' = Missed)
  <1>1. HandOf(x) = Hand(r) /\ StageOf(x) = Stage(r)
    BY InHand DEF HandOf, StageOf, Holding
  <1>2. TypeOK
    BY DEF IInv
  <1>3. /\ Serves' = Serves /\ Audience' = Audience /\ Left' = Left
        /\ Hands' = Hands /\ Stages' = Stages
        /\ x.tries = run[r].tries => Missed' = Missed
    BY <1>1, <1>2, RunKeepsPlaces, Zenon
  <1> QED
    BY <1>3 DEF Kept

LEMMA Unmoved ==
  ASSUME UNCHANGED <<status, sends, messaged, copies, Missed>>, Kept
  PROVE  UNCHANGED Promise!vars
  BY DEF Kept, sends, Serves, Audience, Left, Hands, Missed, Stages,
     Promise!vars, Promise!place, Promise!people, Promise!trials,
     Promise!books

LEMMA NotePromised ==
  ASSUME IInv, NEW r \in Runs, RunCreateSend(r)
  PROVE  Promise!Note(r)
  <1>0. TypeOK /\ run[r] \in RunStates /\ Books(r)
    BY DEF IInv, TypeOK, BooksOK
  <1> DEFINE x == [run[r] EXCEPT !.pc = "deliver"]
  <1>1. run[r].pc = "create" /\ run' = [run EXCEPT ![r] = x]
    BY DEF RunCreateSend, SetRun
  <1>2. /\ x \in RunStates /\ x.pc = "deliver" /\ x.at = run[r].at
        /\ x.campaign = run[r].campaign /\ x.audience = run[r].audience
        /\ x.todo = run[r].todo /\ x.tries = run[r].tries
    <2>1. "deliver" \in RunPcs /\ "sent" \in RunPcs /\ "failed" \in RunPcs
      BY DEF RunPcs
    <2> QED
      BY <1>0, <2>1, Moved, Zenon
  <1>3. /\ send' = [send EXCEPT ![r][run[r].at] = "queued"]
        /\ send[r][run[r].at] = "absent"
        /\ UNCHANGED <<status, reply, optedOut, messaged, copies>>
    BY <1>0, <1>1 DEF RunCreateSend, history, Books
  <1> HIDE DEF x
  <1>4. Hand(r) = run[r].at /\ Hand(r) # "none"
    BY <1>1, InHand DEF Holding
  <1>5. Kept /\ Missed' = Missed
    BY <1>1, <1>2, HandKept DEF Holding
  <1> QED
    BY <1>3, <1>4, <1>5 DEF Kept, Promise!Note, Promise!Noted, Promise!Write,
       Promise!place, Promise!people, Promise!trials, Serves, Stages,
       Audience, Left, Hands, Missed

(* An attempt that is under way.                                           *)
LEMMA TryingAt ==
  ASSUME IInv, NEW r \in Runs, run[r].pc = "deliver"
  PROVE  Promise!Trying(r) /\ Hand(r) = run[r].at
  <1>1. Books(r) /\ Trials(r)
    BY DEF IInv, BooksOK, TrialsOK
  <1>2. Hand(r) = run[r].at /\ Hand(r) # "none"
    BY InHand DEF Holding
  <1> QED
    BY <1>1, <1>2 DEF Books, Trials, Promise!Trying, Promise!Noted

LEMMA TellPromised ==
  ASSUME IInv, NEW r \in Runs, RunDeliver(r)
  PROVE  Promise!Tell(r)
  <1>0. TypeOK /\ run[r] \in RunStates
    BY DEF IInv, TypeOK
  <1> DEFINE x == [run[r] EXCEPT !.pc = "sent"]
  <1>1. run[r].pc = "deliver" /\ run' = [run EXCEPT ![r] = x]
    BY DEF RunDeliver, SetRun
  <1>2. /\ x \in RunStates /\ x.pc = "sent" /\ x.at = run[r].at
        /\ x.campaign = run[r].campaign /\ x.audience = run[r].audience
        /\ x.todo = run[r].todo /\ x.tries = run[r].tries
    <2>1. "deliver" \in RunPcs /\ "sent" \in RunPcs /\ "failed" \in RunPcs
      BY DEF RunPcs
    <2> QED
      BY <1>0, <2>1, Moved, Zenon
  <1>3. /\ UNCHANGED <<status, sends>>
        /\ messaged' = [messaged EXCEPT ![r] = @ \cup {run[r].at}]
        /\ copies' = [copies EXCEPT ![r] = @ + 1]
    BY DEF RunDeliver, GoesOut
  <1> HIDE DEF x
  <1>4. Kept /\ Missed' = Missed
    BY <1>1, <1>2, HandKept DEF Holding
  <1>5. Promise!Trying(r) /\ Hand(r) = run[r].at
    BY <1>1, TryingAt
  <1>6. Promise!GoesOut(r)
    BY <1>3, <1>5 DEF Promise!GoesOut
  <1> QED
    BY <1>3, <1>4, <1>5, <1>6 DEF Kept, Promise!Tell, Promise!people, Serves,
       Stages, Audience, Left, Hands, Missed, sends

LEMMA MissPromised ==
  ASSUME IInv, NEW r \in Runs, RunMiss(r)
  PROVE  Promise!Miss(r)
  <1>0. TypeOK /\ run[r] \in RunStates /\ run[r].tries \in Nat
    BY DEF IInv, TypeOK, RunStates
  <1>1. PICK g \in {"deliver", "failed"} : run' = [run EXCEPT ![r] =
          [run[r] EXCEPT !.pc = g, !.tries = run[r].tries + 1]]
    BY Zenon DEF RunMiss, SetRun
  <1> DEFINE x == [run[r] EXCEPT !.pc = g, !.tries = run[r].tries + 1]
  <1>2. /\ x \in RunStates /\ x.pc \in Holding /\ x.at = run[r].at
        /\ x.campaign = run[r].campaign /\ x.audience = run[r].audience
        /\ x.todo = run[r].todo /\ x.tries = run[r].tries + 1
    <2>1. g \in RunPcs /\ g \in Holding /\ run[r].tries + 1 \in Nat
      BY <1>0 DEF RunPcs, Holding
    <2>2. x \in RunStates
      BY <1>0, <2>1, RunRecords
    <2>3. /\ x.pc = g /\ x.at = run[r].at /\ x.campaign = run[r].campaign
          /\ x.audience = run[r].audience /\ x.todo = run[r].todo
          /\ x.tries = run[r].tries + 1
      BY <1>0 DEF RunStates
    <2> QED
      BY <2>1, <2>2, <2>3
  <1>3. /\ UNCHANGED <<status, sends>> /\ run[r].pc = "deliver"
        /\ \/ /\ messaged' = [messaged EXCEPT ![r] = @ \cup {run[r].at}]
              /\ copies' = [copies EXCEPT ![r] = @ + 1]
           \/ UNCHANGED <<messaged, copies>>
    BY DEF RunMiss, GoesOut, history
  <1>4. run' = [run EXCEPT ![r] = x]
    BY <1>1
  <1> HIDE DEF x
  <1>5. Kept
    BY <1>2, <1>3, <1>4, HandKept DEF Holding
  <1>6. Missed' = [Missed EXCEPT ![r] = x.tries]
    BY <1>0, <1>4, RunPlaces, Zenon
  <1>7. Missed' = [Missed EXCEPT ![r] = Missed[r] + 1]
    BY <1>2, <1>6 DEF Missed
  <1>8. Promise!Trying(r) /\ Hand(r) = run[r].at
    BY <1>3, TryingAt
  <1>9. Promise!GoesOut(r) \/ UNCHANGED <<messaged, copies>>
    BY <1>3, <1>8 DEF Promise!GoesOut
  <1> QED
    BY <1>3, <1>5, <1>7, <1>8, <1>9 DEF Kept, Promise!Miss, Promise!people,
       Serves, Stages, Audience, Left, Hands, Missed, sends

LEMMA SettlePromised ==
  ASSUME IInv, NEW r \in Runs, RunRecord(r)
  PROVE  Promise!Settle(r)
  <1>0. TypeOK /\ run[r] \in RunStates /\ Books(r)
    BY DEF IInv, TypeOK, BooksOK
  <1> DEFINE x == PutDown(run[r], "loop")
  <1>1. /\ run[r].pc \in {"sent", "failed"} /\ run' = [run EXCEPT ![r] = x]
        /\ send' = [send EXCEPT ![r][run[r].at] = run[r].pc]
        /\ copies' = [copies EXCEPT ![r] = 0]
        /\ UNCHANGED <<status, reply, optedOut, messaged>>
    BY DEF RunRecord, SetRun
  <1>2. Hand(r) = run[r].at /\ Hand(r) # "none" /\ Stage(r) = "open"
    BY <1>1, InHand DEF Holding
  <1>3. /\ x.campaign = run[r].campaign /\ x.audience = run[r].audience
        /\ x.todo = run[r].todo /\ x.tries = 0 /\ HandOf(x) = "none"
        /\ StageOf(x) = Stage(r)
    BY <1>0, <1>2 DEF PutDown, RunStates, HandOf, StageOf, Holding
  <1>4. /\ send[r][run[r].at] # "absent"
        /\ run[r].pc = "sent" => run[r].at \in messaged[r]
    BY <1>0, <1>1 DEF Books, IInv, WitnessOK
  <1> HIDE DEF x
  <1>5. /\ Hands' = [Hands EXCEPT ![r] = HandOf(x)]
        /\ Missed' = [Missed EXCEPT ![r] = x.tries]
    BY <1>0, <1>1, RunPlaces, Zenon
  <1>6. /\ Serves' = Serves /\ Audience' = Audience /\ Left' = Left
        /\ Stages' = Stages
    BY <1>0, <1>1, <1>3, RunKeepsPlaces, Zenon
  <1>7. /\ Hands' = [Hands EXCEPT ![r] = "none"]
        /\ Missed' = [Missed EXCEPT ![r] = 0]
    BY <1>3, <1>5
  <1>8. Promise!Noted(r, Hand(r))
    BY <1>2, <1>4 DEF Promise!Noted
  <1>9. \/ Promise!Told(r, Hand(r)) /\ Promise!Write(r, Hand(r), "sent")
        \/ Promise!Write(r, Hand(r), "failed")
    BY <1>1, <1>2, <1>4 DEF Promise!Told, Promise!Write
  <1> QED
    BY <1>1, <1>2, <1>6, <1>7, <1>8, <1>9 DEF Promise!Settle, Promise!people,
       Serves, Stages, Audience, Left, Hands, Missed

(* There was no adapter, or the write of the outcome failed.               *)
LEMMA FailurePromised ==
  ASSUME IInv, NEW r \in Runs, RunUnsendable(r) \/ RunRecordFails(r)
  PROVE  UNCHANGED Promise!vars
  <1>0. run[r] \in RunStates
    BY DEF IInv, TypeOK
  <1> DEFINE x == [run[r] EXCEPT !.pc = "failed"]
  <1>1. /\ run[r].pc \in Holding /\ run' = [run EXCEPT ![r] = x]
        /\ UNCHANGED <<status, sends, messaged, copies>>
    BY DEF RunUnsendable, RunRecordFails, SetRun, history, Holding
  <1>2. /\ x \in RunStates /\ x.pc = "failed" /\ x.at = run[r].at
        /\ x.campaign = run[r].campaign /\ x.audience = run[r].audience
        /\ x.todo = run[r].todo /\ x.tries = run[r].tries
    <2>1. "deliver" \in RunPcs /\ "sent" \in RunPcs /\ "failed" \in RunPcs
      BY DEF RunPcs
    <2> QED
      BY <1>0, <2>1, Moved, Zenon
  <1> HIDE DEF x
  <1>3. Kept /\ Missed' = Missed
    BY <1>1, <1>2, HandKept DEF Holding
  <1> QED
    BY <1>1, <1>3, Unmoved

LEMMA CompletePromised ==
  ASSUME IInv, NEW r \in Runs, RunComplete(r)
  PROVE  Promise!Complete(r)
  <1>0. TypeOK /\ run[r] \in RunStates
    BY DEF IInv, TypeOK
  <1> DEFINE x == [run[r] EXCEPT !.pc = "done"]
  <1>1. /\ run[r].pc = "loop" /\ run[r].todo = {}
        /\ run' = [run EXCEPT ![r] = x]
        /\ status' = [status EXCEPT ![run[r].campaign] = "completed"]
        /\ UNCHANGED <<sends, messaged, copies>>
    BY DEF RunComplete, AtEnd, SetRun, SetStatus, Campaign
  <1>2. Stage(r) = "open" /\ Hand(r) = "none"
    BY <1>1 DEF Stage, Hand
  <1>3. /\ x.campaign = run[r].campaign /\ x.audience = run[r].audience
        /\ x.todo = run[r].todo /\ x.tries = run[r].tries
        /\ HandOf(x) = Hand(r) /\ StageOf(x) = "over"
    BY <1>0, <1>2 DEF RunStates, HandOf, StageOf, Holding
  <1> HIDE DEF x
  <1>4. Stages' = [Stages EXCEPT ![r] = StageOf(x)]
    BY <1>0, <1>1, RunPlaces, Zenon
  <1>5. /\ Serves' = Serves /\ Audience' = Audience /\ Left' = Left
        /\ Hands' = Hands /\ Missed' = Missed
    BY <1>0, <1>1, <1>3, RunKeepsPlaces, Zenon
  <1>6. UNCHANGED <<Serves, Audience, Left, Hands, Missed, copies,
                    Promise!books>>
    BY <1>1, <1>5 DEF Promise!books, sends
  <1>7. /\ Stages[r] = "open" /\ Hands[r] = "none" /\ Left[r] = {}
        /\ Serves[r] = run[r].campaign
    BY <1>1, <1>2 DEF Stages, Hands, Left, Serves
  <1> QED
    BY <1>1, <1>3, <1>4, <1>6, <1>7 DEF Promise!Complete, Promise!Pass,
       Promise!people, Promise!trials, Serves, Stages, Audience, Left, Hands,
       Missed

(* A stop, a failure or a crash, of one execution or of all.               *)
LEMMA LeavePromised ==
  ASSUME NEW gone \in SUBSET Runs, UNCHANGED <<status, sends, messaged>>,
         \A s \in gone :
           /\ run[s].pc \notin {"idle", "stopped", "done", "aborted"}
           /\ run'[s].pc \in {"stopped", "aborted"}
           /\ run'[s].campaign = run[s].campaign
           /\ run'[s].audience = run[s].audience
           /\ run'[s].todo = run[s].todo
           /\ run'[s].tries = 0,
         \A s \in Runs \ gone : run'[s] = run[s],
         copies' = [s \in Runs |-> IF s \in gone THEN 0 ELSE copies[s]]
  PROVE  Promise!Leave
  <1>1. UNCHANGED <<Serves, Audience, Left>>
    BY DEF Serves, Audience, Left
  <1>2. \A s \in Runs : Hand(s)' = IF s \in gone THEN "none" ELSE Hand(s)
    BY DEF Hand
  <1>3. \A s \in Runs : Stage(s)' = IF s \in gone THEN "over" ELSE Stage(s)
    BY DEF Stage
  <1>4. \A s \in gone : Stage(s) \in {"begun", "open"}
    BY DEF Stage
  <1>5. Hands' = [s \in Runs |-> IF s \in gone THEN "none" ELSE Hands[s]]
    BY <1>2 DEF Hands
  <1>6. Stages' = [s \in Runs |-> IF s \in gone THEN "over" ELSE Stages[s]]
    BY <1>3 DEF Stages
  <1>7. Missed' = [s \in Runs |-> IF s \in gone THEN 0 ELSE Missed[s]]
    <2>1. \A s \in Runs :
            run'[s].tries = IF s \in gone THEN 0 ELSE run[s].tries
      OBVIOUS
    <2> QED
      BY <2>1 DEF Missed
  <1>8. gone \in SUBSET {s \in Runs : Stages[s] \in {"begun", "open"}}
    BY <1>4 DEF Stages
  <1>9. UNCHANGED <<status, Serves, Audience, Left, Promise!books>>
    BY <1>1 DEF Promise!books, sends
  <1> QED
    BY <1>5, <1>6, <1>7, <1>8, <1>9, Zenon DEF Promise!Leave, Promise!people,
       Serves, Stages, Audience, Left, Hands, Missed

LEMMA StopPromised ==
  ASSUME IInv, NEW r \in Runs, RunBreak(r) \/ RunAborts(r)
  PROVE  Promise!Leave
  <1>0. /\ run \in [Runs -> RunStates] /\ run[r] \in RunStates
        /\ copies \in [Runs -> Nat] /\ Trials(r)
    BY DEF IInv, TypeOK, TrialsOK
  <1>1. /\ run[r].pc \notin {"idle", "stopped", "done", "aborted"}
        /\ UNCHANGED <<status, sends, messaged>>
    BY DEF RunBreak, RunAborts, AtEnd, history
  <1>2. \A s : SetRun(r, s) => /\ run'[r] = s
                               /\ \A q \in Runs \ {r} : run'[q] = run[q]
    BY <1>0 DEF SetRun
  <1>3. /\ run'[r].pc \in {"stopped", "aborted"}
        /\ run'[r].campaign = run[r].campaign
        /\ run'[r].audience = run[r].audience /\ run'[r].todo = run[r].todo
        /\ run'[r].tries = 0 /\ copies'[r] = 0
        /\ \A q \in Runs \ {r} : run'[q] = run[q]
        /\ copies' = [copies EXCEPT ![r] = 0]
    <2>1. CASE RunBreak(r)
      <3>1. /\ run[r].pc = "loop" /\ run[r].tries = 0 /\ copies[r] = 0
        BY <1>0, <2>1 DEF RunBreak, Trials
      <3> QED
        BY <1>0, <1>2, <2>1, <3>1 DEF RunBreak, RunStates, history
    <2>2. CASE RunAborts(r)
      <3>1. SetRun(r, PutDown(run[r], "aborted"))
        BY <2>2 DEF RunAborts
      <3>2. /\ run'[r] = PutDown(run[r], "aborted")
            /\ \A q \in Runs \ {r} : run'[q] = run[q]
        BY <1>2, <3>1
      <3>3. copies' = [copies EXCEPT ![r] = 0] /\ copies'[r] = 0
        BY <1>0, <2>2 DEF RunAborts
      <3> QED
        BY <1>0, <3>2, <3>3 DEF PutDown, RunStates
    <2> QED
      BY <2>1, <2>2
  <1>4. copies' = [s \in Runs |-> IF s \in {r} THEN 0 ELSE copies[s]]
    BY <1>0, <1>3
  <1>5. {r} \in SUBSET Runs /\ \A s \in {r} : s = r
    OBVIOUS
  <1> QED
    BY <1>1, <1>3, <1>4, <1>5, LeavePromised

LEMMA CrashPromised ==
  ASSUME IInv, Crash
  PROVE  Promise!Leave
  <1> DEFINE gone == {s \in Runs :
               run[s].pc \notin {"idle", "stopped", "done", "aborted"}}
  <1>0. /\ \A s \in Runs : run[s] \in RunStates /\ Trials(s)
        /\ copies \in [Runs -> Nat]
    BY DEF IInv, TypeOK, TrialsOK
  <1>1. UNCHANGED <<status, sends, messaged>>
    BY DEF Crash, history
  <1>2. \A s \in gone :
           /\ run[s].pc \notin {"idle", "stopped", "done", "aborted"}
           /\ run'[s].pc \in {"stopped", "aborted"}
           /\ run'[s].campaign = run[s].campaign
           /\ run'[s].audience = run[s].audience
           /\ run'[s].todo = run[s].todo
           /\ run'[s].tries = 0
    BY <1>0 DEF Crash, PutDown, RunStates
  <1>3. \A s \in Runs \ gone : run'[s] = run[s]
    BY DEF Crash
  <1>4. copies' = [s \in Runs |-> IF s \in gone THEN 0 ELSE copies[s]]
    <2>1. \A s \in Runs \ gone : copies[s] = 0
      BY <1>0 DEF Trials
    <2> QED
      BY <2>1 DEF Crash
  <1>5. gone \in SUBSET Runs
    OBVIOUS
  <1> HIDE DEF gone
  <1> QED
    BY <1>1, <1>2, <1>3, <1>4, <1>5, LeavePromised

(* The operator, and what comes back.                                      *)
LEMMA OperatePromised ==
  ASSUME IInv, NEW c \in Calls, CallWrite(c)
  PROVE  Quiet \/ \E k \in Campaigns : Promise!Operate(k)
  <1> DEFINE k == call[c].campaign
             v == StatusAfter(call[c].op)
  <1>1. /\ status' = [status EXCEPT ![k] = v]
        /\ UNCHANGED <<sends, run, messaged, copies>>
    BY DEF CallWrite, SetStatus
  <1>2. v \in {"draft", "active", "paused", "cancelled"}
    BY DEF StatusAfter
  <1>3. status \in [Campaigns -> Statuses]
    BY DEF IInv, TypeOK
  <1> HIDE DEF k, v
  <1>4. CASE k \notin Campaigns
    BY <1>1, <1>3, <1>4 DEF Quiet
  <1>5. CASE k \in Campaigns
    <2>1. UNCHANGED <<Promise!place, Promise!books>>
      BY <1>1 DEF Promise!place, Promise!people, Promise!trials,
         Promise!books, Stage, Hand, sends
    <2> QED
      BY <1>1, <1>2, <1>5, <2>1 DEF Promise!Operate
  <1> QED
    BY <1>4, <1>5

LEMMA MarkPromised ==
  ASSUME IInv, NEW m \in Marks, MarkWrite(m)
  PROVE  \E r \in Runs, w \in Rows : Promise!Mark(r, w)
  <1> DEFINE r == mark[m].run
             w == mark[m].row
  <1>1. /\ r \in Runs /\ w \in Rows /\ send[r][w] # "absent"
        /\ mark[m].op \in MarkOps
        /\ mark[m].op = "delivered" => w \in messaged[r]
    BY DEF IInv, WitnessOK, MarksOK, MarkWrite
  <1>2. /\ send' = [send EXCEPT ![r][w] = mark[m].op]
        /\ optedOut' = IF mark[m].op = "unsubscribed"
                       THEN optedOut \cup {run[r].audience[w]} ELSE optedOut
        /\ UNCHANGED <<status, reply, run, messaged, copies>>
    BY DEF MarkWrite, Contact, history
  <1>3. UNCHANGED Promise!place
    BY <1>2 DEF Promise!place, Promise!people, Promise!trials, Stage, Hand
  <1>4. Audience[r][w] = run[r].audience[w]
    BY <1>1 DEF Audience
  <1> HIDE DEF r, w
  <1>5. Promise!Mark(r, w)
    BY <1>1, <1>2, <1>3, <1>4 DEF Promise!Mark, Promise!Noted, Promise!Told,
       Promise!Write, MarkOps, Audience
  <1> QED
    BY <1>1, <1>5

LEMMA AnswerPromised ==
  ASSUME IInv, NEW m \in Messages, NEW p \in Paths, TrackMark(m, p)
  PROVE  Quiet \/ \E r \in Runs, w \in Rows : Promise!Answer(r, w)
  <1> DEFINE r == track[m][p].run
             w == track[m][p].row
  <1>1. r \in Runs /\ w \in Rows /\ w \in messaged[r]
    BY DEF IInv, WitnessOK, TrackMark
  <1>2. UNCHANGED <<status, optedOut, run, messaged, copies>>
    BY DEF TrackMark, history
  <1>3. UNCHANGED Promise!place
    BY <1>2 DEF Promise!place, Promise!people, Promise!trials, Stage, Hand
  <1>4. \/ UNCHANGED <<send, reply>>
        \/ /\ reply[r][w] = "none"
           /\ send' = [send EXCEPT ![r][w] = "replied"]
           /\ reply' = [reply EXCEPT ![r][w] = m]
    BY DEF TrackMark, HasNoReply
  <1> HIDE DEF r, w
  <1>5. CASE UNCHANGED <<send, reply>>
    BY <1>2, <1>5 DEF Quiet, sends
  <1>6. ASSUME reply[r][w] = "none",
               send' = [send EXCEPT ![r][w] = "replied"],
               reply' = [reply EXCEPT ![r][w] = m]
        PROVE  Promise!Answer(r, w)
    BY <1>1, <1>2, <1>3, <1>6 DEF Promise!Answer, Promise!Told, Promise!Write
  <1> QED
    BY <1>1, <1>4, <1>5, <1>6

-----------------------------------------------------------------------------
LEMMA PromiseInit == Init => Promise!Init
  BY DEF Init, NoAudience, Stage, Hand, Promise!Init

LEMMA PromiseStep ==
  ASSUME IInv, [Next]_vars
  PROVE  [Promise!Next]_Promise!vars
  <1>1. ASSUME NEW r \in Runs, RunStep(r)
        PROVE  Promise!Next \/ UNCHANGED Promise!vars
    BY <1>1, BeginPromised, ResolvePromised, ChoosePromised, NotePromised,
       TellPromised, MissPromised, SettlePromised, FailurePromised,
       CompletePromised, StopPromised DEF RunStep, Promise!Next
  <1>2. ASSUME NEW c \in Calls, CallWrite(c)
        PROVE  Quiet \/ Promise!Next
    BY <1>2, OperatePromised DEF Promise!Next
  <1>3. ASSUME NEW m \in Marks, MarkWrite(m)
        PROVE  Promise!Next
    BY <1>3, MarkPromised DEF Promise!Next
  <1>4. ASSUME NEW m \in Messages, NEW p \in Paths, TrackMark(m, p)
        PROVE  Quiet \/ Promise!Next
    BY <1>4, AnswerPromised DEF Promise!Next
  <1>5. CASE Crash
    BY <1>5, CrashPromised DEF Promise!Next
  <1>6. ASSUME \/ \E c \in Calls : CallRead(c)
               \/ \E m \in Marks : MarkRead(m)
               \/ \E m \in Messages : Inbound(m)
               \/ \E m \in Messages, p \in Paths :
                    \/ TrackFind(m, p) \/ TrackRefind(m, p)
                    \/ TrackFails(m, p)
               \/ UNCHANGED vars
        PROVE  Quiet
    BY <1>6 DEF CallRead, MarkRead, Inbound, TrackFind, TrackRefind,
       TrackFails, vars, history, Quiet
  <1> QED
    BY <1>1, <1>2, <1>3, <1>4, <1>5, <1>6, QuietStutters DEF Next, TrackStep

(* The executions, the operator's routes and the tracker keep the promise  *)
(* of CampaignPromise for any number of campaigns, contacts, executions,   *)
(* requests and messages and any audience, one that lists a contact more   *)
(* than once included, whatever was read before it was acted on.           *)
THEOREM CampaignPromiseKept == Spec => KeepsPromise
  BY Invariance, PromiseInit, PromiseStep, PTL
     DEF Spec, KeepsPromise, Promise!Spec
=============================================================================
