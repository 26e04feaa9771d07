----------------------------- MODULE Campaigns -----------------------------
(***************************************************************************)
(* Outbound campaigns: the runner that messages an audience                *)
(* (src/src/campaigns/campaign-runner.ts), the operator's routes           *)
(* (src/src/api/routes/campaigns.ts) and the reply tracker that a          *)
(* contact's message reaches twice, over the bus and by a direct call      *)
(* (src/src/campaigns/reply-tracker.ts, campaign-tracker.ts).              *)
(*                                                                         *)
(* A campaign stays active while it runs, so that a second execution may   *)
(* run beside the first.  The runner looks at the campaign's status once   *)
(* per batch; every write of a campaign or of a send is unconditional.     *)
(* The one constraint of the database is that a send has at most one reply *)
(* row.  An audience is a list, in which a contact may come more than once *)
(* (campaign-runner.ts:201-246 lists one for each row of an MCP server),   *)
(* so that sends are kept by the positions of the list, its rows.          *)
(***************************************************************************)
EXTENDS Naturals, FiniteSets

CONSTANTS
  Campaigns,    \* campaigns of a project
  Contacts,     \* contacts an audience may hold
  Rows,         \* positions in an audience
  Unreachable,  \* contacts without an identifier on the campaign's channel
  Runs,         \* executions, by the route or by the trigger-campaign tool
  Calls,        \* operator requests on a campaign
  Marks,        \* operator requests on a send
  Messages,     \* inbound messages
  Batch,        \* PROGRESS_BATCH
  MaxTries,     \* attempts of the channel resolver to send a message (3)
  MaxFaults     \* bound: database operations that fail, and crashes

ASSUME CampaignConstants ==
  /\ Unreachable \subseteq Contacts
  /\ Batch \in Nat \ {0} /\ MaxTries \in Nat \ {0} /\ MaxFaults \in Nat
  /\ "none" \notin Campaigns \cup Contacts \cup Rows \cup Runs \cup Messages

(* An audience is finite, which only the counts of rows and steps need.    *)
ASSUME RowsAreFinite == IsFiniteSet(Rows)

Statuses     == {"draft", "active", "paused", "completed", "cancelled"}
Stopped      == {"paused", "cancelled"}
SendStatuses == {"absent", "queued", "sent", "failed", "delivered", "replied",
                 "unsubscribed"}
RunPcs       == {"idle", "resolve", "loop", "create", "deliver", "sent",
                 "failed", "stopped", "done", "aborted"}
Ops          == {"pause", "resume", "cancel",
                 "patch draft", "patch active", "patch paused"}
MarkOps      == {"delivered", "unsubscribed"}
Paths        == {"bus", "direct"}

VARIABLES
  status,    \* [Campaigns -> Statuses]
  send,      \* [Runs -> [Rows -> SendStatuses]]: the sends a run creates
  reply,     \* [Runs -> [Rows -> message]]: the reply row of a send
  optedOut,  \* contacts tagged opted_out
  run,       \* [Runs -> [pc, campaign, audience, todo, at, tries,
             \*           sinceCheck]]
  call,      \* [Calls -> [pc, op, campaign]]
  mark,      \* [Marks -> [pc, op, run, row]]
  from,      \* [Messages -> contact, or "none" until it arrives]
  track,     \* [Messages -> [Paths -> [pc, campaign, run, row]]]
  messaged,  \* history: rows whose message went out
  copies,    \* history: how often the message in a run's hand went out
  overrun,   \* history: rows whose message went out since the campaign of
             \* their run was stopped
  faults

sends   == <<send, reply, optedOut>>
tracker == <<from, track>>
history == <<messaged, copies, overrun>>
vars    == <<status, sends, run, call, mark, tracker, history, faults>>

Audiences   == [Rows -> Contacts \cup {"none"}]
RunStates   == [pc : RunPcs, campaign : Campaigns \cup {"none"},
                audience : Audiences, todo : SUBSET Rows,
                at : Rows \cup {"none"}, tries : Nat, sinceCheck : Nat]
CallStates  == [pc : {"idle", "write", "done"}, op : Ops \cup {"none"},
                campaign : Campaigns \cup {"none"}]
MarkStates  == [pc : {"idle", "write", "done"}, op : MarkOps \cup {"none"},
                run : Runs \cup {"none"}, row : Rows \cup {"none"}]
TrackStates == [pc : {"idle", "find", "refind", "mark", "done"},
                campaign : Campaigns \cup {"none"},
                run : Runs \cup {"none"}, row : Rows \cup {"none"}]

TypeOK ==
  /\ status \in [Campaigns -> Statuses]
  /\ send \in [Runs -> [Rows -> SendStatuses]]
  /\ reply \in [Runs -> [Rows -> Messages \cup {"none"}]]
  /\ optedOut \in SUBSET Contacts
  /\ run \in [Runs -> RunStates]
  /\ call \in [Calls -> CallStates]
  /\ mark \in [Marks -> MarkStates]
  /\ from \in [Messages -> Contacts \cup {"none"}]
  /\ track \in [Messages -> [Paths -> TrackStates]]
  /\ messaged \in [Runs -> SUBSET Rows]
  /\ copies \in [Runs -> Nat]
  /\ overrun \in [Runs -> SUBSET Rows]
  /\ faults \in Nat

NoAudience  == [w \in Rows |-> "none"]
NoTrack(pc) == [pc |-> pc, campaign |-> "none", run |-> "none", row |-> "none"]
Init ==
  /\ status \in [Campaigns -> {"draft", "active"}]
  /\ send = [r \in Runs |-> [w \in Rows |-> "absent"]]
  /\ reply = [r \in Runs |-> [w \in Rows |-> "none"]]
  /\ optedOut = {}
  /\ run = [r \in Runs |-> [pc |-> "idle", campaign |-> "none",
                            audience |-> NoAudience, todo |-> {},
                            at |-> "none", tries |-> 0, sinceCheck |-> 0]]
  /\ call = [c \in Calls |-> [pc |-> "idle", op |-> "none",
                              campaign |-> "none"]]
  /\ mark = [m \in Marks |-> [pc |-> "idle", op |-> "none",
                              run |-> "none", row |-> "none"]]
  /\ from = [m \in Messages |-> "none"]
  /\ track = [m \in Messages |-> [p \in Paths |-> NoTrack("idle")]]
  /\ messaged = [r \in Runs |-> {}] /\ copies = [r \in Runs |-> 0]
  /\ overrun = [r \in Runs |-> {}]
  /\ faults = 0

Fault == faults < MaxFaults /\ faults' = faults + 1

(* A write of a campaign's status; overrun starts afresh for its runs      *)
(* unless the campaign is (still) stopped.                                 *)
SetStatus(k, s) ==
  /\ status' = [status EXCEPT ![k] = s]
  /\ overrun' = [r \in Runs |-> IF run[r].campaign = k /\ s \notin Stopped
                                THEN {} ELSE overrun[r]]

-----------------------------------------------------------------------------
(* The operator's requests on a campaign.  Each reads the row, may refuse  *)
(* it, and writes it later.                                                *)

Accepts(op, s) ==
  CASE op = "pause"  -> s = "active"
    [] op = "resume" -> s = "paused"
    [] op = "cancel" -> s \notin {"completed", "cancelled"}
    [] OTHER         -> TRUE

StatusAfterUnset(op) ==                                         \* mutant
  CASE op = "pause"  -> "pausing"
    [] op = "cancel" -> "cancelled"
    [] OTHER         -> "active"
StatusAfter(op) ==
  CASE op \in {"pause", "patch paused"}  -> "paused"
    [] op \in {"resume", "patch active"} -> "active"
    [] op = "cancel"                     -> "cancelled"
    [] OTHER                             -> "draft"

CallRead(c) ==
  /\ call[c].pc = "idle"
  /\ \E op \in Ops, k \in Campaigns :
       call' = [call EXCEPT ![c] =
         [pc |-> IF Accepts(op, status[k]) THEN "write" ELSE "done",
          op |-> op, campaign |-> k]]
  /\ UNCHANGED <<status, sends, run, mark, tracker, history, faults>>

CallWrite(c) ==
  /\ call[c].pc = "write"
  /\ SetStatus(call[c].campaign, StatusAfter(call[c].op))
  /\ call' = [call EXCEPT ![c].pc = "done"]
  /\ UNCHANGED <<sends, run, mark, tracker, messaged, copies, faults>>

-----------------------------------------------------------------------------
(* executeCampaign.                                                        *)

SetRun(r, s) == run' = [run EXCEPT ![r] = s]
PutDown(x, pc) == [x EXCEPT !.pc = pc, !.at = "none", !.tries = 0]
Campaign(r)  == run[r].campaign

RunStart(r) ==
  /\ run[r].pc = "idle"
  /\ \E k \in Campaigns :
       /\ status[k] = "active"
       /\ SetRun(r, [run[r] EXCEPT !.pc = "resolve", !.campaign = k])
  /\ UNCHANGED <<status, sends, call, mark, tracker, history, faults>>

Contact(r, w) == run[r].audience[w]

(* The contacts the filter, the cache or the MCP server answers: any list. *)
(* Rows without a phone or an e-mail address are left out of it.           *)
Listed(audience) == {w \in Rows : audience[w] # "none"}
RunResolve(r) ==
  /\ run[r].pc = "resolve"
  /\ \E audience \in Audiences :
       SetRun(r, [run[r] EXCEPT !.pc = "loop", !.audience = audience,
                                !.todo = Listed(audience)])
  /\ UNCHANGED <<status, sends, call, mark, tracker, history, faults>>

(* The status is read again before a row when a whole batch has been   *)
(* processed since the last look (processed % PROGRESS_BATCH = 0).         *)
CheckDueLate(r) == run[r].sinceCheck > Batch                    \* mutant
CheckDue(r)     == run[r].sinceCheck = Batch

RunBreak(r) ==
  /\ run[r].pc = "loop" /\ run[r].todo # {}
  /\ CheckDue(r) /\ status[Campaign(r)] \in Stopped
  /\ SetRun(r, [run[r] EXCEPT !.pc = "stopped"])
  /\ UNCHANGED <<status, sends, call, mark, tracker, history, faults>>

(* The next row, in whatever order the list has; one whose contact cannot  *)
(* be reached is counted and skipped.                                      *)
RunNext(r) ==
  /\ run[r].pc = "loop"
  /\ CheckDue(r) => status[Campaign(r)] \notin Stopped
  /\ \E w \in run[r].todo :
       SetRun(r, [run[r] EXCEPT
         !.pc = IF Contact(r, w) \in Unreachable THEN "loop" ELSE "create",
         !.todo = @ \ {w},
         !.at = IF Contact(r, w) \in Unreachable THEN "none" ELSE w,
         !.sinceCheck = IF CheckDue(r) THEN 1 ELSE @ + 1])
  /\ UNCHANGED <<status, sends, call, mark, tracker, history, faults>>

RunCreateSend(r) ==
  /\ run[r].pc = "create"
  /\ send' = [send EXCEPT ![r][run[r].at] = "queued"]
  /\ SetRun(r, [run[r] EXCEPT !.pc = "deliver"])
  /\ UNCHANGED <<status, reply, optedOut, call, mark, tracker, history,
                 faults>>

(* proactiveMessenger.send, attempt by attempt of the channel resolver.    *)
GoesOut(r) ==
  /\ messaged' = [messaged EXCEPT ![r] = @ \cup {run[r].at}]
  /\ copies' = [copies EXCEPT ![r] = @ + 1]
  /\ overrun' = [overrun EXCEPT ![r] =
       IF status[Campaign(r)] \in Stopped THEN @ \cup {run[r].at} ELSE @]

RunDeliver(r) ==
  /\ run[r].pc = "deliver" /\ GoesOut(r)
  /\ SetRun(r, [run[r] EXCEPT !.pc = "sent"])
  /\ UNCHANGED <<status, sends, call, mark, tracker, faults>>

(* There is no adapter to ask.                                             *)
RunUnsendable(r) ==
  /\ run[r].pc = "deliver" /\ run[r].tries = 0
  /\ SetRun(r, [run[r] EXCEPT !.pc = "failed"])
  /\ UNCHANGED <<status, sends, call, mark, tracker, history, faults>>

(* An attempt that fails, or that throws, may have reached the contact all *)
(* the same; it is repeated until there have been MaxTries.                *)
RunMiss(r) ==
  /\ run[r].pc = "deliver"
  /\ GoesOut(r) \/ UNCHANGED history
  /\ SetRun(r, [run[r] EXCEPT
       !.pc = IF run[r].tries + 1 < MaxTries THEN "deliver" ELSE "failed",
       !.tries = @ + 1])
  /\ UNCHANGED <<status, sends, call, mark, tracker, faults>>

(* The outcome is written to the row, whatever it holds by now.            *)
RunRecord(r) ==
  /\ run[r].pc \in {"sent", "failed"}
  /\ send' = [send EXCEPT ![r][run[r].at] = run[r].pc]
  /\ SetRun(r, PutDown(run[r], "loop"))
  /\ copies' = [copies EXCEPT ![r] = 0]
  /\ UNCHANGED <<status, reply, optedOut, call, mark, tracker, messaged,
                 overrun, faults>>

(* That write of "sent" throws: the catch takes the send for failed.       *)
RunRecordFails(r) ==
  /\ run[r].pc = "sent" /\ Fault
  /\ SetRun(r, [run[r] EXCEPT !.pc = "failed"])
  /\ UNCHANGED <<status, sends, call, mark, tracker, history>>

(* The end of the loop, without another look at the status.                *)
AtEndAfterBreak(r) ==                                           \* mutant
  /\ run[r].pc = "loop"
  /\ run[r].todo # {} => CheckDue(r) /\ status[Campaign(r)] \in Stopped
AtEnd(r) == run[r].pc = "loop" /\ run[r].todo = {}

RunComplete(r) ==
  /\ AtEnd(r)
  /\ SetStatus(Campaign(r), "completed")
  /\ SetRun(r, [run[r] EXCEPT !.pc = "done"])
  /\ UNCHANGED <<sends, call, mark, tracker, messaged, copies, faults>>

(* Any other operation that throws ends the run; the campaign stays as it  *)
(* is.                                                                     *)
RunAborts(r) ==
  /\ \/ run[r].pc \in {"resolve", "create", "failed"}
     \/ AtEnd(r)
     \/ run[r].pc = "loop" /\ CheckDue(r)
  /\ Fault
  /\ SetRun(r, PutDown(run[r], "aborted"))
  /\ copies' = [copies EXCEPT ![r] = 0]
  /\ UNCHANGED <<status, sends, call, mark, tracker, messaged, overrun>>

-----------------------------------------------------------------------------
(* The operator's requests on a send: mark-delivered wants a send that is  *)
(* "sent", mark-unsubscribed takes any and tags the contact as well.       *)

MarkRead(m) ==
  /\ mark[m].pc = "idle"
  /\ \E op \in MarkOps, r \in Runs, w \in Rows :
       /\ send[r][w] # "absent"
       /\ mark' = [mark EXCEPT ![m] =
            [pc |-> IF op = "delivered" /\ send[r][w] # "sent"
                    THEN "done" ELSE "write",
             op |-> op, run |-> r, row |-> w]]
  /\ UNCHANGED <<status, sends, run, call, tracker, history, faults>>

MarkWrite(m) ==
  LET r == mark[m].run
      w == mark[m].row IN
  /\ mark[m].pc = "write"
  /\ send' = [send EXCEPT ![r][w] = mark[m].op]
  /\ optedOut' = IF mark[m].op = "unsubscribed"
                 THEN optedOut \cup {Contact(r, w)} ELSE optedOut
  /\ mark' = [mark EXCEPT ![m].pc = "done"]
  /\ UNCHANGED <<status, reply, run, call, tracker, history, faults>>

-----------------------------------------------------------------------------
(* The reply tracker.                                                      *)

(* A contact's message: the event starts one check of the tracker, and the *)
(* inbound processor calls it for another, without waiting for the first.  *)
Inbound(m) ==
  /\ from[m] = "none"
  /\ \E c \in Contacts : from' = [from EXCEPT ![m] = c]
  /\ track' = [track EXCEPT ![m] = [p \in Paths |-> NoTrack("find")]]
  /\ UNCHANGED <<status, sends, run, call, mark, history, faults>>

SetTrack(m, p, s) == track' = [track EXCEPT ![m][p] = s]

(* The sends a message of c may answer.                                    *)
AwaitingQueued(r, w, c) ==                                      \* mutant
  Contact(r, w) = c /\ send[r][w] \in {"queued", "sent"}
Awaiting(r, w, c) == Contact(r, w) = c /\ send[r][w] = "sent"

(* The newest send of the last seven days, in any campaign: which one that *)
(* is, and whether there is one in the window, is left open.               *)
TrackFind(m, p) ==
  /\ track[m][p].pc = "find"
  /\ \/ \E r \in Runs, w \in Rows :
          /\ Awaiting(r, w, from[m])
          /\ SetTrack(m, p, [track[m][p] EXCEPT !.pc = "refind",
                                                !.campaign = Campaign(r)])
     \/ SetTrack(m, p, NoTrack("done"))
  /\ UNCHANGED <<status, sends, run, call, mark, from, history, faults>>

(* markCampaignReply looks again, in that campaign only.                   *)
TrackRefind(m, p) ==
  LET Hit(r, w) == /\ Campaign(r) = track[m][p].campaign
                   /\ Awaiting(r, w, from[m]) IN
  /\ track[m][p].pc = "refind"
  /\ \/ \E r \in Runs, w \in Rows :
          /\ Hit(r, w)
          /\ SetTrack(m, p, [track[m][p] EXCEPT !.pc = "mark", !.run = r,
                                                !.row = w])
     \/ /\ \A r \in Runs, w \in Rows : ~Hit(r, w)
        /\ SetTrack(m, p, NoTrack("done"))
  /\ UNCHANGED <<status, sends, run, call, mark, from, history, faults>>

(* The transaction: the send becomes "replied" and the reply row is        *)
(* created, or nothing happens because the send has a reply row already.   *)
HasNoReplyUnchecked(r, w) == send[r][w] # "absent"              \* mutant
HasNoReply(r, w)          == reply[r][w] = "none"

TrackMark(m, p) ==
  LET r == track[m][p].run
      w == track[m][p].row IN
  /\ track[m][p].pc = "mark"
  /\ \/ /\ HasNoReply(r, w)
        /\ send' = [send EXCEPT ![r][w] = "replied"]
        /\ reply' = [reply EXCEPT ![r][w] = m]
     \/ /\ ~HasNoReply(r, w)
        /\ UNCHANGED <<send, reply>>
  /\ SetTrack(m, p, NoTrack("done"))
  /\ UNCHANGED <<status, optedOut, run, call, mark, from, history, faults>>

(* A query throws: the catch logs it.                                      *)
TrackFails(m, p) ==
  /\ track[m][p].pc \in {"refind", "mark"} /\ Fault
  /\ SetTrack(m, p, NoTrack("done"))
  /\ UNCHANGED <<status, sends, run, call, mark, from, history>>

-----------------------------------------------------------------------------
(* The process crashes and is started again: everything in flight is gone. *)

Crash ==
  /\ Fault
  /\ run' = [r \in Runs |->
               IF run[r].pc \in {"idle", "stopped", "done", "aborted"}
               THEN run[r] ELSE PutDown(run[r], "aborted")]
  /\ call' = [c \in Calls |-> IF call[c].pc # "write" THEN call[c]
                              ELSE [call[c] EXCEPT !.pc = "done"]]
  /\ mark' = [m \in Marks |-> IF mark[m].pc # "write" THEN mark[m]
                              ELSE [mark[m] EXCEPT !.pc = "done"]]
  /\ track' = [m \in Messages |-> [p \in Paths |->
                 IF track[m][p].pc = "idle" THEN track[m][p]
                 ELSE NoTrack("done")]]
  /\ copies' = [r \in Runs |-> 0]
  /\ UNCHANGED <<status, sends, from, messaged, overrun>>

-----------------------------------------------------------------------------
RunStep(r) ==
  \/ RunStart(r) \/ RunResolve(r) \/ RunBreak(r) \/ RunNext(r)
  \/ RunCreateSend(r) \/ RunDeliver(r) \/ RunUnsendable(r) \/ RunMiss(r)
  \/ RunRecord(r) \/ RunRecordFails(r) \/ RunComplete(r) \/ RunAborts(r)

TrackStep(m, p) ==
  TrackFind(m, p) \/ TrackRefind(m, p) \/ TrackMark(m, p) \/ TrackFails(m, p)

Next ==
  \/ \E c \in Calls : CallRead(c) \/ CallWrite(c)
  \/ \E r \in Runs : RunStep(r)
  \/ \E m \in Marks : MarkRead(m) \/ MarkWrite(m)
  \/ \E m \in Messages : Inbound(m) \/ \E p \in Paths : TrackStep(m, p)
  \/ Crash

Spec == Init /\ [][Next]_vars

-----------------------------------------------------------------------------
(* Properties.                                                             *)

(* The operator can stop a run: after a pause or a cancellation has been   *)
(* written, and until another write takes the campaign out of that state,  *)
(* messages of no more than one batch of rows go out, wherever the run     *)
(* stood and however often the channel has to be asked                     *)
(* (campaign-runner.ts:440-462).                                           *)
StopIsHeeded == \A r \in Runs : Cardinality(overrun[r]) <= Batch

(* A campaign is marked completed only by a run that went through its      *)
(* whole audience: every row whose contact it can reach has a send of that *)
(* run, and its outcome has been written, across pauses, faults and        *)
(* crashes (campaign-runner.ts:582-587).                                   *)
Reachable(r, w) == Contact(r, w) \in Contacts \ Unreachable
Served(r) ==
  \A w \in Rows :
    Reachable(r, w) => send[r][w] \notin {"absent", "queued"}

CompletedIsServed ==
  \A k \in Campaigns :
    status[k] = "completed"
      => \E r \in Runs : /\ run[r].campaign = k /\ run[r].pc = "done"
                         /\ Served(r)

(* The metrics count a send as sent, and its reply, only if the message    *)
(* went out to the contact (campaign-tracker.ts:163-172); stale reads of   *)
(* the operator's routes and of the tracker do not change that.  The one   *)
(* exception is a send that the operator marked as unsubscribed while it   *)
(* was queued or had failed: the route accepts that (campaigns.ts:881-908) *)
(* and the tracker takes it to be impossible.                              *)
CountsAsSent(r, w) ==
  send[r][w] \in {"sent", "delivered", "replied", "unsubscribed"}
MarkedUnsubscribed(r, w) ==
  \E m \in Marks : /\ mark[m].pc = "done" /\ mark[m].op = "unsubscribed"
                   /\ mark[m].run = r /\ mark[m].row = w
MetricsAreReal ==
  \A r \in Runs, w \in Rows :
    /\ reply[r][w] # "none" => w \in messaged[r]
    /\ CountsAsSent(r, w)
         => \/ w \in messaged[r]
            \/ send[r][w] = "unsubscribed" /\ MarkedUnsubscribed(r, w)

(* The two checks of one message, or of two, never record a second reply   *)
(* on a send nor replace the one it has (campaign-tracker.ts:54-92).       *)
RepliesStand ==
  [][\A r \in Runs, w \in Rows :
       reply[r][w] # "none" => reply'[r][w] = reply[r][w]]_vars

(* The executions keep the promise of CampaignPromise step by step: a      *)
(* request or a check that rests on an old look at a row, a write that     *)
(* failed and a run that broke off do nothing to a send that its life does *)
(* not allow, and complete no campaign (campaign-runner.ts:378-602,        *)
(* campaign-tracker.ts:31-92, campaigns.ts:662-942).                       *)
Stage(r) == CASE run[r].pc = "idle"    -> "idle"
              [] run[r].pc = "resolve" -> "begun"
              [] run[r].pc \in {"stopped", "done", "aborted"} -> "over"
              [] OTHER                 -> "open"
Hand(r)  == IF run[r].pc \in {"create", "deliver", "sent", "failed"}
            THEN run[r].at ELSE "none"
Promise == INSTANCE CampaignPromise
             WITH serves   <- [r \in Runs |-> run[r].campaign],
                  audience <- [r \in Runs |-> run[r].audience],
                  left     <- [r \in Runs |-> run[r].todo],
                  hand     <- [r \in Runs |-> Hand(r)],
                  missed   <- [r \in Runs |-> run[r].tries],
                  stage    <- [r \in Runs |-> Stage(r)]
KeepsPromise == Promise!Spec
=============================================================================
