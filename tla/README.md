# TLA+ models of fomo-core (Nexus Core)

Nexus Core runs AI agents for many projects: a message arrives on a channel or
over HTTP, an agent loop calls a language model and tools, and around it there
are human approvals, scheduled tasks, outbound campaigns, research probes and
the channel adapters. This directory holds TLA+ modules of its stateful core,
the TLC configurations that model-check them on small instances, and TLAPS
proofs of what matters most for every value of the constants. All source paths
are relative to the repository (`src/...` below is the repository's own `src`).

    tlc -workers 2 -config MCApprovalGate.cfg MCApprovalGate
    tlapm ApprovalGateProofs.tla

`PROJECT.json` lists the components, the runs, a source range for every
definition that models code, a mutation of the model for every property of a
passing run, the hazards, the findings and the theorems.

## 1. Inventory

The program is one Node process (Fastify, Prisma over PostgreSQL, BullMQ over
Redis). Nothing runs in parallel inside the process, but every `await` lets any
other request, timer, poll or job go on; several hold what they read across an
`await` and then write the row without a condition. There are hardly any
transactions and no row locks, so a database operation is the unit of atomicity
and the models below have one action per operation.

| Component | State | Operations | Interacts with | What makes it correct |
|---|---|---|---|---|
| Approval gate, `src/security/approval-gate.ts` | rows `pending/approved/denied/expired`; `pendingTimers` in memory | `requestApproval`, `get`, `resolve`, timers, sweeper | tool registry asks; REST routes, Telegram and the dashboard decide; an approval resumes the agent | a resumed agent acts on a decision the row has had; late calls write nothing; with a policy nothing stays pending for ever |
| Approval routes, `src/api/routes/approvals.ts`, `telegram-webhook.ts`, `ws-dashboard.ts` | none of their own | `resolve`, `decide`, `approve`, `reject`; buttons and replies; `approval.decide` | gate, agent runner | refuse a decision that lost a race |
| Task manager, `src/scheduling/task-manager.ts` | rows `proposed/active/paused/rejected/completed/expired`, `nextRunAt`, `runCount` | create, propose, approve, reject, pause, resume, trigger | runner, over the rows | no run before an approval; an active row has a next run |
| Task runner, `src/scheduling/task-runner.ts` | BullMQ queue, run records, counter | poll, enqueue, worker, timeout | manager's rows, executor | due tasks are handled; a task is closed for a reason |
| Campaign runner, `src/campaigns/campaign-runner.ts` | campaign status, one send per row of the audience and run | execute: audience, batches, sends, completion | routes change the status under it; proactive messenger | a stop is heeded; completed means served; a send is counted only if it went out |
| Campaign routes, `src/api/routes/campaigns.ts` | same rows | PATCH, pause, resume, cancel, execute, mark-delivered, mark-unsubscribed | runner, tracker | |
| Reply tracker, `src/campaigns/reply-tracker.ts`, `campaign-tracker.ts` | reply rows, send status | two checks of every inbound message | inbound processor (direct call and event bus) | one reply row per send, never replaced |
| Agent runner, `src/core/agent-runner.ts` | a run's locals; the trace | turns, retries, fallback, tools, abort | cost guard, providers, tool registry | ends; bounded calls; heeds an abort; stops for a human |
| Cost guard, `src/cost/cost-guard.ts`, `prisma-usage-store.ts` | usage records of a project; request times in the memory of one run | `preCheck`, `recordUsage` | every run of the project | the budget is overrun by no more than what is in progress |
| Tool registry and tools, `src/tools/` | registered tools | `resolve`, and some fifty adapters | approval gate, scheduler, campaigns | risky tools ask first |
| Inbound processor, `src/channels/inbound-processor.ts`, `message-dedup.ts` | seen message ids in memory, contacts, sessions | process a message: dedup, contact, session, run, answer | channels, agent runner, reply tracker | one answer per message, sessions do not pile up, what was said is on record |
| Webhook queue and handoff, `src/channels/webhook-queue.ts`, `handoff.ts`, `src/api/routes/chatwoot-webhook.ts` | jobs with three attempts | enqueue, process, escalate by keyword or marker | agent runner, Chatwoot | every job ends; a retry answers again only after a failure |
| `runAgent` and `resumeAfterApproval`, `src/main.ts` | rows of sessions, messages, traces | run the agent in a session, save, answer | all of the above, approval gate | silent in a paused session |
| Research probes and their WAHA client, `src/research/`, `src/api/routes/research-*.ts` | probe sessions and turns, a Redis buffer and channel, run jobs with three attempts, opt-outs | runner, webhook, timeout, create/pause/resume/abort/retry, schedule tick | WAHA, Redis, BullMQ, analysis queue | a message is sent once, unless something failed, and in order; a timeout is true; what is analysed is whole; runs end |
| Agents and their registry, `src/agents/agent-registry.ts`, `src/api/routes/agents.ts`, admin tools | agents' rows with status and channels; a cache of a minute | get, refresh, invalidate; create, change, pause, resume, delete, clone | chat set-up reads it; routes and tools write | no row is served much past its time; an invalidation is heeded; one active agent per channel |
| Prompt layers, `src/infrastructure/repositories/prompt-layer-repository.ts`, `src/templates/` | versions of three types, one active | create, activate, seed, update from a template | chat set-up reads them; routes, tools, sandbox and templates write | one active layer of each type, never none |
| MCP manager | connections | reconnect | chat set-up | |
| Everything else: providers, memory, knowledge, files, secrets, HTTP guards, observability, dashboards, CLI | | | | no protocol of its own |

The hard behaviours are few and come back everywhere: read, `await`, write
without a condition; timers and sweeps that overlap because `setInterval` does
not wait; repository updates that answer `null` instead of throwing; and state
in memory (timers, polls, runs in flight) that a restart loses while the rows
remain. `PROJECT.json` names each one at its line under `hazards`, with the
properties that would catch it going wrong.

## 2. Modules

| Module | Lines | What it is |
|---|---|---|
| `ApprovalGate` | 428 | gate, store, timers, sweeper, the callers that decide |
| `ApprovalPromise` | 63 | what the gate promises, without rows, timers and handlers |
| `ScheduledTasks` | 462 | task manager, poll loop, queue, worker |
| `TaskPromise` | 125 | what the scheduler promises of a task, without polls, jobs, requests and snapshots |
| `Campaigns` | 479 | campaign runner, operator's routes, reply tracker |
| `CampaignPromise` | 164 | what campaigns promise, without batches, stale requests and the checks of the tracker |
| `AgentLoop` | 331 | agent loop, cost guard, the registry's `resolve` |
| `Conversation` | 445 | dedup, inbound processor, webhook queue, `runAgent`, sending, handoff, resumed runs |
| `ConversationPromise` | 145 | what the handlers promise the customer, without sessions, jobs and lookups |
| `ResearchProbe` | 632 | probe runner, WAHA webhook, routes, schedule tick, session repository |
| `ProbePromise` | 161 | what a probe promises of its conversations, without job statuses, buffers, channels and webhook calls |
| `AgentSetup` | 504 | agent registry, agents' rows and channels, prompt layers; their routes, tools, sandbox and templates |
| `*Proofs` | | theorems and proofs about each of the seven, the refinements included; that of the conversation is in `ConversationPromiseProofs` |
| `MC*` | | instances for TLC, with symmetry where no liveness is checked; `MCApprovalGate`, which checks liveness too, begins with one of each two initial states that differ by exchanging the calls, and with one call at least that approves; they replace no definition |

Who composes with whom: `Conversation` is itself a composition of the entry
points (direct channel, queue, inline webhook, decided approval) with the one
`runAgent` they share; the agent loop inside a run is `AgentLoop`, of which
`Conversation` keeps only that it ends with a text, with an empty one, with the
handoff marker, or by throwing. The gate that decides an approval is
`ApprovalGate`; a decision is an input of `Conversation`, once per resumption.
The two ways of a message to the reply tracker, which the inbound processor
starts, are in `Campaigns`.

Common conventions. A handler in flight is a `pc` and what it holds; an action
is the code between two `await`s. The words in quotes in `status` variables are
the program's own. A variable commented `history` records what happened, for a
property; no guard reads it. `faults`, `restarts` and `ticks` bound the failed
operations, the crashes and the cron times. Definitions with `\* mutant` behind
them are used nowhere: each is its neighbour as a plausible bug would have it,
and replacing the neighbour by it must break the property that
`PROJECT.json` names.

### ApprovalGate

`status[a]` is the row. `RequestApproval` is the store's create, `FinishRequest`
the arming of the timers after the notifier was awaited. A call is a REST
request (`"rest"`: `/resolve` and `/decide`; `"checked"`: `/approve` and
`/reject`, which look first), a Telegram update, `approval.decide` of the
dashboard's WebSocket (`"dashboard"`), or a read (`"view"`, which may persist an
expiry it finds). The dashboard, like Telegram, tests only that something was
answered before it resumes the agent; a connection whose agent is running is
told `BUSY` instead, which is the second disjunct of `Answer`. `ResolveRead` is
`resolve` up to its write, including the cancellation of the timers that comes
*before* the write; `WriteDecision` the write; `Answer` the caller's test and
the resumption of the agent. `TimerFires`, `SweepStart`, `SweepNext`,
`TimeoutRead` and `TimeoutWrite` are the timer, the sweep over its snapshot, and
`handleTimeout`. `CallFault`, `TimeoutFault` and `NotifierFails` are failed
operations, with what the code does about each: a read throws, an update answers
`null`, and `handleTimeout` does not look at it. `Crash` drops everything in
memory.

Two deadlines exist, `expiresAt` of the row and the policy's `timeoutMs`; they
are configured apart, so either may pass first (`lapsed`, `overdue`).

`ApprovalPromise` is the abstract specification: an approval is asked for,
gathers outcomes, is never un-decided, and a call resumes the agent at most
once, on a settled or expired approval, and through a REST route only with a
decision the approval has had. It does not promise one outcome: two calls that
overlap may each write theirs, and the model says so. The refinement mapping
is `asked <- rows that exist`, `outcomes <- held`, `resumed <- calls at
"resumed"`.

### ScheduledTasks

`status`, `nextRun`, `runCount` and `approved` are the row; cron expressions are
abstracted to whether the next time is `"null"`, in the future or due, with
`Tick` for the time's passing. `CreateTask` and `ScheduleFirst` are the two
writes of a creation. `CallRead` and `CallWrite` are approve, reject, pause and
resume; `TriggerRun` the trigger route. A poll keeps a verdict per row of its
snapshot in `plan` and carries it out later: `PollClose`, `PollEnqueue` and then
`PollReschedule`, row by row. A job goes through `JobRead`, `JobCreateRun`,
`JobStart`, `JobResult`, `JobSettle` and `JobCount`, which writes the count *read
before the run*, plus one. Job slots are reused, so that the number of jobs
over a behaviour is not bounded, only those at one time (five in the code).

`TaskPromise` is the abstract specification: what an agent proposed has no run
and is neither paused, resumed nor closed before a human approved it; whoever
makes a task active gives it a time to run at, unless its creation stopped
half-way; it is completed after its limit of runs and expired past its expiry; a
run that is over has begun, and the counter never runs ahead of those that are
over. The refinement mapping is `scheduled <- tasks whose nextRunAt is not null`,
`begun <- executed`, `over <- finished`; the rest of the row is itself. That a
closed or rejected task stays so is not promised, as calls and polls write on
what they read earlier (section 4).

### Campaigns

An audience is a list: an MCP server's answer gives one contact for each of its
rows, and two rows with one phone give one contact twice
(`campaign-runner.ts:201-246`). `Rows` are the positions of the list, and
`send[r][w]` is the record that run `r` creates for the contact in row `w`. A run
looks at the campaign's status once per batch (`RunBreak`, the first conjunct of
`RunNext`), then creates the send, delivers the message and records the outcome.
Any list may be the audience; rows whose contact is `Unreachable` are counted and
skipped. The delivery is the channel resolver's: `RunDeliver` is an attempt that
succeeds, `RunMiss` one that fails or throws, whose message may be out all the
same, repeated until there have been `MaxTries` (3), and `RunUnsendable` the lack
of an adapter. `RunRecordFails` is the write of `sent` that throws and is
taken for a failed delivery; `RunAborts` any other query that throws, outside
the `try`. `CallRead`/`CallWrite` and `MarkRead`/`MarkWrite` are the operator's
routes. `Inbound` starts two checks of one message, `TrackFind`, `TrackRefind`
and `TrackMark` are the first search, the search inside the campaign, and the
transaction that either marks the send and creates its reply row or, because
the reply row is unique per send, does nothing.

`CampaignPromise` is the abstract specification: an execution serves one
campaign that was active, for one audience, row by row; the send is there before
the message goes out, which it does once per execution and row, and again only
after an attempt that was taken for a failure; it says "sent" only if the message
went out; it is delivered or replied to only then, and has one reply at most; a
campaign is completed only by
an execution that has been through its audience, and one that is over says
nothing more. The refinement mapping is `serves <- run[r].campaign`,
`audience` and `left <- todo` of the run, `hand <- at` from the choice of a row to
its outcome, `missed <- tries`, and `stage <- pc`; requests, checks, the batch and
its status check are not in it.
What it does not promise is as telling: a stop is not heeded at once
(`StopIsHeeded` says how soon), a contact is messaged as often as the audience
lists it and by every execution, a message that went out may be counted as
failed, one marked as unsubscribed may never have gone out, and an operator's
mark may be written over by the row's own outcome.

### AgentLoop

A run's `pc` walks `executeLoop`: the look at the signal, the turn counter, the
cost guard's rate, budget and record, the call of the model with its retries,
backoff and fallback, `recordUsage`, and the tools one at a time. `spent` is the
budget's window, a sum over the database that the runs of a project share;
`requests` is the rate limit's, in the memory of the usage store that
`chat-setup.ts:496-499` creates for each run, and ends with it. `NewWindow` is
their moving on. `Runs` are slots in use at a time, reused when a
run ends; a behaviour has any number of runs. The day's and month's budget are
one limit here, as are the minute's and hour's rate: the tighter of each.

### Conversation

One customer; `path` says by which way his messages come. A handler is an
`await` chain in the processor or a job of the queue, in slots that are reused.
On the direct path `Receive` is the synchronous part of `process` (the
deduplicator answers before anything can come between), then `FindContact`,
`CreateContact`, `FindSession`, `CloseSession` and `CreateSession` are its
database calls. In Chatwoot `Enqueue`, `TakeJob` and `ReceiveInline` begin, and
the session is the conversation's own (`EnsureSession`, an upsert). From
`PrepareRun` on all share `runAgent`: the refusal of a paused session, the run,
`SaveRun`, then the answer, sent with the
resolver's retries on a direct channel and once, its failure swallowed, in
Chatwoot. `Throws` is any operation that throws: the processor and the inline
webhook catch it and are done, a job begins again from the start. `Crash`
empties the memory, the deduplicator's entries included; BullMQ delivers a
stalled job again. `SetStatus` is the operator's `PATCH /sessions/:id/status`.

A run ends in one of three ways. It has a text. It ends in order without one,
because the model's call failed, the turns or the budget were used up or the
sixty seconds were over (`agent-runner.ts:281-308`, 379-393, 616): the input and
an empty answer are saved and nobody is told (`Texts`, the first branch of
`SaveRun`). Or it cannot be prepared, as the project, the agent or a prompt is
missing, or throws: nothing is saved and nothing told (`RunFails`, a counted
failure). `Mute` bounds the inputs that may meet with the second, so that silence
has to be explained for the others.

The branch of the processor for a paused session is not in the model: the
lookup returns active sessions only, so it is never taken (section 4).

`ConversationPromise` is the abstract specification: whoever is at work on an
input owes it an answer, which is recorded before it is told and told once; an
input is left to a human only for a keyword, the agent's own marker or a
takeover, or lost because two workers introduced the customer at the same time;
every other loss or repetition takes a failure, and each failure is counted. The
refinement mapping forgets sessions and lookups: `paused <- some session is
paused`, `known <- the deduplicator's entries and the decisions taken`, and of a
handler only its input and the stage its `pc` stands for (`owes`, `greets`,
`human`, `saved`); a job that waits in the queue owes its input.

### ResearchProbe

One phone and one target, any number of sessions of it. `run[s]` is the run job
of a session and its place in `start`; the calls of `updateStatus` are
`StatusCheck` and `StatusStore`, the read and the write of its transaction,
between which another write may come (PostgreSQL's default isolation). `Send`,
`PostFails` and `PostRefused` are the WAHA client's `sendText`, POST by POST
(`waha-research-client.ts:86-173`): one that WAHA answers with 5xx, or that
fails on the network or in reading the answer, may have gone out and is
repeated, up to `MaxPosts` (3); one that runs out of time may have gone out and
is not repeated; one that is refused (4xx) is not out and is not repeated.
`RunInvalid` is a run whose script, phone or target is gone, and `MarkFailed`
writes each failure with its code. `ReadBuffer` and `Listen` are the three steps
of `waitForResponse`; a publication (`Publish`) reaches a run that is at
`"waiting"` for that turn and nobody else. `delivery[d]` is a call of the WAHA
webhook: `Seek` finds the newest session under way and the turn after its last
complete exchange, `OptOut` the transaction of an opt-out, `Persist`,
`SetBuffer` and `Publish` the way of an answer. `CallRead`, `CallCheck`,
`CallStore` and `CallClone` are the operator's routes; `TickLook` and
`TickCreate` the schedule tick, whose sessions get no job. `RunFault` throws
anywhere in the runner and `Throws` gives the job its next attempt; `Crash`
leaves stalled jobs to be delivered again.

`ProbePromise` is the abstract specification: the script turn by turn, an
outcome per turn, the ends and their reasons. The refinement mapping forgets
jobs, buffers, channels, webhook calls and requests: `outcome <- the status if
it is terminal or absent, else "open"`, `why <- code`, `said <- outbound`,
`heard <- inbound`, and the run's `pc` becomes `"open"`, `"spoke"` (sent and not
yet on record) or `"over"`; a POST that failed is `SayInVain` if its message
went out all the same, and a counted fault if not. What it does not promise is
as telling: `Reopen` and `Complete` or `Fail` over an abort are steps of it,
because the code writes on an earlier look at the status.

### AgentSetup

What chat set-up reads of one project: its agents, through the registry's
cache, and its prompt layers. A call is one request or one execution of a tool
and is made once. The registry's lookup of an absent entry is `Miss`,
`ReadRow` and `SetCached`: between the database's read and the callback that
caches it any other call goes on. A hit changes nothing and has no action. Lookups
are by id: one by name (`agent-registry.ts:71-99`) finds another entry, or none,
after a renaming, and no agent is renamed in the model. The writes of a row are
`UpdateModes` and `CreateAgent`, whose check of the channels (`CheckModes`,
`CheckNewAgent`) is a step before them, and `RouteUpdate`, `ToolUpdate`,
`RouteDelete` and `ToolDelete`, which check nothing; what they write beyond
status and channels (tools, skills, model) is a new version of the row, `ver`,
which is what tells a served row from the one in the database (`Outdated`, the
entry's `ver` against what its invalidation told).
Only the routes go on to `Invalidate`. A `disabled` agent is `"paused"`: both
are not active, which is what is looked at. A deleted agent's id does not come
back, so neither does its name here.

`made[t]` counts the versions of a layer type, 1 to `made[t]`, and `active[t]`
is the set of those with `isActive`. Seeding (`LookForLayer`, `NumberSeed`)
goes through the types before the agent is created; `InsertLayer` fails on the
unique version when another insertion came first. `BeginActivate` and
`CommitActivate` are the transaction of `activate`: the update of the other
layers works on what was committed when it began, so that a layer inserted
active in the meantime stays so. `Deactivate` and `Activate` are the admin
tool's two statements, `DeactivateAll`, `GroupVersions` and `InsertActive` the
template's update. The promotions, which treat the types in a loop, are one
call per type.

## 3. Properties and runs

Every property of a passing run has at least one mutant in `PROJECT.json`.

| Run | Instance | Shows |
|---|---|---|
| `approval_gate` | 1 approval, 2 calls of any kind of which one approves and one does not, 1 sweep, escalate, 1 fault, 1 restart, fair | `RestResumeWasDecided`: the routes' 409 test is enough, however calls, expiry and timeout interleave. `LateCallsBounce`: a call that arrives after the end never writes. `ImplementsPromise`: the refinement. `OverdueIsSettled`: with a policy, an overdue approval is settled, unless its own timer fired and failed, which keeps the entry that makes the sweeper skip it |
| `scheduled_tasks` | 1 task, 2 calls, 2 polls, 2 jobs, limit of 1 run, 1 tick, 1 restart | `RunNeedsApproval`, `KeepsPromise`: the refinement, of which that an active task has a next run is a part |
| `scheduled_tasks_live` | 1 call, 2 polls, 1 job, limit of 2 runs, 3 ticks, 1 fault, 1 restart, fair | `ClosedForCause`: a completed task has run as often as it may, an expired one is past its expiry. `DueIsHandled`: a due task does not stay due |
| `campaigns` | 1 campaign, 1 contact in up to 2 rows, 2 runs, 2 operator requests, batch of 1, 1 attempt, 1 fault or crash | `StopIsHeeded`: messages of at most one batch of rows after a stop. `CompletedIsServed`: a completed campaign has a run that recorded an outcome for every row it could reach |
| `campaign_replies` | 1 campaign, 2 contacts (1 unreachable) in up to 2 rows, 1 run, 1 mark, 2 messages each tracked twice, 2 attempts, 1 fault or crash | `MetricsAreReal`: nothing counts as sent or replied unless it went out, except a send that the operator marked as unsubscribed. `KeepsPromise`: the refinement, of which that a reply row is never replaced (`RepliesStand`, proved as well) is a part |
| `agent_loop` | 2 runs, 2 tools (1 risky), 2 turns, 1 retry, fallback, budget 2, cost up to 2, rate 1, fair, no deadlock | `LimitsHold`: the budget is overrun by less than one call's cost per run, and no run exceeds the rate. `ApprovalStopsRun`, `AbortIsHeeded` (one more call; two when nothing is retried and there is a fallback), `CallsAreBounded`, `RunsEnd` |
| `conversation` | 2 messages (1 repeated; 1 a reset or keyword; 1 that may meet with no text), 1 decision, 2 handlers, 3 sessions, 2 attempts, 1 operator change, 1 fault or crash, all three paths, fair | `AnsweredOnce`, `SilenceIsExplained`, `SaidIsRecorded`, `PausedIsQuiet`, `SessionsDoNotPileUp`, `KeepsPromise`: the refinement; `HandlersEnd` (see below) |
| `research_probe` | 2 sessions (1 posted), 2 turns (1 that goes on without an answer), 1 webhook call, 2 messages (1 opt-out), 1 operator's call, 2 attempts, 3 POSTs, 1 fault or crash, fair | `SentOnce`, `TimeoutIsTrue`, `AnalysedIsWhole`, `KeepsPromise`: the refinement; `RunsFinish` |
| `agent_setup` | 2 agents, 1 channel, 2 layer types of 2 versions, 2 calls, 1 read, served for 1 tick, read waits up to 1, 1 fault or restart | `StaleIsBounded`, `InvalidateIsHeeded`, `ClaimsAreExplained`, `LayersAreExplained` (see below) |

`conversation` says: a message is answered once, and again only for a failure or
a forgotten entry (in Chatwoot, which is not deduplicated, per delivery); with
nothing failing, silence has a reason (a human, a lost race, or a run on record
that came to no text); whatever the customer was told is on record before; in a
paused session only what was under way at the pause is still running, so no
retry and no decision makes the agent speak; active sessions stay within what
the handlers that look at once, the resets and the operator can make; nothing
recorded or excused is taken back, and each input is told, excused or lost to a
counted failure step by step as the promise has it; every handler and job ends.
`research_probe` says: a message of the script is sent again only for a POST
that failed after it went out, or a failure between the sending and its row; a
turn is over only when it was said and has an answer or a timeout on record, so
that no message overtakes another (`KeepsPromise`; `TurnsInOrder`, which
follows, is proved and has no run of its own); a session failed for want of a
response has none for that turn, though timer and webhook race for the row; what
is analysed is whole; and a run ends even when the publication it waits for was
lost. `agent_setup` says: the registry serves no row longer after it was written
over than its time to live plus the time its own read waited; once a route has
invalidated, only a read that was under way brings back what was before; two
active agents hold one channel only if the check of one was overtaken, or one
was set active again, which checks nothing; a type has two active layers only if
two activations overlapped, and has none only before its first, inside a call,
or after one that stopped half-way.

Each run also checks, or has a sibling that checks, the module's `TypeOK`.

Why the bounds are enough. The rows of different approvals, tasks and sends do
not touch each other in the code, so one row is enough for what concerns a row,
and the actors around it are what is multiplied: two of each that can overlap
give every overlap of a read and a write (a third actor repeats the same shape),
and one fault and one crash at any place give every half-done operation.
`MaxRuns = 1` makes the limit reached inside the run, and one tick is enough
there, because the second poll finds the task due while the first has not
written its next time yet; `MaxRuns = 2` lets the task go on after its first.
The two runs divide the work: two requests, two jobs and the redelivery after a
crash in one; failed operations, two runs to the limit and three ticks, with one
request and one job, in the other. `Batch` is `PROGRESS_BATCH`, 10 in the code;
with 1 and two rows a run looks at the status between them. How often one
message is tried changes nothing about which rows go out after a stop, so one
attempt is enough for `campaigns`; `campaign_replies` has two. Two rows with one
contact make it have two sends, which is where the two checks of a message go
different ways, and two messages bring four checks to them; the second contact
there is the one that is skipped. That the sends may be of two campaigns or two
executions as well, whose checks end in the campaign they began with, is in the
theorems alone, which hold for any number. Two attempts are the first that may
fail and the last. In the agent loop two runs pass a check together, two tools
put a risky one before and after a safe one, and a budget equal to the largest
cost lets one run be refused by the other's. Two handlers are two messages at
once, a message and its repetition, or a message and a decision; the third
session is the one that should not be there. One fault with two attempts gives
each attempt a way to fail, though not both: using up the attempts needs a
second fault, which takes the run past five minutes and is covered by the
theorems. In the probe one fault is enough for a second POST, or a second
attempt, of a message that went out; a turn that goes on after a timeout and one
that does not are both there, and the second session is a clone or a scheduled
one beside the first. In the set-up two calls are every pair of writers, the one
channel is the one they fight for, two types are needed for a loop that stops
between them, and two versions for an insertion that is refused; a read that
waits a tick is the one that outlives its row's time, and with a time to live of
one tick the row it caches is served past it. A channel claimed twice because a
paused agent was resumed takes three calls and is covered by the theorem alone.
The gate's run has one sweep at a time; that overlapping ones keep its safety
properties is proved. The theorems then lift every safety property from these
instances to all values.

Deadlock is switched off where the model really stops: all calls answered, all
runs ended, all ticks passed. The agent loop takes new messages for ever, the
registry can always be refreshed, and their deadlock checks are on.

### Fairness

* `ApprovalGate`: `setTimeout` and `setInterval` fire, the event loop carries on
  the timeouts and sweeps they started, and a supervisor restarts the process
  (`TimeoutFairness`). `OverdueIsSettled` needs no more than that. In
  `approval_wiring`, which refutes a promise, clocks advance and requests go on
  as well (`Fairness`), so that it does not fail for want of them. No request has
  to arrive, and no operation has to fail or succeed beyond the bound on faults.
* `ScheduledTasks`: polls are started by `setInterval`, polls and jobs that began
  go on, the restart happens. No cron time has to come and no operator has to
  act.
* `AgentLoop`: a run that was started is carried on; the provider's stream ends
  somehow, and the registry's timeout bounds each tool.

* `Conversation`: the event loop and the worker carry on what was begun, and a
  run is aborted after sixty seconds. Nobody has to write, decide or pause.
* `ResearchProbe`: the worker takes queued jobs and carries a run on, and the
  timer of a wait fires (`setTimeout`, `probe-runner.ts:140`). No webhook call
  has to come, and no call of the operator or the tick has to go on.

All of it is weak fairness: nothing here relies on an action that is only
enabled now and then. Its subscripts name only what every step of the action
changes (a run's place, a poll's plan), which means the same as all variables and
lets TLC see at once that a step is another's. "It does not stay so" is written
`[]<>`: the state in question is left again and again, however often it returns.

## 4. Findings

Three runs check, each, one statement of the repository's own docs or comments,
and TLC finds it violated.

* `approval_wiring`: `main.ts:344-345` starts the sweeper "so stale pending
  approvals are resolved even after a process restart". The gate built just
  above is given no timeout policy, without which a sweep returns at once: a
  stale approval stays pending until somebody reads it.
* `conversation_takeover`: `inbound-processor.ts:352` wants the agent skipped
  "if session is paused (operator takeover)". The lookup returns active sessions
  only (`session-repository.ts:130`), so the customer's next message begins a
  new session and the agent answers beside the operator. In Chatwoot and for a
  decided approval, where the session is given, the refusal of `chat-setup.ts:328`
  does hold (`PausedIsQuiet`).
* `probe_opt_out`: `opt-out-detector.ts:4-5` wants the probe to "abort
  immediately", and `probe-runner.ts:9-10` has the buffer "to guarantee no signal
  is ever lost". An abort is published but not buffered, and the runner's loop
  does not look at the status: an opt-out that comes while the runner is
  between waits is lost, and the next message goes out.

Divergences seen on the way that have no run of their own:

* `approvals.test.ts:140` wants 409 for an approval already resolved; the route
  compares the row with the decision asked for (`approvals.ts:167`), so a
  repetition of the same decision is accepted and resumes the agent again (178).
* The life cycle of `README.md:763-765` has ends; calls and polls that write on
  what they read earlier (`task-manager.ts:165`, 194, 223, 255,
  `task-runner.ts:96`) take a task out of them: an approval in flight revives a
  rejected task, a resumption a completed one.
* `campaign-runner.ts:578-580` leaves paused and cancelled "untouched so the
  operator keeps control"; a pause after the run's last look is overwritten with
  completed (581).
* `reply-tracker.ts:53-56` says that its two paths "cannot double-mark a reply".
  They cannot for one send; with a second open send of the same contact the
  second check marks that one too (76).
* `research/repositories/session-repository.ts:4-6` says that a transition of a
  session in a terminal state is a no-op. That holds for `updateStatus` alone:
  `markCompleted`, `markFailed`, `abort` and `updateCurrentTurn` write whatever
  the status is, so an aborted session ends as completed and is analysed, and a
  failure after an opt-out overwrites the code that forbids a retry.
* `campaign-tracker.ts:163-164` counts `unsubscribed` as sent, as it would "imply
  the message arrived before the opt-out". `mark-unsubscribed`
  (`campaigns.ts:881-908`) takes a send in any status, queued and failed included,
  so that a message that never went out counts as sent. `MetricsAreReal` names it
  as the one exception.
* `main.ts:477-478` returns an empty response "so callers skip sending". The
  queue does; the inbound processor hands it to the channel (`Refuses` has the
  customer get nothing: an empty text is refused by the channels' own services).
* The header of `webhook-queue.ts` promises a retry; a send that fails is not
  retried, because the Chatwoot adapter reports a failure instead of throwing
  (`adapters/chatwoot.ts:119-146`), nor is a run that fails, which answers `''`.

Some further behaviour is in the models and worth knowing, though no text of the
repository contradicts it: overlapping jobs lose runs from the counter, so that
a task with a limit may run more often; a campaign that is active may be
executed twice at once and messages its audience twice, and a contact that an MCP
server lists twice is messaged twice by each execution; a Telegram button, or a
decision at the dashboard, whose call lost the race resumes the agent with its
own decision. An attempt to send that is taken for a failure, in a campaign, a
conversation or a probe, is repeated though it may have gone out: the recipient
may get three copies, and a probe's message is sent again by up to three POSTs in
each of its attempts. Of two
first messages of a customer, the one that loses the race to create the contact
is dropped; the answer to an approval decided in Chatwoot is never delivered, as
its sessions hold no recipient; one decided while its session is paused is
lost. Creating and retrying probes never asks whether the target opted out; a
clone's retry counter is always 1 and the original's stays 0, so the cap of two
is never reached along a chain; a session resumed, or created by a schedule, has
no job and holds up its target's schedules; a crash between a timeout's row and
the counter makes every later attempt fail on that row; a message that comes
before the probe's own was sent counts as its answer.

About the set-up of agents four more are visible in `AgentSetup`, whose properties
name them as the only causes:

* `prompt-layer-repository.ts:6` has one layer active per type. The admin tools
  (`write-prompts.ts:192-205`, `sandbox.ts:286-302`) and the template's update
  (`template-manager.ts:315-356`) do it by separate statements, so that
  overlapping ones leave two, a failed one none; and the repository's
  transaction does not see a layer that a template inserts after it began.
* `agents.ts:325` and 607 check for no "channel collision with other agents": two
  overlapping requests both pass, and resuming a paused agent (1091) checks
  nothing.
* Only the routes of agents and skills and the sandbox's promotion invalidate the
  registry. `tools.ts:175`, `control-agent.ts:105`, `write-agents.ts`,
  `destructive.ts:87` and `sandbox.ts:305` do not: an agent that a tool pauses or
  deletes is served from the cache until its time is up.
* Seeding (`agents.ts:477-491`, 924-940) creates layers but activates none, so a
  project without layers is left, after "seed project-level layers if missing",
  with layers that no run reads.

One divergence needs no run to be seen. `README.md:62` and `718-731` give a
project its rate limits, but the request times are in memory
(`prisma-usage-store.ts:21`) and the store is created for each run
(`chat-setup.ts:498`): only the requests of one run count against the limit,
and a project that starts many runs has none. The model has it so.

## 5. Proofs

The theorems hold for every value of the constants under the named assumptions
of each module (`PolicyAssumption`, `BoundsAssumption`, `TimerAssumption`,
`TaskConstants`, `CampaignConstants`, `LoopConstants`, `ConversationConstants`,
`ProbeConstants`, `SetupConstants`): types of the numbers, a
policy out of four, a positive batch, budget and rate, and that the sets of ids
do not contain the words used as "none" and "timer". Only the agent loop needs
finite sets, of runs and of tools, because it counts, and the campaigns finite
audiences, whose rows and steps they count; the conversation counts
handlers and sessions, which are intervals of numbers and finite as they are.

Each proof module has one lemma per conjunct of its inductive invariant, with a
step per action, and derives the properties with PTL.

* `ApprovalGateProofs`: `IInv == TypeOK /\ HistoryOK /\ CallsOK /\ HandlersOK`.
  `RestResumeWasDecided` is not inductive: a call at `"answered"` must already be
  known to hold a status the row has had, and one at `"expire"` an expiry that
  has passed (`CallsOK`); a settled row stays settled (`HistoryOK`) so that a late
  call never sees it pending. `PromiseKept` is the refinement: each action maps
  to `Ask`, `Lapse`, `Settle`, `Resume` or a stutter. `HandlersOK` (timers and
  sweeps hold only rows that exist) is what makes `TimeoutWrite` a `Settle`.
* `ScheduledTasksProofs`: `IInv == TypeOK /\ ApprovalOK /\ ActiveIsScheduled /\
  CountsOK /\ ClosedForCause`. `RunNeedsApproval` needs `ApprovalOK`: a proposed
  task that nobody approved is proposed or rejected, and *nothing* that leads
  to a run (a plan, a job, a trigger, the write of a pause or a resumption)
  holds it. `ClosedForCause` needs `CountsOK`: no counter, and no count carried
  by a job, is ahead of the runs that finished; a poll's verdict stays true
  while it waits. `TaskPromiseKept` is the refinement, from `PInv == IInv /\
  WritesOK /\ BegunOK`: an approval or rejection on its way concerns a task that
  was proposed, which its origin remembers though its status may have changed,
  and a job that is about to count its run has begun one.
* `CampaignsProofs`: `IInv == TypeOK /\ ProgressOK /\ BooksOK /\ TrialsOK /\
  OverrunOK /\ CompletedIsServed /\ WitnessOK /\ MarksOK /\ MetricsAreReal`. A run
  that holds a row has taken it out of `todo`; a run past the status check by `n`
  rows can have sent the messages of at most `n` since a stop, however often each
  was tried, because the rows are counted and not the copies; whoever is about to
  write "sent" holds a send whose message went out. Only the counts of rows and
  steps take an audience to be finite (`RowsAreFinite`).
  `CampaignPromiseKept` is the refinement, from the same invariant: the sends and
  messages of a run agree with its place (nothing before the audience is known or
  for a row to come, a send for the row in hand from its creation on: `BooksOK`),
  whatever the tracker and the routes write meanwhile, because those only write
  on sends that exist, and a request on a send holds one that does (`MarksOK`);
  the attempts for the row in hand and its copies stay within `MaxTries`
  (`TrialsOK`). A lemma per action maps it to a step of the promise or a stutter;
  stops, failures and crashes are all `Leave`.
* `AgentLoopProofs`: `IInv == TypeOK /\ RunsOK /\ SpendOK`. The budget's part of
  `LimitsHold` follows from counting the runs that passed the check and have not
  recorded yet: what is spent, plus the largest cost for each of those, stays
  below the budget plus the largest cost for all runs. `RunsOK` ties the calls
  and requests made to the place in the loop.

* `ConversationProofs`: `IInv == TypeOK /\ HandlersOK /\ Telling /\ SeenArrived
  /\ OneSession /\ SessionCount /\ SaidIsRecorded /\ PausedIsQuiet /\
  SilenceIsExplained`. `AnsweredOnce` is not inductive, because a handler that is
  still on its way will add an answer: `Telling` counts the answers told
  together with the handlers that owe one, against the deduplicator's entry and
  the failures. In the same way `SessionCount` counts active sessions together
  with the handlers about to create one.
* `ConversationPromiseProofs`: `PInv == IInv /\ NoneSeen`. `CustomerPromiseKept`
  is the refinement, a lemma per action: each maps to a step of the promise or a
  stutter. `NoneSeen` (outside a direct channel nothing is ever remembered) is
  needed for taking an input: that an id is unknown must follow from the
  handler's guard alone.
* `ResearchProbeProofs`: `IInv == TypeOK /\ SessionsOK /\ BufferOK /\
  DeliveriesOK`. `SessionsOK` ties the place of a run to the rows of its session:
  the turn it is at is the one after the last complete exchange, past the
  sending there is an outbound row, past the wait an inbound one; an early read
  of the buffer is sound because what is buffered was persisted (`BufferOK`), and
  so is a publication (`DeliveriesOK`). `TimeoutIsTrue` needs that a run that
  failed so is done and never touches its session again.
  `ProbePromiseKept` is the refinement, from `PInv == IInv /\ ReadsOK`. What a
  webhook call or an operator's call read before an `await` is out of date when
  it writes; `ReadsOK` says what is still true of it: the session exists, the
  turn that the call found is at most the one under way, an abort on its way
  means that the opt-out is on record, and a retry never gets to the write. It
  is kept because no action takes a session, a turn or an opt-out back
  (`GoesOn`). An answer persisted late then falls on the turn under way, because
  every earlier one has its own (`SessionsOK`) and a second row is refused.

* `AgentSetupProofs`: `IInv == TypeOK /\ CallsOK /\ RegistryOK /\
  ClaimsAreExplained /\ LayersOK`. `StaleIsBounded` needs, of entries and of
  reads on their way, that the ticks since the row was written over never exceed
  the entry's age and wait (`RegistryOK`). `ClaimsAreExplained` holds of the
  rows because a call past its check and not overtaken clashes with no active
  agent (`CallsOK`), whatever the others write meanwhile. `LayersOK` is
  `LayersAreExplained` with active layers among those made; what a call between
  its statements relies on is in `CallsOK`: what it deactivated is still so
  unless its type is in `crossed`.

That something ends is liveness, but what makes it end is not.
`AgentLoopProofs`, `CampaignsProofs`, `ConversationProofs` and
`ResearchProbeProofs` count the steps that a run or a handler can still take
(`StepsLeft`, of the turns, attempts, calls and rows left) and prove that the
count is within a bound of the configuration (`StepsAreBounded`) and goes down
at every step of its own, failures and retries included, while nobody else gives
any back, except that a crash, which delivers a stalled job again, gives back
less than one attempt, and that a probe's POST may be followed by another of the
fewer than `MaxPosts` (`RunsCountDown`, `HandlersCountDown`). With these,
`RunsEnd`, `HandlersEnd` and `RunsFinish` need only that whoever can go on does,
which is the fairness assumed, and that somebody can, which TLC's runs show;
`Campaigns` states no such property, and the count is all that is said of a
campaign's end. `OverdueIsSettled` and `DueIsHandled` have no such half: a sweep
and a poll go round for ever.

Only model-checked: the liveness properties themselves (`OverdueIsSettled`,
`DueIsHandled`, `RunsEnd`, `HandlersEnd`, `RunsFinish`), because liveness under
fairness is beyond the prover, and the three violations, which TLC shows by a
behaviour. Nothing in the models is recursive, and no theorem is by induction
over data.

## 6. Not modelled

* Time is abstract: deadlines pass when they pass. Cron expressions, backoff
  lengths and the seven days of the reply tracker are left open.
* The contents of messages, prompts, memories, approvals and notes.
* Who decided an approval: the name stays on a row whose status is overwritten.
* The audience cache, the A/B variants, templates and statistics of campaigns;
  `markConversion` and the runner's `checkAndMarkReply`, which nothing calls.
* Streaming events, traces and the writes beside the agent loop.
* Two processes over one database. The program assumes one (its timers, polls
  and dedup live in memory), and so do the models.
* OpenClaw's branch of the inbound processor; `resume` of the handoff, which
  changes no state of this system; two customers, who share nothing but the
  deduplicator's keys: they are of the project and the channel's message id
  (`inbound-processor.ts:127`), and Telegram numbers messages per chat
  (`telegram.ts:130`), so that a message of one may be taken for a repetition of
  another's.
* The research webhook when there is no Redis (no runner runs then), the rows
  and times of the schedules, and the analysis: `ResearchAnalysis.sessionId` is
  unique, so a second analysis of a session throws.
* The MCP connections and their reconnection, which no other model depends on;
  the messages between agents, which live in memory and are not retried.
* New projects (onboarding, templates) as they are being built: nobody else
  writes a project that has just been made. `AgentSetup` starts with the result.
* The routes that create, list and edit rows, the some fifty tools, memory,
  knowledge, providers, files and the dashboard: calls of outside services and
  storage without a protocol. They are most of the repository's lines, and the
  reason why the map covers a small share of it. The other components listed
  as `not_modelled` in `PROJECT.json` carry their reasons there.

## 7. Plan

Done, in this order: approval gate, scheduled tasks, campaigns, agent loop,
conversation, research probes, agent set-up, each with its run, findings and
proofs.

Then the abstract specifications of a conversation, of a probe, of a task and of
the campaigns with their refinements, and the count-downs of the four that end.

What could follow: the promise of the registry's cache, as an abstract
specification like the five there are, "what is served was current so long ago";
the agent loop composed with the gate step
by step (a tool that asked, the row, the decision, the resumed run, and the run
that failed after its approval was opened); the reconnection of MCP servers;
OpenClaw's tasks.
