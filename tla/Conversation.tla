----------------------------- MODULE Conversation -----------------------------
(***************************************************************************)
(* How the messages of one customer are answered.  On a direct channel     *)
(* (WhatsApp, Telegram, Slack) the webhook starts the inbound processor    *)
(* (src/src/channels/inbound-processor.ts) and does not wait for it.  In   *)
(* Chatwoot it adds a job to the webhook queue                             *)
(* (src/src/channels/webhook-queue.ts), or runs the same steps itself when *)
(* there is no Redis.  Either way runAgent (src/src/main.ts) runs the      *)
(* agent in a session, and the answer is sent.  The provider may deliver a *)
(* message again, the operator may pause the session and speak himself,    *)
(* and the decision of an approval runs the agent once more.               *)
(***************************************************************************)
EXTENDS Naturals, FiniteSets

CONSTANTS
  Messages,    \* the customer's messages
  Resets,      \* those that ask for a new session (/start)
  Keywords,    \* those in which the customer asks for a human
  Decisions,   \* decided approvals that resume the agent
  Mute,        \* bound: inputs on which the agent may have nothing to say
  MaxHandlers, \* bound: handlers and jobs in progress; slots are reused
  MaxTries,    \* attempts of a job (3), and of a send on a direct channel (3)
  MaxSessions, \* bound: sessions ever created
  MaxRepeats,  \* bound: messages that are delivered a second time
  MaxOps,      \* bound: status changes by the operator
  MaxFaults    \* bound: operations that fail, crashes, and entries that the
               \* deduplicator loses, together

ASSUME ConversationConstants ==
  /\ Resets \subseteq Messages /\ Keywords \subseteq Messages
  /\ Decisions \cap Messages = {} /\ "none" \notin Messages \cup Decisions
  /\ Mute \subseteq Messages \cup Decisions
  /\ MaxSessions \in Nat \ {0} /\ MaxTries \in Nat \ {0}
  /\ MaxHandlers \in Nat /\ MaxRepeats \in Nat
  /\ MaxOps \in Nat /\ MaxFaults \in Nat

Sessions == 1..MaxSessions
Handlers == 1..MaxHandlers
Inputs   == Messages \cup Decisions
Statuses == {"absent", "active", "paused", "closed"}

Running == {"thinking", "record", "send"}
Working == {"contact", "newcontact", "session", "close", "newsession",
            "ensure", "prepare", "escalate"} \cup Running
Places  == {"idle", "queued"} \cup Working
Replies == {"none", "text", "marked", "bare", "empty"}

VARIABLES
  path,      \* "direct", "queue" or "inline" (never changes)
  contact,   \* the contact's row exists
  status,    \* Session.status of the sessions, in the order of their creation
  seen,      \* the deduplicator's entries
  handler,   \* [pc, input, session, reply, tries]
  recorded,  \* inputs whose run is in the session's history
  arrived,   \* history: deliveries of each input
  told,      \* history: answers the customer got to each input
  excused,   \* history: inputs left to a human, lost to a collision, or on
             \* which the agent had nothing to say
  underway,  \* history: runs begun when the operator paused their session
  resets,    \* history: lookups that found a session to close
  ops, faults

inputs  == <<arrived, excused, underway>>
bounds  == <<resets, ops, faults>>
vars    == <<path, contact, status, seen, handler, recorded, told, inputs,
             bounds>>

NoHandler == [pc |-> "idle", input |-> "none", session |-> 0,
              reply |-> "none", tries |-> 0]

TypeOK ==
  /\ path \in {"direct", "queue", "inline"}
  /\ contact \in BOOLEAN
  /\ status \in [Sessions -> Statuses]
  /\ seen \in SUBSET Messages
  /\ handler \in [Handlers -> [pc : Places, input : Inputs \cup {"none"},
                               session : 0..MaxSessions, reply : Replies,
                               tries : 0..MaxTries]]
  /\ recorded \in SUBSET Inputs
  /\ arrived \in [Inputs -> Nat] /\ told \in [Inputs -> Nat]
  /\ excused \in SUBSET Inputs /\ underway \in SUBSET Handlers
  /\ resets \in Nat /\ ops \in Nat /\ faults \in Nat

Init ==
  /\ path \in {"direct", "queue", "inline"}
  /\ contact = FALSE
  /\ status = [s \in Sessions |-> "absent"]
  /\ seen = {} /\ recorded = {} /\ excused = {} /\ underway = {}
  /\ handler = [h \in Handlers |-> NoHandler]
  /\ arrived = [i \in Inputs |-> 0] /\ told = [i \in Inputs |-> 0]
  /\ resets = 0 /\ ops = 0 /\ faults = 0

At(h, pc)     == handler[h].pc = pc
IsFree(h)     == At(h, "idle") /\ \A g \in 1..h-1 : ~At(g, "idle")
InputOf(h)    == handler[h].input
SessionOf(h)  == handler[h].session
Goto(h, pc)   == handler' = [handler EXCEPT ![h].pc = pc]
Enter(h, pc, s) == handler' = [handler EXCEPT ![h].pc = pc, ![h].session = s]
Begin(h, pc, i, s) ==
  handler' = [handler EXCEPT ![h] =
    [NoHandler EXCEPT !.pc = pc, !.input = i, !.session = s]]
End(h) ==
  /\ handler' = [handler EXCEPT ![h] = NoHandler]
  /\ underway' = underway \ {h}
Excuse(h) == excused' = excused \cup {InputOf(h)}

-----------------------------------------------------------------------------
(* A direct channel: process.                                              *)

(* The message is marked as seen before anything else is done with it.     *)
Deliver(h, m) ==
  /\ IsFree(h)
  /\ \/ arrived[m] = 0
     \/ /\ arrived[m] = 1
        /\ Cardinality({n \in Messages : arrived[n] > 1}) < MaxRepeats
  /\ arrived' = [arrived EXCEPT ![m] = @ + 1]
SeenAlreadyNever(m)    == FALSE                                 \* mutant
SeenAlreadyBySender(m) == seen # {}                             \* mutant
SeenAlready(m) == m \in seen
Receive(h, m) ==
  /\ path = "direct" /\ Deliver(h, m)
  /\ IF SeenAlready(m) THEN UNCHANGED <<seen, handler>>
     ELSE seen' = seen \cup {m} /\ Begin(h, "contact", m, 0)
  /\ UNCHANGED <<path, contact, status, recorded, told, excused, underway,
                 bounds>>

FindContact(h) ==
  /\ At(h, "contact")
  /\ Goto(h, IF contact THEN "session" ELSE "newcontact")
  /\ UNCHANGED <<path, contact, status, seen, recorded, told, inputs, bounds>>

(* The identifier is unique: a second creation throws, and its message is  *)
(* dropped.                                                                *)
CreateContact(h) ==
  /\ At(h, "newcontact")
  /\ IF contact
     THEN End(h) /\ Excuse(h) /\ UNCHANGED contact
     ELSE contact' = TRUE /\ Goto(h, "session") /\ UNCHANGED <<excused,
                                                               underway>>
  /\ UNCHANGED <<path, status, seen, recorded, told, arrived, bounds>>

(* The newest active session.  (A paused one is not found, so the branch   *)
(* for one is not in the model: it is never taken.)                        *)
Active == {s \in Sessions : status[s] = "active"}
FoundNone == {}                                                 \* mutant
Found     == {s \in Active : \A t \in Active : t <= s}
FindSession(h) ==
  /\ At(h, "session")
  /\ \/ Found = {} /\ Enter(h, "newsession", 0) /\ UNCHANGED resets
     \/ \E s \in Found :
          IF InputOf(h) \in Resets
          THEN Enter(h, "close", s) /\ resets' = resets + 1
          ELSE Enter(h, "prepare", s) /\ UNCHANGED resets
  /\ UNCHANGED <<path, contact, status, seen, recorded, told, inputs, ops,
                 faults>>

(* updateStatus answers false when it fails, and nobody looks.             *)
CloseSession(h) ==
  /\ At(h, "close")
  /\ \/ /\ status' = [status EXCEPT ![SessionOf(h)] = "closed"]
        /\ UNCHANGED faults
     \/ /\ faults < MaxFaults /\ faults' = faults + 1
        /\ UNCHANGED status
  /\ Enter(h, "newsession", 0)
  /\ UNCHANGED <<path, contact, seen, recorded, told, inputs, resets, ops>>

IsNext(s) == status[s] = "absent" /\ \A t \in 1..s-1 : status[t] # "absent"
CreateSession(h, s) ==
  /\ At(h, "newsession") /\ IsNext(s)
  /\ status' = [status EXCEPT ![s] = "active"]
  /\ Enter(h, "prepare", s)
  /\ UNCHANGED <<path, contact, seen, recorded, told, inputs, bounds>>

-----------------------------------------------------------------------------
(* Chatwoot: a job of the webhook queue, or the webhook itself.  The       *)
(* session is the conversation's own.                                      *)

AfterKeywords(m) == IF m \in Keywords THEN "escalate" ELSE "ensure"

Enqueue(h, m) ==
  /\ path = "queue" /\ Deliver(h, m)
  /\ \/ Begin(h, "queued", m, 1) /\ UNCHANGED faults
     \/ /\ faults < MaxFaults /\ faults' = faults + 1
        /\ UNCHANGED handler
  /\ UNCHANGED <<path, contact, status, seen, recorded, told, excused,
                 underway, resets, ops>>

TakeJob(h) ==
  /\ At(h, "queued")
  /\ handler' = [handler EXCEPT ![h].pc = AfterKeywords(InputOf(h)),
                                ![h].tries = @ + 1]
  /\ UNCHANGED <<path, contact, status, seen, recorded, told, inputs, bounds>>

ReceiveInline(h, m) ==
  /\ path = "inline" /\ Deliver(h, m)
  /\ Begin(h, AfterKeywords(m), m, 1)
  /\ UNCHANGED <<path, contact, status, seen, recorded, told, excused,
                 underway, bounds>>

(* ensureWithId: an existing session is returned untouched.                *)
EnsureSession(h) ==
  LET s == SessionOf(h) IN
  /\ At(h, "ensure")
  /\ status' = [status EXCEPT ![s] = IF @ = "absent" THEN "active" ELSE @]
  /\ Goto(h, "prepare")
  /\ UNCHANGED <<path, contact, seen, recorded, told, inputs, bounds>>

(* resumeAfterApproval runs the agent in the session of the approval.      *)
ResumeAfterApproval(h, d, s) ==
  /\ IsFree(h) /\ arrived[d] = 0 /\ status[s] # "absent"
  /\ arrived' = [arrived EXCEPT ![d] = 1]
  /\ Begin(h, "prepare", d, s)
  /\ UNCHANGED <<path, contact, status, seen, recorded, told, excused,
                 underway, bounds>>

-----------------------------------------------------------------------------
(* runAgent.                                                               *)

(* prepareChatRun refuses a paused session: the response is empty, and an  *)
(* empty response reaches nobody.                                          *)
RefusesNever(s) == FALSE                                        \* mutant
RefusesInactive(s) == status[s] # "active"                      \* mutant
Refuses(s) == status[s] = "paused"
PrepareRun(h) ==
  /\ At(h, "prepare")
  /\ IF Refuses(SessionOf(h)) THEN End(h) /\ Excuse(h)
     ELSE Goto(h, "thinking") /\ UNCHANGED <<excused, underway>>
  /\ UNCHANGED <<path, contact, status, seen, recorded, told, arrived, bounds>>

(* The agent's last text.  There is none, or only that of an earlier turn, *)
(* when a call to the model fails, the budget or the turns are used up, or *)
(* the run is aborted after sixty seconds: the run ends all the same.  In  *)
(* Chatwoot the text may hold the handoff marker, with or without words    *)
(* for the customer.                                                       *)
InChatwoot(h) == path # "direct" /\ InputOf(h) \in Messages
Texts(h) == {"text"} \cup (IF InputOf(h) \in Mute THEN {"empty"} ELSE {})
            \cup (IF InChatwoot(h) THEN {"marked", "bare"} ELSE {})
RunAgent(h) ==
  /\ At(h, "thinking")
  /\ \E r \in Texts(h) :
       handler' = [handler EXCEPT ![h].pc = "record", ![h].reply = r]
  /\ UNCHANGED <<path, contact, status, seen, recorded, told, inputs, bounds>>

(* A run that cannot be prepared, as its project, its agent or a prompt is *)
(* missing, or that throws is answered with nothing; nothing is saved, and *)
(* nothing is thrown any further.                                          *)
RunFails(h) ==
  /\ handler[h].pc \in {"prepare", "thinking"} /\ faults < MaxFaults
  /\ faults' = faults + 1
  /\ End(h)
  /\ UNCHANGED <<path, contact, status, seen, recorded, told, arrived,
                 excused, resets, ops>>

(* The trace and the messages are saved before the answer is sent.  An     *)
(* empty answer is saved too, and reaches nobody.  The sessions of         *)
(* Chatwoot have no recipient in their metadata: the answer to a decision  *)
(* stays in the history.                                                   *)
HasRecipient(h) == path = "direct" \/ InputOf(h) \in Messages
AfterSave(h) == IF handler[h].reply = "bare" THEN "escalate" ELSE "send"
SaveRunLater(h) ==                                              \* mutant
  /\ At(h, "record")
  /\ Goto(h, AfterSave(h))
  /\ UNCHANGED <<path, contact, status, seen, recorded, told, inputs, bounds>>
SaveRun(h) ==
  /\ At(h, "record")
  /\ recorded' = recorded \cup {InputOf(h)}
  /\ IF handler[h].reply = "empty" THEN End(h) /\ Excuse(h)
     ELSE /\ UNCHANGED excused
          /\ IF HasRecipient(h)
             THEN Goto(h, AfterSave(h)) /\ UNCHANGED underway ELSE End(h)
  /\ UNCHANGED <<path, contact, status, seen, told, arrived, bounds>>

Tell(h) == told' = [told EXCEPT ![InputOf(h)] = @ + 1]
AfterSend(h) ==
  IF handler[h].reply = "marked"
  THEN Goto(h, "escalate") /\ UNCHANGED underway ELSE End(h)
SendAnswer(h) ==
  /\ At(h, "send") /\ Tell(h) /\ AfterSend(h)
  /\ UNCHANGED <<path, contact, status, seen, recorded, arrived, excused,
                 bounds>>

(* An attempt that fails may have reached the customer.  A direct channel  *)
(* tries again; the Chatwoot adapter reports the failure, to nobody.       *)
SendFails(h) ==
  /\ At(h, "send") /\ faults < MaxFaults
  /\ faults' = faults + 1
  /\ Tell(h) \/ UNCHANGED told
  /\ IF InChatwoot(h) THEN AfterSend(h)
     ELSE IF handler[h].tries + 1 < MaxTries
     THEN /\ handler' = [handler EXCEPT ![h].tries = @ + 1]
          /\ UNCHANGED underway
     ELSE End(h)
  /\ UNCHANGED <<path, contact, status, seen, recorded, arrived, excused,
                 resets, ops>>

(* handoffToHuman.                                                         *)
Escalate(h) ==
  /\ At(h, "escalate") /\ End(h) /\ Excuse(h)
  /\ UNCHANGED <<path, contact, status, seen, recorded, told, arrived, bounds>>

-----------------------------------------------------------------------------
(* The operator, the deduplicator, and what may go wrong.                  *)

RunsOn(s) == {h \in Handlers : handler[h].pc \in Running /\ SessionOf(h) = s}

(* PATCH /sessions/:id/status; "expired" is as good as closed.             *)
SetStatus(s, new) ==
  /\ ops < MaxOps /\ status[s] \notin {"absent", new}
  /\ ops' = ops + 1
  /\ status' = [status EXCEPT ![s] = new]
  /\ underway' = IF new = "paused" THEN underway \cup RunsOn(s) ELSE underway
  /\ UNCHANGED <<path, contact, seen, handler, recorded, told, arrived,
                 excused, resets, faults>>

(* An entry is dropped after five minutes, or when there are 10,000 newer. *)
Forget(m) ==
  /\ m \in seen /\ faults < MaxFaults
  /\ faults' = faults + 1
  /\ seen' = seen \ {m}
  /\ UNCHANGED <<path, contact, status, handler, recorded, told, inputs,
                 resets, ops>>

(* An operation throws.  The processor and the inline webhook catch it and *)
(* are done; a job is tried again, from the beginning.                     *)
Retried(n) == path = "queue" /\ n < MaxTries
AgainDelayed(h) == [handler[h] EXCEPT !.pc = "delayed"]         \* mutant
Again(h)   == [handler[h] EXCEPT !.pc = "queued", !.reply = "none"]
Throws(h) ==
  /\ handler[h].pc \in Working \ {"close", "thinking", "send"}
  /\ faults < MaxFaults /\ faults' = faults + 1
  /\ IF InChatwoot(h) /\ Retried(handler[h].tries)
     THEN /\ handler' = [handler EXCEPT ![h] = Again(h)]
          /\ underway' = underway \ {h}
     ELSE End(h)
  /\ UNCHANGED <<path, contact, status, seen, recorded, told, arrived,
                 excused, resets, ops>>

(* What is in memory is lost; BullMQ delivers a stalled job once more, or  *)
(* gives it up.                                                            *)
Crash ==
  /\ faults < MaxFaults /\ faults' = faults + 1
  /\ \E stalled \in SUBSET {h \in Handlers :
                     /\ path = "queue" /\ InputOf(h) \in Messages
                     /\ handler[h].pc \in Working} :
       handler' = [h \in Handlers |->
         CASE At(h, "queued") -> handler[h]
           [] h \in stalled   -> [Again(h) EXCEPT !.tries = @ - 1]
           [] OTHER           -> NoHandler]
  /\ seen' = {} /\ underway' = {}
  /\ UNCHANGED <<path, contact, status, recorded, told, arrived, excused,
                 resets, ops>>

-----------------------------------------------------------------------------
HandlerStep(h) ==
  \/ FindContact(h) \/ CreateContact(h) \/ FindSession(h) \/ CloseSession(h)
  \/ \E s \in Sessions : CreateSession(h, s)
  \/ TakeJob(h) \/ EnsureSession(h) \/ PrepareRun(h) \/ RunAgent(h)
  \/ SaveRun(h) \/ SendAnswer(h) \/ Escalate(h)

Next ==
  \/ \E h \in Handlers :
       \/ \E m \in Messages :
            Receive(h, m) \/ Enqueue(h, m) \/ ReceiveInline(h, m)
       \/ \E d \in Decisions, s \in Sessions : ResumeAfterApproval(h, d, s)
       \/ HandlerStep(h) \/ RunFails(h) \/ SendFails(h) \/ Throws(h)
  \/ \E s \in Sessions, new \in {"active", "paused", "closed"} :
       SetStatus(s, new)
  \/ \E m \in Messages : Forget(m)
  \/ Crash

Spec == Init /\ [][Next]_vars

(* The event loop and the worker carry on with what was begun; a run is    *)
(* aborted after sixty seconds.  Nobody has to write, and nothing has to   *)
(* fail.                                                                   *)
Fairness == \A h \in Handlers : WF_<<handler[h]>>(HandlerStep(h))
FairSpec == Spec /\ Fairness

-----------------------------------------------------------------------------
(* The customer gets one answer to a message, and another only for an      *)
(* entry the deduplicator lost, a failure or a crash; in Chatwoot, where   *)
(* nothing is deduplicated, each delivery is answered, and each again for  *)
(* a failure or a crash (inbound-processor.ts:123-125, webhook-queue.ts:91)*)
MostTold(i) == IF path = "direct" THEN 1 + faults
               ELSE arrived[i] * (1 + faults)
AnsweredOnce == \A i \in Inputs : told[i] <= MostTold(i)

(* While nothing fails, every message is answered when its handlers are    *)
(* done, but for one that was left to a human (asked for, or at work in a  *)
(* paused session), one that lost the race to create the contact, and one  *)
(* whose run came to no text, which is on record (main.ts:525-546).  A     *)
(* decision in Chatwoot is never answered (main.ts:650).                   *)
Handled(i) == arrived[i] > 0 /\ \A h \in Handlers : InputOf(h) # i
SilenceIsExplained ==
  faults = 0 => \A i \in Inputs :
    Handled(i) /\ told[i] = 0 =>
      i \in excused \/ (i \in Decisions /\ path # "direct")

(* What the customer was told is in the session's history, where the next  *)
(* run reads it, whatever failed in between (main.ts:511-546).             *)
SaidIsRecorded == \A i \in Inputs : told[i] > 0 => i \in recorded

(* Once the runs that were under way have ended, the agent is silent in a  *)
(* session that is paused: no retry of a job and no decision makes it      *)
(* speak (chat-setup.ts:328).                                              *)
PausedIsQuiet ==
  \A s \in Sessions : status[s] = "paused" => RunsOn(s) \subseteq underway

(* The customer has one active session, and another for each handler that  *)
(* looked at the same time; a reset by two of them at once, and an         *)
(* operator who reopens one, may leave one more (inbound-processor.ts:256).*)
SessionsDoNotPileUp ==
  Cardinality(Active) <= Cardinality(Handlers) + resets + ops

(* The handlers keep the promise that ConversationPromise makes to the     *)
(* customer: what is recorded, told, excused or lost, and in which order,  *)
(* whatever session, job or lookup it goes through                         *)
(* (inbound-processor.ts:202-420, main.ts:459-567, webhook-queue.ts:115).  *)
Stage(h) ==
  CASE At(h, "idle") -> "free"
    [] At(h, "newcontact") -> "greets"
    [] At(h, "send") -> "saved"
    [] At(h, "escalate") -> "human"
    [] OTHER -> "owes"
Promise == INSTANCE ConversationPromise WITH
  Workers <- Handlers,
  met     <- contact,
  paused  <- \E s \in Sessions : status[s] = "paused",
  known   <- seen \cup {d \in Decisions : arrived[d] > 0},
  work    <- [h \in Handlers |-> [input |-> InputOf(h), stage |-> Stage(h)]]
KeepsPromise == Promise!Spec

(* Every handler and every job comes to an end: no failure leaves one      *)
(* waiting (webhook-queue.ts:84-100).                                      *)
HandlersEnd == \A h \in Handlers : []<>At(h, "idle")

(* inbound-processor.ts:352: "If session is paused (operator takeover),    *)
(* persist message but skip agent".  It does not hold: the lookup finds    *)
(* active sessions only, so the customer's next message begins a new       *)
(* session, and the agent answers beside the operator.                     *)
TakeoverHolds ==
  [][\A h \in Handlers :
       At(h, "prepare") /\ (\E s \in Sessions : status[s] = "paused")
       => handler'[h].pc # "thinking"]_vars
=============================================================================
