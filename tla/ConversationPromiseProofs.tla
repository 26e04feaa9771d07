---------------------- MODULE ConversationPromiseProofs ----------------------
(***************************************************************************)
(* The handlers implement ConversationPromise for any number of messages,  *)
(* decisions, handlers, sessions, attempts, failures and crashes: every    *)
(* step of theirs is a step of the promise, or changes nothing in it.  The *)
(* invariant of ConversationProofs says which of the promise's steps a     *)
(* handler's place allows.                                                 *)
(***************************************************************************)
EXTENDS ConversationProofs

(* The promise's variables, as Conversation reads them.                    *)
Paused  == \E s \in Sessions : status[s] = "paused"
Known   == seen \cup {d \in Decisions : arrived[d] > 0}
Work(h) == [input |-> InputOf(h), stage |-> Stage(h)]
AllWork == [h \in Handlers |-> Work(h)]

(* In Chatwoot nothing is deduplicated.                                    *)
NoneSeen == path # "direct" => seen = {}
PInv     == IInv /\ NoneSeen

LEMMA PInvStep == ASSUME PInv, [Next]_vars PROVE PInv'
  <1>1. IInv'
    BY InvStep DEF PInv
  <1>2. CASE UNCHANGED vars
    BY <1>1, <1>2 DEF PInv, NoneSeen, vars
  <1>3. CASE Next
    <2>1. \/ seen' = seen \/ seen' \subseteq seen
          \/ path = "direct"
      BY <1>3, ZenonT(60)
         DEF bounds, inputs, Next, HandlerStep, Receive, Enqueue,
             ReceiveInline, ResumeAfterApproval, FindContact, CreateContact,
             FindSession, CloseSession, CreateSession, TakeJob,
             EnsureSession, PrepareRun, RunAgent, RunFails, SaveRun,
             SendAnswer, SendFails, Escalate, SetStatus, Throws, Forget,
             Crash
    <2>2. path' = path
      BY <1>3, Monotone DEF PInv, IInv
    <2> QED BY <1>1, <2>1, <2>2 DEF PInv, NoneSeen
  <1> QED BY <1>2, <1>3

THEOREM PInvariance == Spec => []PInv
  <1>1. Init => PInv
    BY InitInv DEF PInv, NoneSeen, Init
  <1> QED BY <1>1, PInvStep, PTL DEF Spec

-----------------------------------------------------------------------------
(* How the promise reads a handler's record.                               *)

LEMMA Reading ==
  ASSUME NEW h \in Handlers
  PROVE  /\ Promise!InputOf(h) = InputOf(h)
         /\ Promise!InChatwoot(h) <=> InChatwoot(h)
         /\ \A s : Promise!At(h, s) <=> Stage(h) = s
         /\ \A s : AllWork' = [AllWork EXCEPT ![h].stage = s]
                     => Promise!Move(h, s)
         /\ AllWork' = [AllWork EXCEPT ![h] = Promise!Nobody]
              => Promise!Free(h)
  BY DEF Promise!InputOf, Promise!InChatwoot, InChatwoot, Promise!At,
         Promise!Move, Promise!Free, Promise!Nobody, AllWork, Work

(* What a handler that acts alone does to the work.                        *)
LEMMA WorkMoves ==
  ASSUME NEW h \in Handlers, Others(h)
  PROVE  /\ AllWork' = [AllWork EXCEPT ![h] = Work(h)']
         /\ handler'[h].input = InputOf(h) =>
              AllWork' = [AllWork EXCEPT ![h].stage = Stage(h)']
         /\ handler'[h].input = InputOf(h) /\ Stage(h)' = Stage(h) =>
              AllWork' = AllWork
  <1>1. \A g \in Handlers \ {h} : Work(g)' = Work(g)
    BY DEF Others, Work, InputOf, Stage, At
  <1>2. AllWork = [g \in Handlers |-> Work(g)]
    BY DEF AllWork
  <1>3. AllWork' = [g \in Handlers |-> Work(g)']
    BY DEF AllWork
  <1>4. AllWork' = [AllWork EXCEPT ![h] = Work(h)']
    BY <1>1, <1>2, <1>3
  <1>5. handler'[h].input = InputOf(h) =>
          Work(h)' = [Work(h) EXCEPT !.stage = Stage(h)']
    BY DEF Work, InputOf
  <1>6. AllWork[h] = Work(h)
    BY <1>2
  <1>7. handler'[h].input = InputOf(h) /\ Stage(h)' = Stage(h) =>
          Work(h)' = Work(h)
    BY DEF Work, InputOf
  <1> QED BY <1>1, <1>2, <1>3, <1>4, <1>5, <1>6, <1>7

(* A handler that has ended is free.                                       *)
LEMMA WorkEnds ==
  ASSUME TypeOK, NEW h \in Handlers, End(h)
  PROVE  Promise!Free(h)
  <1>1. Others(h) /\ handler'[h].pc = "idle" /\ handler'[h].input = "none"
    BY Writes DEF TypeOK, HandlerStates
  <1>2. Work(h)' = Promise!Nobody
    BY <1>1 DEF Work, Stage, At, InputOf, Promise!Nobody
  <1> QED BY <1>1, <1>2, WorkMoves, Reading

(* The stage a place belongs to.                                           *)
PlaceStage(pc) ==
  CASE pc = "idle" -> "free"
    [] pc = "newcontact" -> "greets"
    [] pc = "send" -> "saved"
    [] pc = "escalate" -> "human"
    [] OTHER -> "owes"

LEMMA WorkGoes ==
  ASSUME TypeOK, NEW h \in Handlers, NEW pc,
         Goto(h, pc) \/ \E s : Enter(h, pc, s)
  PROVE  /\ Promise!Move(h, PlaceStage(pc))
         /\ PlaceStage(pc) = Stage(h) => AllWork' = AllWork
  <1>1. Others(h) /\ handler'[h].pc = pc /\ handler'[h].input = InputOf(h)
    BY Writes DEF TypeOK, HandlerStates
  <1>2. Stage(h)' = PlaceStage(pc)
    BY <1>1 DEF Stage, At, PlaceStage
  <1> QED BY <1>1, <1>2, WorkMoves, Reading

(* What the promise's other variables read is left alone.                  *)
LEMMA ReadingKept ==
  /\ status' = status => Paused' = Paused
  /\ seen' = seen /\ arrived' = arrived => Known' = Known
  /\ handler' = handler => AllWork' = AllWork
  BY DEF Paused, Known, AllWork, Work, Stage, At, InputOf

Quiet == UNCHANGED <<path, contact, Paused, Known, AllWork, recorded, told,
                     excused, faults>>

LEMMA QuietStutters == Quiet => UNCHANGED Promise!vars
  BY DEF Quiet, Promise!vars, Paused, Known, AllWork, Work

(* Where a pc stands for a stage.                                          *)
LEMMA Stages ==
  ASSUME NEW h \in Handlers
  PROVE  /\ At(h, "idle") => Stage(h) = "free"
         /\ At(h, "newcontact") => Stage(h) = "greets"
         /\ At(h, "send") => Stage(h) = "saved"
         /\ At(h, "escalate") => Stage(h) = "human"
         /\ (~At(h, "idle") /\ ~At(h, "newcontact") /\ ~At(h, "send")
             /\ ~At(h, "escalate")) => Stage(h) = "owes"
  BY DEF Stage, At

LEMMA PlaceStages ==
  /\ PlaceStage("idle") = "free" /\ PlaceStage("newcontact") = "greets"
  /\ PlaceStage("send") = "saved" /\ PlaceStage("escalate") = "human"
  /\ \A pc \in Places \ {"idle", "newcontact", "send", "escalate"} :
       PlaceStage(pc) = "owes"
  BY DEF PlaceStage

-----------------------------------------------------------------------------
(* A delivery, a decision.                                                 *)

LEMMA BeginsWork ==
  ASSUME TypeOK, NEW h \in Handlers, NEW pc, NEW i, NEW s,
         Begin(h, pc, i, s)
  PROVE  AllWork' = [AllWork EXCEPT ![h] =
                       [input |-> i, stage |-> PlaceStage(pc)]]
  <1>1. Others(h) /\ handler'[h].pc = pc /\ handler'[h].input = i
    BY Writes DEF TypeOK, HandlerStates
  <1>2. Stage(h)' = PlaceStage(pc)
    BY <1>1 DEF Stage, At, PlaceStage
  <1>3. Work(h)' = [input |-> i, stage |-> PlaceStage(pc)]
    BY <1>1, <1>2 DEF Work, InputOf
  <1> QED BY <1>1, <1>3, WorkMoves

(* What Take asks for, in the words of the handlers.                       *)
LEMMA TakeRead ==
  ASSUME NEW h \in Handlers, NEW i \in Inputs, NEW s \in {"owes", "human"},
         At(h, "idle"), i \notin Known,
         s = "human" => path = "inline" /\ i \in Keywords,
         Known' = IF path = "direct" \/ i \in Decisions
                  THEN Known \cup {i} ELSE Known,
         AllWork' = [AllWork EXCEPT ![h] = [input |-> i, stage |-> s]],
         UNCHANGED <<path, contact, Paused, recorded, told, excused, faults>>
  PROVE  Promise!Take(h, i)
  <1>1. Promise!At(h, "free")
    BY Reading, Stages
  <1>2. s \in Promise!FirstStages(i)
    BY DEF Promise!FirstStages
  <1> QED
    BY <1>1, <1>2
       DEF Promise!Take, Promise!Once, Known, AllWork, Work, Paused

LEMMA ReceivePromised ==
  ASSUME PInv, NEW h \in Handlers, NEW m \in Messages, Receive(h, m)
  PROVE  Quiet \/ Promise!Take(h, m)
  <1>1. /\ TypeOK /\ m \in Inputs /\ m \notin Decisions /\ At(h, "idle")
        /\ path = "direct"
        /\ UNCHANGED <<path, contact, Paused, recorded, told, excused, faults>>
    BY ReadingKept, ConversationConstants
       DEF PInv, IInv, Inputs, Receive, Deliver, IsFree, bounds
  <1>2. arrived' = [arrived EXCEPT ![m] = @ + 1]
    BY DEF Receive, Deliver
  <1>3. {d \in Decisions : arrived'[d] > 0} = {d \in Decisions : arrived[d] > 0}
    BY <1>1, <1>2 DEF TypeOK, Inputs
  <1>4. CASE SeenAlready(m)
    <2>1. Known' = Known /\ handler' = handler
      BY <1>3, <1>4 DEF Known, Receive
    <2> QED BY <1>1, <2>1, ReadingKept DEF Quiet
  <1>5. CASE ~SeenAlready(m)
    <2>1. /\ Known' = Known \cup {m} /\ Begin(h, "contact", m, 0)
          /\ m \notin Known
      BY <1>1, <1>3, <1>5 DEF Known, Receive, SeenAlready
    <2>2. PlaceStage("contact") = "owes"
      BY DEF PlaceStage
    <2>3. AllWork' = [AllWork EXCEPT ![h] = [input |-> m, stage |-> "owes"]]
      BY <1>1, <2>1, <2>2, BeginsWork
    <2> QED BY <1>1, <2>1, <2>3, TakeRead
  <1> QED BY <1>4, <1>5

LEMMA EnqueuePromised ==
  ASSUME PInv, NEW h \in Handlers, NEW m \in Messages, Enqueue(h, m)
  PROVE  Promise!Forget \/ Promise!Take(h, m)
  <1>1. /\ TypeOK /\ m \in Inputs /\ m \notin Decisions /\ At(h, "idle")
        /\ path = "queue" /\ seen = {}
        /\ UNCHANGED <<path, contact, Paused, recorded, told, excused>>
    BY ReadingKept, ConversationConstants
       DEF PInv, IInv, NoneSeen, Inputs, Enqueue, Deliver, IsFree
  <1>2. arrived' = [arrived EXCEPT ![m] = @ + 1] /\ seen' = seen
    BY DEF Enqueue, Deliver
  <1>3. Known' = Known /\ m \notin Known
    BY <1>1, <1>2 DEF TypeOK, Inputs, Known
  <1>4. CASE Begin(h, "queued", m, 1) /\ faults' = faults
    <2>1. PlaceStage("queued") = "owes"
      BY DEF PlaceStage
    <2>2. AllWork' = [AllWork EXCEPT ![h] = [input |-> m, stage |-> "owes"]]
      BY <1>1, <1>4, <2>1, BeginsWork
    <2> QED BY <1>1, <1>3, <1>4, <2>2, TakeRead
  <1>5. CASE faults' = faults + 1 /\ handler' = handler
    <2>1. AllWork' = AllWork /\ told' = told
      BY <1>5, ReadingKept DEF Enqueue
    <2>2. Known' = Known \ {}
      BY <1>3
    <2> QED
      BY <1>1, <1>5, <2>1, <2>2
         DEF Promise!Forget, Promise!Fault, Known, AllWork, Work, Paused
  <1> QED BY <1>4, <1>5 DEF Enqueue

LEMMA InlinePromised ==
  ASSUME PInv, NEW h \in Handlers, NEW m \in Messages, ReceiveInline(h, m)
  PROVE  Promise!Take(h, m)
  <1>1. /\ TypeOK /\ m \in Inputs /\ m \notin Decisions /\ At(h, "idle")
        /\ path = "inline" /\ seen = {}
        /\ UNCHANGED <<path, contact, Paused, recorded, told, excused, faults>>
    BY ReadingKept, ConversationConstants
       DEF PInv, IInv, NoneSeen, Inputs, ReceiveInline, Deliver, IsFree, bounds
  <1>2. arrived' = [arrived EXCEPT ![m] = @ + 1] /\ seen' = seen
    BY DEF ReceiveInline, Deliver
  <1>3. Known' = Known /\ m \notin Known
    BY <1>1, <1>2 DEF TypeOK, Inputs, Known
  <1>4. PlaceStage(AfterKeywords(m)) = IF m \in Keywords THEN "human" ELSE "owes"
    BY DEF PlaceStage, AfterKeywords
  <1>5. AllWork' = [AllWork EXCEPT ![h] =
                      [input |-> m, stage |-> PlaceStage(AfterKeywords(m))]]
    BY <1>1, BeginsWork DEF ReceiveInline
  <1> QED BY <1>1, <1>3, <1>4, <1>5, TakeRead

LEMMA DecisionPromised ==
  ASSUME PInv, NEW h \in Handlers, NEW d \in Decisions, NEW s \in Sessions,
         ResumeAfterApproval(h, d, s)
  PROVE  Promise!Take(h, d)
  <1>1. /\ TypeOK /\ d \in Inputs /\ d \notin Messages /\ At(h, "idle")
        /\ UNCHANGED <<path, contact, Paused, recorded, told, excused, faults>>
    BY ReadingKept, ConversationConstants
       DEF PInv, IInv, Inputs, ResumeAfterApproval, IsFree, bounds
  <1>2. arrived' = [arrived EXCEPT ![d] = 1] /\ seen' = seen /\ arrived[d] = 0
    BY DEF ResumeAfterApproval
  <1>3. Known' = Known \cup {d} /\ d \notin Known
    BY <1>1, <1>2 DEF TypeOK, Inputs, Known
  <1>4. PlaceStage("prepare") = "owes"
    BY DEF PlaceStage
  <1>5. AllWork' = [AllWork EXCEPT ![h] = [input |-> d, stage |-> "owes"]]
    BY <1>1, <1>4, BeginsWork DEF ResumeAfterApproval
  <1> QED BY <1>1, <1>3, <1>5, TakeRead

-----------------------------------------------------------------------------
(* The steps of a handler.                                                 *)

(* Steps that the promise does not see.                                    *)
LEMMA GoesOnPromised ==
  ASSUME PInv, NEW h \in Handlers,
         \/ FindContact(h) /\ contact
         \/ FindSession(h) \/ EnsureSession(h) \/ RunAgent(h)
         \/ TakeJob(h) /\ InputOf(h) \notin Keywords
         \/ \E s \in Sessions : CreateSession(h, s)
  PROVE  Quiet
  <1>1. TypeOK /\ HandlerOK(h) /\ handler \in [Handlers -> HandlerStates]
    BY DEF PInv, IInv, TypeOK, HandlersOK, HandlerStates
  <1>2. UNCHANGED <<path, contact, recorded, told, excused, faults>>
        /\ Known' = Known
    BY ReadingKept DEF FindContact, FindSession, EnsureSession, RunAgent,
       TakeJob, CreateSession, inputs, bounds
  <1>3. Paused' = Paused
    <2>1. CASE EnsureSession(h)
      BY <1>1, <2>1 DEF EnsureSession, Paused, TypeOK
    <2>2. ASSUME NEW s \in Sessions, CreateSession(h, s)
          PROVE  Paused' = Paused
      BY <1>1, <2>2 DEF CreateSession, IsNext, Paused, TypeOK
    <2>3. CASE status' = status
      BY <2>3, ReadingKept
    <2> QED BY <2>1, <2>2, <2>3 DEF FindContact, FindSession, RunAgent, TakeJob
  <1>4. CASE RunAgent(h) \/ TakeJob(h)
    <2>1. /\ Others(h) /\ handler'[h].input = InputOf(h)
          /\ handler'[h].pc = (IF RunAgent(h) THEN "record"
                               ELSE AfterKeywords(InputOf(h)))
          /\ At(h, "thinking") \/ At(h, "queued")
      BY <1>1, <1>4 DEF RunAgent, TakeJob, Others, InputOf, At, HandlerStates
    <2>2. CASE InputOf(h) \notin Keywords \/ RunAgent(h)
      <3>1. handler'[h].pc \in {"record", "ensure"}
        BY <2>1, <2>2 DEF AfterKeywords
      <3>2. Stage(h)' = "owes" /\ Stage(h) = "owes"
        BY <2>1, <3>1 DEF Stage, At
      <3> QED BY <1>2, <1>3, <2>1, <3>2, WorkMoves DEF Quiet
    <2>3. InputOf(h) \notin Keywords \/ RunAgent(h)
      BY <1>4 DEF RunAgent, TakeJob, FindContact, FindSession, EnsureSession,
         CreateSession, At
    <2> QED BY <2>2, <2>3
  <1>5. CASE ~(RunAgent(h) \/ TakeJob(h))
    <2>1. /\ handler[h].pc \in {"contact", "session", "ensure", "newsession"}
          /\ \E pc \in {"session", "newsession", "close", "prepare"} :
               Goto(h, pc) \/ \E s : Enter(h, pc, s)
      BY <1>5 DEF FindContact, FindSession, EnsureSession, CreateSession, At
    <2>2. Stage(h) = "owes"
      BY <2>1 DEF Stage, At
    <2>3. \A pc \in {"session", "newsession", "close", "prepare"} :
            PlaceStage(pc) = "owes"
      BY DEF PlaceStage
    <2>4. AllWork' = AllWork
      BY <1>1, <2>1, <2>2, <2>3, WorkGoes
    <2> QED BY <1>2, <1>3, <2>4 DEF Quiet
  <1> QED BY <1>4, <1>5

LEMMA StrangerPromised ==
  ASSUME PInv, NEW h \in Handlers, FindContact(h), ~contact
  PROVE  Promise!FindStranger(h)
  <1>1. /\ TypeOK /\ path = "direct" /\ At(h, "contact")
        /\ Goto(h, "newcontact")
        /\ UNCHANGED <<path, contact, Paused, Known, recorded, told, excused,
                       faults>>
    BY ReadingKept DEF PInv, IInv, HandlersOK, HandlerOK, OfProcessor,
       FindContact, At, inputs, bounds
  <1>2. Promise!Move(h, "greets") /\ Promise!At(h, "owes")
    BY <1>1, WorkGoes, PlaceStages, Reading, Stages DEF At
  <1> QED
    BY <1>1, <1>2 DEF Promise!FindStranger, Known, Paused

LEMMA CreateContactPromised ==
  ASSUME PInv, NEW h \in Handlers, CreateContact(h)
  PROVE  Promise!Greet(h) \/ Promise!Excuse(h)
  <1>1. /\ TypeOK /\ Promise!At(h, "greets")
        /\ UNCHANGED <<path, Paused, Known, recorded, told, faults>>
    BY ReadingKept, Reading, Stages DEF PInv, IInv, CreateContact, bounds
  <1>2. CASE contact
    <2>1. Promise!Free(h) /\ contact' = contact
          /\ excused' = excused \cup {Promise!InputOf(h)}
      BY <1>1, <1>2, WorkEnds, Reading DEF CreateContact, Excuse
    <2> QED BY <1>1, <1>2, <2>1 DEF Promise!Excuse, Known, Paused
  <1>3. CASE ~contact
    <2>1. Promise!Move(h, "owes") /\ contact' = TRUE /\ excused' = excused
      <3>1. PlaceStage("session") = "owes" BY DEF PlaceStage
      <3> QED BY <1>1, <1>3, <3>1, WorkGoes DEF CreateContact
    <2> QED BY <1>1, <2>1 DEF Promise!Greet, Known, Paused
  <1> QED BY <1>2, <1>3

LEMMA CloseSessionPromised ==
  ASSUME PInv, NEW h \in Handlers, CloseSession(h)
  PROVE  Promise!Operate \/ Promise!Forget
  <1>1. /\ TypeOK /\ PlaceStage("newsession") = "owes" /\ Stage(h) = "owes"
        /\ UNCHANGED <<path, contact, Known, recorded, told, excused>>
    BY ReadingKept, Stages DEF PInv, IInv, CloseSession, inputs, PlaceStage, At
  <1>2. AllWork' = AllWork
    BY <1>1, WorkGoes DEF CloseSession
  <1>3. CASE faults' = faults
    <2>1. Paused' \in BOOLEAN BY DEF Paused
    <2> QED
      BY <1>1, <1>2, <1>3, <2>1
         DEF Promise!Operate, Known, Paused, AllWork, Work
  <1>4. CASE faults' = faults + 1 /\ status' = status
    <2>1. Paused' = Paused /\ Known' = Known \ {}
      BY <1>1, <1>4, ReadingKept
    <2> QED
      BY <1>1, <1>2, <1>4, <2>1
         DEF Promise!Forget, Promise!Fault, Known, Paused, AllWork, Work
  <1> QED BY <1>3, <1>4 DEF CloseSession

LEMMA KeywordPromised ==
  ASSUME PInv, NEW h \in Handlers, TakeJob(h), InputOf(h) \in Keywords
  PROVE  Promise!AskForHuman(h)
  <1>1. /\ TypeOK /\ handler \in [Handlers -> HandlerStates]
        /\ path = "queue" /\ InChatwoot(h) /\ At(h, "queued")
        /\ UNCHANGED <<path, contact, Paused, Known, recorded, told, excused,
                       faults>>
    BY ReadingKept DEF PInv, IInv, TypeOK, HandlerStates, HandlersOK,
       HandlerOK, OfMessage, InChatwoot, TakeJob, inputs, bounds
  <1>2. /\ Others(h) /\ handler'[h].input = InputOf(h)
        /\ handler'[h].pc = "escalate"
    BY <1>1 DEF TakeJob, AfterKeywords, Others, InputOf, HandlerStates
  <1>3. Stage(h)' = "human" /\ Stage(h) = "owes"
    BY <1>1, <1>2 DEF Stage, At
  <1>4. Promise!Move(h, "human") /\ Promise!At(h, "owes")
    BY <1>2, <1>3, WorkMoves, Reading
  <1> QED
    BY <1>1, <1>4, Reading DEF Promise!AskForHuman, Known, Paused

LEMMA PreparePromised ==
  ASSUME PInv, NEW h \in Handlers, PrepareRun(h)
  PROVE  Quiet \/ Promise!Excuse(h)
  <1>1. /\ TypeOK /\ Stage(h) = "owes" /\ SessionOf(h) \in Sessions
        /\ UNCHANGED <<path, contact, Paused, Known, recorded, told, faults>>
    BY ReadingKept, Stages DEF PInv, IInv, HandlersOK, HandlerOK, PrepareRun,
       bounds, At
  <1>2. CASE Refuses(SessionOf(h))
    <2>1. /\ Promise!Free(h) /\ excused' = excused \cup {Promise!InputOf(h)}
          /\ Paused /\ Promise!At(h, "owes")
      BY <1>1, <1>2, WorkEnds, Reading DEF PrepareRun, Excuse, Refuses, Paused
    <2> QED BY <1>1, <2>1 DEF Promise!Excuse, Known, Paused
  <1>3. CASE ~Refuses(SessionOf(h))
    <2>1. PlaceStage("thinking") = "owes" BY DEF PlaceStage
    <2>2. AllWork' = AllWork /\ excused' = excused
      BY <1>1, <1>3, <2>1, WorkGoes DEF PrepareRun
    <2> QED BY <1>1, <2>2 DEF Quiet
  <1> QED BY <1>2, <1>3

LEMMA SavePromised ==
  ASSUME PInv, NEW h \in Handlers, SaveRun(h)
  PROVE  Promise!Save(h) \/ Promise!SayNothing(h)
  <1>1. /\ TypeOK /\ Promise!At(h, "owes")
        /\ recorded' = recorded \cup {Promise!InputOf(h)}
        /\ InChatwoot(h) \/ handler[h].reply \in {"text", "empty"}
        /\ UNCHANGED <<path, contact, Paused, Known, told, faults>>
    BY ReadingKept, Stages, Reading
       DEF PInv, IInv, HandlersOK, HandlerOK, OfMessage, InChatwoot, SaveRun,
           bounds, At
  <1>2. HasRecipient(h) <=> ~(path # "direct"
                               /\ Promise!InputOf(h) \notin Messages)
    BY Reading DEF HasRecipient
  <1>e. CASE handler[h].reply = "empty"
    <2>1. Promise!Free(h)
      BY <1>1, <1>e, WorkEnds DEF SaveRun
    <2>2. excused' = excused \cup {Promise!InputOf(h)}
      BY <1>e, Reading DEF SaveRun, Excuse
    <2> QED BY <1>1, <2>1, <2>2 DEF Promise!SayNothing, Known, Paused
  <1>u. handler[h].reply # "empty" => excused' = excused
    BY DEF SaveRun
  <1>3. CASE handler[h].reply # "empty" /\ HasRecipient(h)
    <2>1. Promise!Move(h, PlaceStage(AfterSave(h)))
      BY <1>1, <1>3, WorkGoes DEF SaveRun
    <2>2. PlaceStage(AfterSave(h)) =
            IF handler[h].reply = "bare" THEN "human" ELSE "saved"
      BY DEF PlaceStage, AfterSave
    <2> QED
      BY <1>1, <1>2, <1>3, <1>u, <2>1, <2>2, Reading
         DEF Promise!Save, Known, Paused
  <1>4. CASE handler[h].reply # "empty" /\ ~HasRecipient(h)
    <2>1. Promise!Free(h)
      BY <1>1, <1>4, WorkEnds DEF SaveRun
    <2> QED
      BY <1>1, <1>2, <1>4, <1>u, <2>1 DEF Promise!Save, Known, Paused
  <1> QED BY <1>e, <1>3, <1>4

(* After an answer the handler is free, or hands over (Chatwoot).          *)
LEMMA LeavePromised ==
  ASSUME TypeOK, NEW h \in Handlers, HandlerOK(h), At(h, "send"),
         AfterSend(h)
  PROVE  Promise!Leave(h)
  <1>1. CASE handler[h].reply = "marked"
    <2>1. InChatwoot(h)
      BY <1>1 DEF HandlerOK, OfMessage, InChatwoot, At
    <2>2. Promise!Move(h, "human")
      BY <1>1, WorkGoes, PlaceStages DEF AfterSend
    <2> QED BY <2>1, <2>2, Reading DEF Promise!Leave
  <1>2. CASE handler[h].reply # "marked"
    BY <1>2, WorkEnds DEF AfterSend, Promise!Leave
  <1> QED BY <1>1, <1>2

LEMMA AnswerPromised ==
  ASSUME PInv, NEW h \in Handlers, SendAnswer(h)
  PROVE  Promise!Answer(h)
  <1>1. /\ Promise!At(h, "saved") /\ Promise!Leave(h) /\ Promise!Tell(h)
        /\ UNCHANGED <<path, contact, Paused, Known, recorded, excused,
                       faults>>
    BY ReadingKept, Stages, Reading, LeavePromised
       DEF PInv, IInv, HandlersOK, SendAnswer, Tell, Promise!Tell, bounds
  <1> QED BY <1>1 DEF Promise!Answer, Known, Paused

LEMMA EscalatePromised ==
  ASSUME PInv, NEW h \in Handlers, Escalate(h)
  PROVE  Promise!Excuse(h)
  <1>1. /\ Promise!At(h, "human") /\ Promise!Free(h)
        /\ excused' = excused \cup {Promise!InputOf(h)}
        /\ UNCHANGED <<path, contact, Paused, Known, recorded, told, faults>>
    BY ReadingKept, Stages, Reading, WorkEnds
       DEF PInv, IInv, Escalate, Excuse, bounds
  <1> QED BY <1>1 DEF Promise!Excuse, Known, Paused

-----------------------------------------------------------------------------
(* The failures, and the operator.                                         *)

LEMMA RunFailsPromised ==
  ASSUME PInv, NEW h \in Handlers, RunFails(h)
  PROVE  Promise!Fail(h)
  <1>1. /\ ~Promise!At(h, "free") /\ Promise!Free(h) /\ faults' = faults + 1
        /\ UNCHANGED <<path, contact, Paused, Known, recorded, told, excused>>
    BY ReadingKept, Stages, Reading, WorkEnds DEF PInv, IInv, RunFails, At
  <1> QED
    BY <1>1 DEF Promise!Fail, Promise!Fault, Promise!Remains, Promise!Free,
                Known, Paused

LEMMA SendFailsPromised ==
  ASSUME PInv, NEW h \in Handlers, SendFails(h)
  PROVE  Promise!FailToAnswer(h)
  <1>1. /\ TypeOK /\ HandlerOK(h) /\ handler \in [Handlers -> HandlerStates]
        /\ Promise!At(h, "saved") /\ faults' = faults + 1
        /\ Promise!Tell(h) \/ told' = told
        /\ UNCHANGED <<path, contact, Paused, Known, recorded, excused>>
    BY ReadingKept, Stages, Reading
       DEF PInv, IInv, TypeOK, HandlerStates, HandlersOK, SendFails, Tell,
           Promise!Tell
  <1>2. Promise!Leave(h) \/ (~Promise!InChatwoot(h) /\ AllWork' = AllWork)
    <2>1. CASE AfterSend(h) \/ End(h)
      BY <1>1, <2>1, LeavePromised, WorkEnds DEF SendFails, Promise!Leave
    <2>2. CASE ~InChatwoot(h)
               /\ handler' = [handler EXCEPT ![h].tries = @ + 1]
      <3>1. /\ Others(h) /\ handler'[h].input = InputOf(h)
            /\ handler'[h].pc = handler[h].pc
        BY <1>1, <2>2 DEF Others, InputOf, HandlerStates
      <3>2. Stage(h)' = Stage(h)
        BY <3>1 DEF Stage, At
      <3> QED BY <2>2, <3>1, <3>2, WorkMoves, Reading
    <2> QED BY <2>1, <2>2 DEF SendFails
  <1> QED
    BY <1>1, <1>2
       DEF Promise!FailToAnswer, Promise!Fault, Known, Paused, AllWork, Work

LEMMA ThrowsPromised ==
  ASSUME PInv, NEW h \in Handlers, Throws(h)
  PROVE  Promise!Fail(h)
  <1>1. /\ TypeOK /\ handler \in [Handlers -> HandlerStates]
        /\ ~At(h, "idle") /\ faults' = faults + 1
        /\ UNCHANGED <<path, contact, Paused, Known, recorded, told, excused>>
    BY ReadingKept
       DEF PInv, IInv, TypeOK, HandlerStates, Throws, At, Working, Running
  <1>2. ~Promise!At(h, "free")
    BY <1>1, Reading DEF Stage, At
  <1>3. \E r \in Promise!Remains(h) : AllWork' = [AllWork EXCEPT ![h] = r]
    <2>1. CASE End(h)
      BY <1>1, <2>1, WorkEnds
         DEF Promise!Remains, Promise!Free, AllWork, Work
    <2>2. CASE /\ InChatwoot(h) /\ Retried(handler[h].tries)
               /\ handler' = [handler EXCEPT ![h] = Again(h)]
      <3>1. /\ Others(h) /\ handler'[h].input = InputOf(h)
            /\ handler'[h].pc = "queued"
        BY <1>1, <2>2 DEF Others, Again, InputOf, HandlerStates
      <3>2. Work(h)' = [input |-> InputOf(h), stage |-> "owes"]
        BY <3>1 DEF Work, Stage, At, InputOf
      <3>3. [input |-> InputOf(h), stage |-> "owes"] \in Promise!Remains(h)
        BY <2>2, Reading DEF Promise!Remains, InChatwoot, Retried
      <3> QED BY <3>1, <3>2, <3>3, WorkMoves
    <2> QED BY <2>1, <2>2 DEF Throws
  <1> QED
    BY <1>1, <1>2, <1>3
       DEF Promise!Fail, Promise!Fault, Known, Paused, AllWork, Work

LEMMA ForgetPromised ==
  ASSUME PInv, NEW m \in Messages, Forget(m)
  PROVE  Promise!Forget
  <1>1. /\ faults' = faults + 1 /\ seen' = seen \ {m} /\ AllWork' = AllWork
        /\ UNCHANGED <<path, contact, Paused, recorded, told, excused,
                       arrived>>
    BY ReadingKept DEF Forget, inputs
  <1>2. m \notin Decisions
    BY ConversationConstants
  <1>3. Known' = Known \ ({m} \cap seen)
    BY <1>1, <1>2 DEF Known
  <1>4. {m} \cap seen \in SUBSET (Known \cap Messages)
    BY DEF Known
  <1> QED
    BY <1>1, <1>3, <1>4
       DEF Promise!Forget, Promise!Fault, Known, Paused, AllWork, Work

LEMMA CrashPromised ==
  ASSUME PInv, Crash
  PROVE  Promise!Crash
  <1>1. /\ TypeOK /\ HandlersOK /\ faults' = faults + 1 /\ seen' = {}
        /\ UNCHANGED <<path, contact, Paused, recorded, told, excused,
                       arrived>>
    BY ReadingKept DEF PInv, IInv, Crash
  <1>2. Known' = Known \cap Decisions
    BY <1>1, ConversationConstants DEF Known, TypeOK
  <1>3. ASSUME NEW h \in Handlers PROVE AllWork'[h] \in Promise!Remains(h)
    <2>1. AllWork'[h] = Work(h)'
      BY DEF AllWork
    <2>2. CASE handler'[h] = NoHandler
      <3>1. Work(h)' = Promise!Nobody
        BY <2>2 DEF Work, Stage, At, InputOf, NoHandler, Promise!Nobody
      <3> QED BY <2>1, <3>1 DEF Promise!Remains
    <2>3. CASE /\ path = "queue" /\ OfMessage(h)
               /\ handler'[h].pc = "queued"
               /\ handler'[h].input = InputOf(h)
      <3>1. Work(h)' = [input |-> InputOf(h), stage |-> "owes"]
        BY <2>3 DEF Work, Stage, At, InputOf
      <3> QED
        BY <2>1, <2>3, <3>1, Reading DEF Promise!Remains, OfMessage
    <2>4. At(h, "queued") /\ handler'[h] = handler[h] =>
            /\ path = "queue" /\ OfMessage(h) /\ handler'[h].pc = "queued"
            /\ handler'[h].input = InputOf(h)
      BY <1>1 DEF HandlersOK, HandlerOK, At, InputOf
    <2> QED BY <1>1, <2>2, <2>3, <2>4, AfterCrash
  <1>4. AllWork' \in [Handlers -> UNION {Promise!Remains(h) : h \in Handlers}]
    BY <1>3 DEF AllWork
  <1> QED
    BY <1>1, <1>2, <1>3, <1>4
       DEF Promise!Crash, Promise!Fault, Known, Paused, AllWork, Work

LEMMA OperatorPromised ==
  ASSUME PInv, NEW s \in Sessions, NEW new, SetStatus(s, new)
  PROVE  Promise!Operate
  <1>1. /\ AllWork' = AllWork /\ Paused' \in BOOLEAN
        /\ UNCHANGED <<path, contact, Known, recorded, told, excused, faults>>
    BY ReadingKept DEF SetStatus, Paused
  <1> QED
    BY <1>1 DEF Promise!Operate, Known, Paused, AllWork, Work

-----------------------------------------------------------------------------
(* The refinement.                                                         *)

LEMMA CustomerPromiseInit == Init => Promise!Init
  <1> SUFFICES ASSUME Init PROVE Promise!Init
    OBVIOUS
  <1>1. AllWork = [h \in Handlers |-> Promise!Nobody]
    BY DEF Init, AllWork, Work, Stage, At, InputOf, NoHandler, Promise!Nobody
  <1>2. Known = {} /\ Paused = FALSE
    BY DEF Init, Known, Paused, Inputs
  <1> QED
    BY <1>1, <1>2
       DEF Init, Promise!Init, Known, Paused, AllWork, Work, Inputs

LEMMA CustomerPromiseStep ==
  ASSUME PInv, [Next]_vars
  PROVE  [Promise!Next]_Promise!vars
  <1>1. ASSUME NEW h \in Handlers, NEW m \in Messages,
               Receive(h, m) \/ Enqueue(h, m) \/ ReceiveInline(h, m)
        PROVE  Quiet \/ Promise!Next
    BY <1>1, ReceivePromised, EnqueuePromised, InlinePromised
       DEF Promise!Next
  <1>2. ASSUME NEW h \in Handlers, HandlerStep(h)
        PROVE  Quiet \/ Promise!Next
    BY <1>2, GoesOnPromised, StrangerPromised, CreateContactPromised,
       CloseSessionPromised, KeywordPromised, PreparePromised, SavePromised,
       AnswerPromised, EscalatePromised DEF HandlerStep, Promise!Next
  <1>3. ASSUME NEW h \in Handlers, RunFails(h) \/ SendFails(h) \/ Throws(h)
        PROVE  Promise!Next
    BY <1>3, RunFailsPromised, SendFailsPromised, ThrowsPromised
       DEF Promise!Next
  <1>4. ASSUME NEW h \in Handlers, NEW d \in Decisions, NEW s \in Sessions,
               ResumeAfterApproval(h, d, s)
        PROVE  Promise!Next
    BY <1>4, DecisionPromised DEF Promise!Next
  <1>5. CASE \/ \E s \in Sessions, new \in {"active", "paused", "closed"} :
                  SetStatus(s, new)
             \/ \E m \in Messages : Forget(m)
             \/ Crash
    BY <1>5, OperatorPromised, ForgetPromised, CrashPromised DEF Promise!Next
  <1>6. CASE UNCHANGED vars
    <2>1. Quiet
      BY <1>6, ReadingKept DEF vars, inputs, bounds, Quiet
    <2> QED BY <2>1, QuietStutters
  <1> QED
    BY <1>1, <1>2, <1>3, <1>4, <1>5, <1>6, QuietStutters DEF Next

(* The handlers keep the promise to the customer, however many there are   *)
(* and whatever fails: an answer is recorded before it is told, nothing    *)
(* told, recorded or excused is taken back, and work ends without an       *)
(* answer only for a reason or by a failure.                               *)
THEOREM CustomerPromiseKept == Spec => KeepsPromise
  BY PInvariance, CustomerPromiseInit, CustomerPromiseStep, PTL
     DEF Spec, KeepsPromise, Promise!Spec
=============================================================================
